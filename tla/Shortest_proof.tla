--------------------------- MODULE Shortest_proof ---------------------------
(***************************************************************************)
(* The digits of the shortest formatting read back as the number, and no   *)
(* fewer digits do, in every format.                                       *)
(*                                                                         *)
(* What is nearest to a number is compared in half units, by whole numbers *)
(* and what is left over; the search compares decimals without their       *)
(* point.  The first half of the proof shows the two to be the same        *)
(* comparison, the second follows the search.                              *)
(*                                                                         *)
(* The text written of the answer reads back as the same number, in plain  *)
(* and in scientific notation, and both buffers have room for it: the      *)
(* numbers nearest to a double span an interval so wide that few digits    *)
(* are needed to hit it.                                                   *)
(***************************************************************************)
EXTENDS ShortestText, Texts_proof

---------------------------------------------------------------------------
(* Numbers *)

---------------------------------------------------------------------------
(* Powers and sizes *)

TwoMax == Prec + EMax + Bias + UnitExp

LEMMA Sizes ==
  /\ UnitExp \in Nat /\ UnitExp + 1 <= SmallExp10 /\ SmallExp10 \in Nat /\ SmallExp10 <= MaxDigits
  /\ LargeExp10 \in Nat /\ LargeExp10 + 1 <= MaxDigits /\ MaxDigits \in Nat \ {0}
  /\ Prec - 1 \in Nat \ {0} /\ EMax + Bias \in Nat /\ EMax + Bias > 1 /\ Bias \in Int
  /\ TwoMax \in Nat /\ EMax + Bias <= TwoMax /\ UnitExp + 1 <= TwoMax /\ Prec - 1 <= TwoMax
<1>1. UnitExp = Prec - 2 + Bias /\ Bias \in Int /\ EMax + Bias > 1 /\ Prec \in Nat /\ Prec > 1
  BY FormatAssumption DEF UnitExp, Bias
<1> QED
  BY <1>1, ShortestAssumption, FormatAssumption DEF TwoMax

LEMMA Twos ==
  ASSUME NEW j \in 0 .. TwoMax
  PROVE  /\ 2 ^ j \in Nat \ {0} /\ 2 ^ j \in Nat
         /\ j = 0 => 2 ^ j = 1
         /\ j + 1 \in 0 .. TwoMax => 2 ^ (j + 1) = 2 * 2 ^ j
<1> DEFINE two == 2
<1>1. PowersUpTo(two, TwoMax) /\ TwoMax \in Nat /\ two \in Nat \ {0}
  BY PowersAssumption, Sizes DEF TwoMax
<1> HIDE DEF two
<1>2. two ^ j \in Nat \ {0}
  BY <1>1, PowerPositive
<1>3. /\ j = 0 => two ^ j = 1
      /\ j + 1 \in 0 .. TwoMax => two ^ (j + 1) = two * two ^ j
  <2>1. j + 1 \in 0 .. TwoMax => j \in 0 .. TwoMax - 1
    BY <1>1
  <2> QED
    BY <1>1, <2>1 DEF PowersUpTo
<1> QED
  BY <1>2, <1>3 DEF two

LEMMA TwosSum ==
  ASSUME NEW i \in 0 .. TwoMax, NEW j \in 0 .. TwoMax, i + j <= TwoMax
  PROVE  2 ^ (i + j) = 2 ^ i * 2 ^ j
<1> DEFINE two == 2
<1>1. PowersUpTo(two, TwoMax) /\ TwoMax \in Nat /\ two \in Nat
  BY PowersAssumption, Sizes DEF TwoMax
<1> HIDE DEF two
<1>2. two ^ (i + j) = two ^ i * two ^ j
  BY <1>1, PowerSum
<1> QED
  BY <1>2 DEF two

LEMMA Tens ==
  ASSUME NEW j \in 0 .. MaxDigits
  PROVE  /\ 10 ^ j \in Nat \ {0} /\ 10 ^ j \in Nat
         /\ j = 0 => 10 ^ j = 1
         /\ 5 ^ j \in Nat \ {0} /\ 5 ^ j \in Nat
<1> DEFINE ten == 10
           five == 5
<1>1. PowersUpTo(ten, MaxDigits) /\ PowersUpTo(five, MaxDigits) /\ MaxDigits \in Nat
      /\ ten \in Nat \ {0} /\ five \in Nat \ {0}
  BY PowersAssumption, Sizes
<1> HIDE DEF ten, five
<1>2. ten ^ j \in Nat \ {0} /\ five ^ j \in Nat \ {0}
  BY <1>1, PowerPositive
<1>3. j = 0 => ten ^ j = 1
  BY <1>1 DEF PowersUpTo
<1> QED
  BY <1>2, <1>3 DEF ten, five

LEMMA TensSum ==
  ASSUME NEW i \in 0 .. MaxDigits, NEW j \in 0 .. MaxDigits
  PROVE  /\ i + j <= MaxDigits => 10 ^ (i + j) = 10 ^ i * 10 ^ j
         /\ i <= j => 10 ^ i <= 10 ^ j
<1> DEFINE ten == 10
<1>1. PowersUpTo(ten, MaxDigits) /\ MaxDigits \in Nat /\ ten \in Nat /\ ten \in Nat \ {0}
  BY PowersAssumption, Sizes
<1> HIDE DEF ten
<1>2. i + j <= MaxDigits => ten ^ (i + j) = ten ^ i * ten ^ j
  BY <1>1, PowerSum
<1>3. i <= j => ten ^ i <= ten ^ j
  BY <1>1, PowerOrder
<1> QED
  BY <1>2, <1>3 DEF ten

\* Ten is two times five.
LEMMA TwoFive ==
  ASSUME NEW j \in 0 .. UnitExp + 1
  PROVE  10 ^ j = 2 ^ j * 5 ^ j
<1> DEFINE two == 2
           five == 5
           ten == 10
           most == UnitExp + 1
           S == {i \in 0 .. most : ten ^ i = two ^ i * five ^ i}
<1>1. /\ PowersUpTo(two, TwoMax) /\ PowersUpTo(five, MaxDigits) /\ PowersUpTo(ten, MaxDigits)
      /\ most \in Nat /\ most <= TwoMax /\ most <= MaxDigits /\ TwoMax \in Nat /\ MaxDigits \in Nat
      /\ \A i \in 0 .. most : two ^ i \in Nat /\ five ^ i \in Nat /\ ten ^ i \in Nat
  <2>1. /\ UnitExp \in Nat /\ UnitExp + 1 <= TwoMax /\ UnitExp + 1 <= MaxDigits
        /\ TwoMax \in Nat /\ MaxDigits \in Nat
    BY Sizes
  <2>2. PowersUpTo(two, TwoMax) /\ PowersUpTo(five, MaxDigits) /\ PowersUpTo(ten, MaxDigits)
    BY PowersAssumption DEF TwoMax
  <2>3. ASSUME NEW i \in 0 .. most
        PROVE  two ^ i \in Nat /\ five ^ i \in Nat /\ ten ^ i \in Nat
    <3>1. i \in 0 .. TwoMax /\ i \in 0 .. MaxDigits
      BY <2>1
    <3>2. 2 ^ i \in Nat
      BY <3>1, Twos
    <3>3. 10 ^ i \in Nat /\ 5 ^ i \in Nat
      BY <3>1, Tens
    <3> QED
      BY <3>2, <3>3
  <2> QED
    BY <2>1, <2>2, <2>3
<1>2. 0 \in S
  <2>1. 0 \in 0 .. most
    BY <1>1
  <2>2. ten ^ 0 = 1 /\ two ^ 0 = 1 /\ five ^ 0 = 1
    BY <1>1 DEF PowersUpTo
  <2>3. ten ^ 0 = two ^ 0 * five ^ 0
    BY <2>2
  <2> QED
    BY <2>1, <2>3
<1>3. \A i \in 0 .. most - 1 : i \in S => i + 1 \in S
  <2> SUFFICES ASSUME NEW i \in 0 .. most - 1, i \in S PROVE i + 1 \in S
    OBVIOUS
  <2>1. /\ i \in 0 .. most /\ i + 1 \in 0 .. most
        /\ i \in 0 .. TwoMax - 1 /\ i \in 0 .. MaxDigits - 1
    BY <1>1
  <2>2. two ^ (i + 1) = two * two ^ i /\ five ^ (i + 1) = five * five ^ i /\ ten ^ (i + 1) = ten * ten ^ i
    BY <1>1, <2>1 DEF PowersUpTo
  <2>3. two ^ i \in Nat /\ five ^ i \in Nat /\ ten ^ i = two ^ i * five ^ i
    BY <1>1, <2>1
  <2>4. \A x, y \in Nat : 10 * (x * y) = (2 * x) * (5 * y)
    OBVIOUS
  <2>5. ten * ten ^ i = (two * two ^ i) * (five * five ^ i)
    BY <2>3, <2>4
  <2> HIDE DEF two, five, ten
  <2>6. ten ^ (i + 1) = two ^ (i + 1) * five ^ (i + 1)
    BY <2>2, <2>5, Zenon
  <2> QED
    BY <2>1, <2>6
<1>4. 0 .. most \subseteq S
  <2> HIDE DEF S
  <2> QED
    BY <1>1, <1>2, <1>3, InductionUpTo
<1> QED
  BY <1>4

---------------------------------------------------------------------------
(* The magnitudes, as multiples of the smallest *)

LEMMA Magnitudes ==
  /\ Hidden \in Nat \ {0} /\ Hidden \in Nat /\ InfBits \in Nat
  /\ InfBits = (EMax + Bias + 1) * Hidden /\ InfBits > 2
<1>1. Hidden \in Nat \ {0} /\ Hidden > 1
  <2>1. Prec - 2 \in 0 .. TwoMax /\ (Prec - 2) + 1 = Prec - 1 /\ Prec - 1 \in 0 .. TwoMax
    BY Sizes, FormatAssumption
  <2>2. 2 ^ ((Prec - 2) + 1) = 2 * 2 ^ (Prec - 2) /\ 2 ^ (Prec - 2) \in Nat \ {0}
    BY <2>1, Twos
  <2>3. 2 ^ (Prec - 1) = 2 * 2 ^ (Prec - 2)
    BY <2>1, <2>2, Zenon
  <2> HIDE <2>1
  <2> QED
    BY <2>2, <2>3 DEF Hidden
<1>2. EMax + Bias + 1 \in Nat /\ EMax + Bias + 1 > 2
  BY Sizes
<1>3. \A x, y \in Nat : x > 2 /\ y > 1 => x * y \in Nat /\ x * y > 2
  <2> SUFFICES ASSUME NEW x \in Nat, NEW y \in Nat \ {0}, x > 2 PROVE x * y \in Nat /\ x * y > 2
    OBVIOUS
  <2> QED
    BY Products
<1>4. InfBits = (EMax + Bias + 1) * Hidden
  BY DEF InfBits
<1> QED
  BY <1>1, <1>2, <1>3, <1>4

\* The exponent and the fraction of a magnitude.
LEMMA BitParts ==
  ASSUME NEW b \in 0 .. InfBits
  PROVE  /\ b \in Nat /\ b \div Hidden \in 0 .. EMax + Bias + 1 /\ b % Hidden \in 0 .. Hidden - 1
         /\ b = Hidden * (b \div Hidden) + (b % Hidden)
         /\ b < InfBits => b \div Hidden \in 0 .. EMax + Bias
<1> DEFINE top == EMax + Bias + 1
           p == b \div Hidden
           r == b % Hidden
<1>1. b \in Nat /\ top \in Nat /\ Hidden \in Nat \ {0} /\ InfBits = top * Hidden
  BY Magnitudes, Sizes
<1>2. p \in Nat /\ r \in 0 .. Hidden - 1 /\ b = Hidden * p + r
  BY <1>1, DivMod
<1> HIDE DEF top, p, r
<1>3. p * Hidden <= top * Hidden /\ p * Hidden \in Nat /\ p * Hidden = Hidden * p
  BY <1>1, <1>2
<1>4. p <= top /\ (b < InfBits => p < top)
  <2>1. p <= top
    BY <1>1, <1>2, <1>3, Products
  <2>2. p = top => b >= InfBits
    BY <1>1, <1>2, <1>3
  <2> QED
    BY <1>1, <1>2, <2>1, <2>2
<1> QED
  BY <1>1, <1>2, <1>4, Sizes DEF top, p, r

LEMMA UnitsIs ==
  ASSUME NEW p \in 0 .. EMax + Bias + 1, NEW r \in 0 .. Hidden - 1
  PROVE  /\ Units(Hidden * p + r) = IF p = 0 THEN r ELSE (Hidden + r) * 2 ^ (p - 1)
         /\ Units(Hidden * p + r) \in Nat
<1>1. p \in Nat /\ Hidden \in Nat \ {0} /\ Hidden * p \in Nat /\ r \in Nat /\ Hidden * p + r \in Nat
  BY Magnitudes, Sizes
<1>2. (Hidden * p + r) \div Hidden = p /\ (Hidden * p + r) % Hidden = r
  <2> DEFINE a == Hidden * p + r
  <2>1. a \in Nat /\ a = Hidden * p + r
    BY <1>1
  <2> HIDE DEF a
  <2>2. a \div Hidden = p /\ a % Hidden = r
    BY <1>1, <2>1, DivModIs
  <2> QED
    BY <2>2 DEF a
<1>3. Units(Hidden * p + r) = IF p = 0 THEN r ELSE (Hidden + r) * 2 ^ (p - 1)
  BY <1>2, Zenon DEF Units
<1>4. p # 0 => (Hidden + r) * 2 ^ (p - 1) \in Nat
  <2>1. p # 0 => p - 1 \in 0 .. TwoMax
    BY Sizes
  <2>2. p # 0 => 2 ^ (p - 1) \in Nat
    BY <2>1, Twos
  <2> QED
    BY <1>1, <2>2
<1> QED
  BY <1>1, <1>3, <1>4

LEMMA UnitsType ==
  ASSUME NEW b \in 0 .. InfBits
  PROVE  Units(b) \in Nat
<1> DEFINE p == b \div Hidden
           r == b % Hidden
<1>1. p \in 0 .. EMax + Bias + 1 /\ r \in 0 .. Hidden - 1 /\ b = Hidden * p + r
  BY BitParts
<1> HIDE DEF p, r
<1> QED
  BY <1>1, UnitsIs

\* The next magnitude is larger.
LEMMA UnitsGrow ==
  ASSUME NEW b \in 0 .. InfBits - 1
  PROVE  Units(b) < Units(b + 1)
<1> DEFINE p == b \div Hidden
           r == b % Hidden
<1>1. /\ p \in 0 .. EMax + Bias /\ p \in Nat /\ r \in 0 .. Hidden - 1 /\ r \in Nat /\ b = Hidden * p + r
      /\ Hidden \in Nat \ {0} /\ Hidden * p \in Nat
  <2>1. b \in 0 .. InfBits /\ b < InfBits
    BY Magnitudes
  <2>2. p \in 0 .. EMax + Bias /\ r \in 0 .. Hidden - 1 /\ b = Hidden * p + r
    BY <2>1, BitParts
  <2> HIDE DEF p, r
  <2>3. EMax + Bias \in Nat /\ Hidden \in Nat \ {0}
    BY Sizes, Magnitudes
  <2> QED
    BY <2>2, <2>3
<1> HIDE DEF p, r
<1>2. p \in 0 .. EMax + Bias + 1 /\ p + 1 \in 0 .. EMax + Bias + 1
  BY <1>1, Sizes
<1>3. CASE r + 1 \in 0 .. Hidden - 1
  <2>1. b + 1 = Hidden * p + (r + 1)
    BY <1>1
  <2>2. /\ Units(b) = IF p = 0 THEN r ELSE (Hidden + r) * 2 ^ (p - 1)
        /\ Units(b + 1) = IF p = 0 THEN r + 1 ELSE (Hidden + (r + 1)) * 2 ^ (p - 1)
    BY <1>1, <1>2, <1>3, <2>1, UnitsIs
  <2>3. CASE p = 0
    BY <1>1, <2>2, <2>3
  <2>4. CASE p # 0
    <3>1. p - 1 \in 0 .. TwoMax
      BY <1>1, <2>4, Sizes
    <3>2. 2 ^ (p - 1) \in Nat \ {0}
      BY <3>1, Twos
    <3>3. (Hidden + r) * 2 ^ (p - 1) < (Hidden + (r + 1)) * 2 ^ (p - 1)
      <4>1. Hidden + r \in Nat /\ Hidden + (r + 1) \in Nat /\ Hidden + r < Hidden + (r + 1)
        BY <1>1
      <4> QED
        BY <3>2, <4>1, Products
    <3> QED
      BY <2>2, <2>4, <3>3
  <2> QED
    BY <2>3, <2>4
<1>4. CASE r + 1 = Hidden
  <2>1. b + 1 = Hidden * (p + 1) + 0 /\ 0 \in 0 .. Hidden - 1
    BY <1>1, <1>4
  <2>2. /\ Units(b) = IF p = 0 THEN r ELSE (Hidden + r) * 2 ^ (p - 1)
        /\ Units(b + 1) = IF p + 1 = 0 THEN 0 ELSE (Hidden + 0) * 2 ^ ((p + 1) - 1)
    BY <1>1, <1>2, <2>1, UnitsIs
  <2>3. Units(b + 1) = Hidden * 2 ^ p
    <3>1. p + 1 # 0 /\ (p + 1) - 1 = p /\ Hidden + 0 = Hidden
      BY <1>1
    <3> QED
      BY <2>2, <3>1, Zenon
  <2>4. CASE p = 0
    <3>1. 2 ^ p = 1
      <4>1. p \in 0 .. TwoMax
        BY <1>1, Sizes
      <4> QED
        BY <2>4, <4>1, Twos
    <3> QED
      BY <1>1, <1>4, <2>2, <2>3, <2>4, <3>1
  <2>5. CASE p # 0
    <3>1. p - 1 \in 0 .. TwoMax /\ (p - 1) + 1 \in 0 .. TwoMax /\ (p - 1) + 1 = p
      BY <1>1, <2>5, Sizes
    <3>2. 2 ^ (p - 1) \in Nat \ {0} /\ 2 ^ ((p - 1) + 1) = 2 * 2 ^ (p - 1)
      BY <3>1, Twos
    <3>3. 2 ^ p = 2 * 2 ^ (p - 1)
      BY <3>1, <3>2, Zenon
    <3>4. (Hidden + r) * 2 ^ (p - 1) < (Hidden + Hidden) * 2 ^ (p - 1)
      <4>1. Hidden + r \in Nat /\ Hidden + Hidden \in Nat /\ Hidden + r < Hidden + Hidden
        BY <1>1, <1>4
      <4> QED
        BY <3>2, <4>1, Products
    <3>5. (Hidden + Hidden) * 2 ^ (p - 1) = Hidden * (2 * 2 ^ (p - 1))
      <4>1. \A x, y \in Nat : (x + x) * y = x * (2 * y)
        OBVIOUS
      <4> QED
        BY <1>1, <3>2, <4>1
    <3>6. Hidden * 2 ^ p = (Hidden + Hidden) * 2 ^ (p - 1)
      BY <3>3, <3>5, Zenon
    <3> QED
      BY <2>2, <2>3, <2>5, <3>4, <3>6
  <2> QED
    BY <2>4, <2>5
<1> QED
  BY <1>1, <1>3, <1>4

\* The order of the bits is that of the magnitudes.
LEMMA UnitsOrder ==
  ASSUME NEW b \in 0 .. InfBits, NEW c \in 0 .. InfBits
  PROVE  /\ b < c => Units(b) < Units(c)
         /\ b <= c => Units(b) <= Units(c)
<1> DEFINE S == {x \in 0 .. InfBits : \A y \in 0 .. InfBits : y < x => Units(y) < Units(x)}
<1>1. 0 \in S
  BY Magnitudes
<1>2. \A x \in 0 .. InfBits - 1 : x \in S => x + 1 \in S
  <2> SUFFICES ASSUME NEW x \in 0 .. InfBits - 1, x \in S PROVE x + 1 \in S
    OBVIOUS
  <2>1. x \in 0 .. InfBits /\ x + 1 \in 0 .. InfBits
    BY Magnitudes
  <2>2. Units(x) < Units(x + 1) /\ Units(x) \in Nat /\ Units(x + 1) \in Nat
    BY <2>1, UnitsGrow, UnitsType
  <2>3. ASSUME NEW y \in 0 .. InfBits, y < x + 1
        PROVE  Units(y) < Units(x + 1)
    <3>1. Units(y) \in Nat /\ (y < x \/ y = x)
      BY <2>3, UnitsType
    <3>2. y < x => Units(y) < Units(x)
      OBVIOUS
    <3> QED
      BY <2>2, <3>1, <3>2
  <2> QED
    BY <2>1, <2>3
<1>3. 0 .. InfBits \subseteq S
  <2> HIDE DEF S
  <2> QED
    BY <1>1, <1>2, Magnitudes, InductionUpTo
<1>4. b < c => Units(b) < Units(c)
  BY <1>3
<1>5. Units(b) \in Nat /\ Units(c) \in Nat
  BY UnitsType
<1> QED
  BY <1>4, <1>5

---------------------------------------------------------------------------
(* The interval, in half units *)

Unit == 2 ^ (UnitExp + 1)               \* half units in 1
TwiceMid(c) == Units(c) + Units(c + 1)  \* the midpoint of c and c + 1, in half units

LEMMA UnitType ==
  /\ Unit \in Nat \ {0} /\ Unit \in Nat
  /\ \A c \in 0 .. InfBits - 1 : TwiceMid(c) \in Nat
  /\ \A c \in 0 .. InfBits - 2 : TwiceMid(c) < 2 * Units(InfBits)
<1>1. Unit \in Nat \ {0}
  <2>1. UnitExp + 1 \in 0 .. TwoMax
    BY Sizes
  <2> QED
    BY <2>1, Twos DEF Unit
<1>2. ASSUME NEW c \in 0 .. InfBits - 1
      PROVE  /\ TwiceMid(c) \in Nat
             /\ c <= InfBits - 2 => TwiceMid(c) < 2 * Units(InfBits)
  <2>1. /\ c \in 0 .. InfBits /\ c + 1 \in 0 .. InfBits /\ InfBits \in 0 .. InfBits /\ c < InfBits
        /\ c <= InfBits - 2 => c + 1 < InfBits
    BY Magnitudes
  <2>2. Units(c) \in Nat /\ Units(c + 1) \in Nat /\ Units(InfBits) \in Nat
    BY <2>1, UnitsType
  <2>3. Units(c) < Units(InfBits) /\ (c <= InfBits - 2 => Units(c + 1) < Units(InfBits))
    BY <2>1, UnitsOrder
  <2> QED
    BY <2>2, <2>3 DEF TwiceMid
<1>3. \A c \in 0 .. InfBits - 2 : c \in 0 .. InfBits - 1 /\ c <= InfBits - 2
  BY Magnitudes
<1> QED
  BY <1>1, <1>2, <1>3

\* What ryu_rational_from_bits makes of a magnitude is worth its units.
LEMMA RationalWorth ==
  ASSUME NEW b \in 0 .. InfBits - 1
  PROVE  /\ Rational(b).num \in Nat /\ Rational(b).den \in 0 .. UnitExp
         /\ Rational(b).num * 2 ^ (UnitExp - Rational(b).den) = Units(b)
<1> DEFINE p == b \div Hidden
           r == b % Hidden
           m == IF p = 0 THEN b ELSE Hidden + r
           e2 == (IF p = 0 THEN 0 ELSE p - 1) - UnitExp
<1>1. /\ p \in 0 .. EMax + Bias /\ p \in Nat /\ r \in 0 .. Hidden - 1 /\ r \in Nat /\ b = Hidden * p + r
      /\ Hidden \in Nat \ {0} /\ UnitExp \in Nat /\ p \in 0 .. EMax + Bias + 1 /\ b \in Nat
  <2>1. b \in 0 .. InfBits /\ b < InfBits
    BY Magnitudes
  <2>2. p \in 0 .. EMax + Bias /\ r \in 0 .. Hidden - 1 /\ b = Hidden * p + r
    BY <2>1, BitParts
  <2> HIDE DEF p, r
  <2>3. EMax + Bias \in Nat /\ Hidden \in Nat \ {0} /\ UnitExp \in Nat
    BY Sizes, Magnitudes
  <2> QED
    BY <2>2, <2>3
<1>2. Rational(b) = CASE m = 0 -> [num |-> 0, den |-> 0]
                      [] m # 0 /\ e2 >= 0 -> [num |-> m * 2 ^ e2, den |-> 0]
                      [] OTHER -> [num |-> m, den |-> -e2]
  BY Zenon DEF Rational
<1> HIDE DEF p, r
<1>3. Units(b) = IF p = 0 THEN r ELSE (Hidden + r) * 2 ^ (p - 1)
  BY <1>1, UnitsIs
<1> DEFINE x == IF p = 0 THEN 0 ELSE p - 1
<1>4. x \in 0 .. TwoMax /\ m \in Nat /\ e2 = x - UnitExp
  BY <1>1, Sizes
<1>5. Units(b) = m * 2 ^ x
  <2>1. CASE p = 0
    <3>1. b = r /\ x = 0 /\ m = r
      BY <1>1, <2>1
    <3>2. 2 ^ x = 1
      BY <1>4, <3>1, Twos
    <3> QED
      BY <1>1, <1>3, <2>1, <3>1, <3>2
  <2>2. CASE p # 0
    BY <1>3, <2>2
  <2> QED
    BY <2>1, <2>2
<1> HIDE DEF m, e2, x
<1>6. CASE m = 0
  <2>1. Rational(b).num = 0 /\ Rational(b).den = 0
    BY <1>2, <1>6
  <2>2. 2 ^ x \in Nat /\ 2 ^ (UnitExp - 0) \in Nat
    <3>1. UnitExp - 0 \in 0 .. TwoMax
      BY Sizes
    <3> QED
      BY <1>4, <3>1, Twos
  <2>3. Units(b) = 0
    BY <1>5, <1>6, <2>2
  <2>4. 0 * 2 ^ (UnitExp - 0) = 0
    BY <2>2
  <2> QED
    BY <1>1, <2>1, <2>3, <2>4
<1>7. CASE m # 0 /\ e2 >= 0
  <2>1. Rational(b).num = m * 2 ^ e2 /\ Rational(b).den = 0
    BY <1>2, <1>7
  <2>2. e2 \in 0 .. TwoMax /\ UnitExp \in 0 .. TwoMax /\ e2 + UnitExp = x /\ e2 + UnitExp <= TwoMax
        /\ UnitExp - 0 = UnitExp
    BY <1>1, <1>4, <1>7, Sizes
  <2>3. 2 ^ (e2 + UnitExp) = 2 ^ e2 * 2 ^ UnitExp /\ 2 ^ e2 \in Nat /\ 2 ^ UnitExp \in Nat
    BY <2>2, Twos, TwosSum
  <2>4. (m * 2 ^ e2) * 2 ^ UnitExp = m * (2 ^ e2 * 2 ^ UnitExp) /\ m * 2 ^ e2 \in Nat
    BY <1>4, <2>3, Swapped
  <2>5. 2 ^ x = 2 ^ e2 * 2 ^ UnitExp
    BY <2>2, <2>3, Zenon
  <2>6. Rational(b).num * 2 ^ (UnitExp - Rational(b).den) = (m * 2 ^ e2) * 2 ^ UnitExp
    BY <2>1, <2>2, Zenon
  <2>7. Rational(b).num * 2 ^ (UnitExp - Rational(b).den) = Units(b)
    BY <1>5, <2>4, <2>5, <2>6, Zenon
  <2> QED
    BY <1>1, <2>1, <2>4, <2>7
<1>8. CASE m # 0 /\ e2 < 0
  <2>1. Rational(b).num = m /\ Rational(b).den = -e2
    <3>1. e2 \in Int
      BY <1>1, <1>4
    <3>2. m # 0 /\ ~ (e2 >= 0)
      BY <1>8, <3>1
    <3>3. Rational(b) = [num |-> m, den |-> -e2]
      BY <1>2, <3>2
    <3> QED
      BY <3>3
  <2>2. -e2 \in 0 .. UnitExp /\ UnitExp - (-e2) = x
    BY <1>1, <1>4, <1>8
  <2>3. Rational(b).num * 2 ^ (UnitExp - Rational(b).den) = m * 2 ^ x
    BY <2>1, <2>2, Zenon
  <2> QED
    BY <1>4, <1>5, <2>1, <2>2, <2>3
<1> QED
  BY <1>1, <1>4, <1>6, <1>7, <1>8

\* And the midpoint of two neighbours is worth theirs together, in half units.
LEMMA MidpointWorth ==
  ASSUME NEW b \in 0 .. InfBits - 2
  PROVE  LET r == Midpoint(Rational(b), Rational(b + 1))
         IN  /\ r.num \in Nat /\ r.den \in 1 .. UnitExp + 1
             /\ r.den > Rational(b).den /\ r.den > Rational(b + 1).den
             /\ r.num * 2 ^ ((UnitExp + 1) - r.den) = TwiceMid(b)
<1> DEFINE x == Rational(b)
           y == Rational(b + 1)
           d == Larger(x.den, y.den)
           r == Midpoint(x, y)
<1>1. /\ x.num \in Nat /\ x.den \in 0 .. UnitExp /\ x.num * 2 ^ (UnitExp - x.den) = Units(b)
      /\ y.num \in Nat /\ y.den \in 0 .. UnitExp /\ y.num * 2 ^ (UnitExp - y.den) = Units(b + 1)
      /\ UnitExp \in Nat
  <2>1. b \in 0 .. InfBits - 1 /\ b + 1 \in 0 .. InfBits - 1
    BY Magnitudes
  <2> QED
    BY <2>1, RationalWorth, Sizes
<1>2. r.num = x.num * 2 ^ (d - x.den) + y.num * 2 ^ (d - y.den) /\ r.den = d + 1
  BY DEF Midpoint
<1> HIDE DEF x, y, r
<1>3. d \in 0 .. UnitExp /\ d >= x.den /\ d >= y.den
  BY <1>1 DEF Larger
<1> HIDE DEF d
<1>4. ASSUME NEW n \in Nat, NEW e \in 0 .. UnitExp, d >= e
      PROVE  /\ n * 2 ^ (d - e) \in Nat
             /\ (n * 2 ^ (d - e)) * 2 ^ (UnitExp - d) = n * 2 ^ (UnitExp - e)
  <2>1. /\ d - e \in 0 .. TwoMax /\ UnitExp - d \in 0 .. TwoMax
        /\ (d - e) + (UnitExp - d) = UnitExp - e /\ (d - e) + (UnitExp - d) <= TwoMax
    BY <1>1, <1>3, <1>4, Sizes
  <2>2. 2 ^ ((d - e) + (UnitExp - d)) = 2 ^ (d - e) * 2 ^ (UnitExp - d)
    BY <2>1, TwosSum
  <2>3. 2 ^ (d - e) \in Nat /\ 2 ^ (UnitExp - d) \in Nat
    BY <2>1, Twos
  <2>4. /\ n * 2 ^ (d - e) \in Nat
        /\ (n * 2 ^ (d - e)) * 2 ^ (UnitExp - d) = n * (2 ^ (d - e) * 2 ^ (UnitExp - d))
    BY <2>3, Swapped
  <2>5. 2 ^ (UnitExp - e) = 2 ^ (d - e) * 2 ^ (UnitExp - d)
    BY <2>1, <2>2, Zenon
  <2> QED
    BY <2>4, <2>5
<1> DEFINE u == x.num * 2 ^ (d - x.den)
           v == y.num * 2 ^ (d - y.den)
           w == 2 ^ (UnitExp - d)
<1>5. u \in Nat /\ v \in Nat /\ u * w = Units(b) /\ v * w = Units(b + 1)
  BY <1>1, <1>3, <1>4
<1>6. w \in Nat
  <2>1. UnitExp - d \in 0 .. TwoMax
    BY <1>1, <1>3, Sizes
  <2> QED
    BY <2>1, Twos
<1>7. (UnitExp + 1) - r.den = UnitExp - d
  BY <1>1, <1>2, <1>3
<1>8. r.num = u + v
  BY <1>2
<1>9. r.num * 2 ^ ((UnitExp + 1) - r.den) = r.num * w
  BY <1>7, Zenon
<1> HIDE DEF u, v, w
<1>10. r.num * w = Units(b) + Units(b + 1)
  <2>1. (u + v) * w = u * w + v * w
    BY <1>5, <1>6
  <2> QED
    BY <1>5, <1>8, <2>1
<1>11. r.num * 2 ^ ((UnitExp + 1) - r.den) = TwiceMid(b)
  BY <1>9, <1>10 DEF TwiceMid
<1>12. r.num \in Nat /\ r.den \in 1 .. UnitExp + 1 /\ r.den > x.den /\ r.den > y.den
  BY <1>1, <1>2, <1>3, <1>5, <1>8
<1> QED
  BY <1>11, <1>12 DEF r, x, y

\* A binary fraction times a power of ten that makes it whole.
LEMMA ScaledWorth ==
  ASSUME NEW r, r.num \in Nat, r.den \in 0 .. UnitExp + 1, NEW q \in 0 .. UnitExp + 1, r.den <= q
  PROVE  /\ Scaled(r, q) \in Nat
         /\ Scaled(r, q) * Unit = (r.num * 2 ^ ((UnitExp + 1) - r.den)) * 10 ^ q
<1> DEFINE d == r.den
           n == r.num
           two == 2 ^ d
           five == 5 ^ d
           rest == 10 ^ (q - d)
           over == 2 ^ ((UnitExp + 1) - d)
<1>1. d \in 0 .. TwoMax /\ (UnitExp + 1) - d \in 0 .. TwoMax /\ d + ((UnitExp + 1) - d) = UnitExp + 1
      /\ d + ((UnitExp + 1) - d) <= TwoMax
      /\ d \in 0 .. MaxDigits /\ q - d \in 0 .. MaxDigits /\ d + (q - d) = q /\ d + (q - d) <= MaxDigits
  BY Sizes
<1>2. two \in Nat /\ five \in Nat /\ rest \in Nat /\ over \in Nat /\ n \in Nat
  BY <1>1, Twos, Tens
<1>3. 2 ^ (d + ((UnitExp + 1) - d)) = two * over
  BY <1>1, TwosSum
<1>4. Unit = two * over
  BY <1>1, <1>3, Zenon DEF Unit
<1>5. 10 ^ (d + (q - d)) = 10 ^ d * rest /\ 10 ^ d = two * five
  BY <1>1, TensSum, TwoFive
<1>6. 10 ^ q = (two * five) * rest
  BY <1>1, <1>5, Zenon
<1>7. Scaled(r, q) = n * five * rest
  BY DEF Scaled
<1> HIDE DEF n, two, five, rest, over
<1>8. \A a, b, c, x, y \in Nat : ((a * b) * c) * (x * y) = (a * y) * ((x * b) * c) /\ (a * b) * c \in Nat
  <2> SUFFICES ASSUME NEW a \in Nat, NEW b \in Nat, NEW c \in Nat, NEW x \in Nat, NEW y \in Nat
               PROVE  ((a * b) * c) * (x * y) = (a * y) * ((x * b) * c) /\ (a * b) * c \in Nat
    OBVIOUS
  <2>1. ((a * b) * c) * (x * y) = (a * y) * ((x * b) * c)
    OBVIOUS
  <2>2. (a * b) * c \in Nat
    OBVIOUS
  <2> QED
    BY <2>1, <2>2
<1>9. (n * five * rest) * (two * over) = (n * over) * ((two * five) * rest) /\ n * five * rest \in Nat
  BY <1>2, <1>8
<1>10. Scaled(r, q) * Unit = (n * over) * 10 ^ q
  BY <1>4, <1>6, <1>7, <1>9, Zenon
<1> QED
  BY <1>7, <1>9, <1>10 DEF n, over, d

LEMMA EndsWorth ==
  ASSUME NEW b \in 1 .. InfBits - 2
  PROVE  LET q == ScaleOf(b)
             lower == Scaled(HalfBelow(b), q)
             upper == Scaled(HalfAbove(b), q)
         IN  /\ q \in 1 .. UnitExp + 1 /\ lower \in Nat /\ upper \in Nat
             /\ lower * Unit = TwiceMid(b - 1) * 10 ^ q
             /\ upper * Unit = TwiceMid(b) * 10 ^ q
             /\ \E v \in Nat : v * Unit = (2 * Units(b)) * 10 ^ q
<1> DEFINE q == ScaleOf(b)
           x == HalfBelow(b)
           y == HalfAbove(b)
           z == Rational(b)
<1>1. b \in 0 .. InfBits - 2 /\ b - 1 \in 0 .. InfBits - 2 /\ (b - 1) + 1 = b /\ b \in 0 .. InfBits - 1
      /\ UnitExp \in Nat
  BY Magnitudes, Sizes
<1>2. /\ y.num \in Nat /\ y.den \in 1 .. UnitExp + 1 /\ y.den > z.den
      /\ y.num * 2 ^ ((UnitExp + 1) - y.den) = TwiceMid(b)
  BY <1>1, MidpointWorth DEF HalfAbove
<1>3. /\ x.num \in Nat /\ x.den \in 1 .. UnitExp + 1
      /\ x.num * 2 ^ ((UnitExp + 1) - x.den) = TwiceMid(b - 1)
  <2>1. x = Midpoint(Rational(b - 1), Rational((b - 1) + 1))
    BY <1>1 DEF HalfBelow
  <2> HIDE DEF x
  <2> QED
    BY <1>1, <2>1, MidpointWorth
<1>4. /\ z.num \in Nat /\ z.den \in 0 .. UnitExp /\ z.num * 2 ^ (UnitExp - z.den) = Units(b)
  BY <1>1, RationalWorth
<1>5. q = Larger(x.den, y.den)
  BY DEF ScaleOf
<1> HIDE DEF q, x, y, z
<1>6. q \in 1 .. UnitExp + 1 /\ q >= x.den /\ q >= y.den /\ q >= z.den
  BY <1>1, <1>2, <1>3, <1>4, <1>5 DEF Larger
<1>7. Scaled(x, q) \in Nat /\ Scaled(x, q) * Unit = TwiceMid(b - 1) * 10 ^ q
  <2>1. x.den \in 0 .. UnitExp + 1 /\ q \in 0 .. UnitExp + 1 /\ x.den <= q
    BY <1>3, <1>6
  <2>2. Scaled(x, q) \in Nat /\ Scaled(x, q) * Unit = (x.num * 2 ^ ((UnitExp + 1) - x.den)) * 10 ^ q
    BY <1>3, <2>1, ScaledWorth
  <2> QED
    BY <1>3, <2>2
<1>8. Scaled(y, q) \in Nat /\ Scaled(y, q) * Unit = TwiceMid(b) * 10 ^ q
  <2>1. y.den \in 0 .. UnitExp + 1 /\ q \in 0 .. UnitExp + 1 /\ y.den <= q
    BY <1>2, <1>6
  <2>2. Scaled(y, q) \in Nat /\ Scaled(y, q) * Unit = (y.num * 2 ^ ((UnitExp + 1) - y.den)) * 10 ^ q
    BY <1>2, <2>1, ScaledWorth
  <2> QED
    BY <1>2, <2>2
<1>9. Scaled(z, q) \in Nat /\ Scaled(z, q) * Unit = (2 * Units(b)) * 10 ^ q
  <2>1. z.den \in 0 .. UnitExp + 1 /\ q \in 0 .. UnitExp + 1 /\ z.den <= q
    BY <1>1, <1>4, <1>6
  <2>2. Scaled(z, q) \in Nat /\ Scaled(z, q) * Unit = (z.num * 2 ^ ((UnitExp + 1) - z.den)) * 10 ^ q
    BY <1>4, <2>1, ScaledWorth
  <2>3. z.num * 2 ^ ((UnitExp + 1) - z.den) = 2 * Units(b)
    <3>1. UnitExp - z.den \in 0 .. TwoMax /\ (UnitExp - z.den) + 1 \in 0 .. TwoMax
          /\ (UnitExp + 1) - z.den = (UnitExp - z.den) + 1
      BY <1>1, <1>4, Sizes
    <3>2. 2 ^ ((UnitExp - z.den) + 1) = 2 * 2 ^ (UnitExp - z.den) /\ 2 ^ (UnitExp - z.den) \in Nat
      BY <3>1, Twos
    <3>3. 2 ^ ((UnitExp + 1) - z.den) = 2 * 2 ^ (UnitExp - z.den)
      BY <3>1, <3>2, Zenon
    <3>4. \A u, v \in Nat : u * (2 * v) = 2 * (u * v)
      OBVIOUS
    <3> QED
      BY <1>4, <3>2, <3>3, <3>4
  <2> QED
    BY <2>2, <2>3
<1>10. \E v \in Nat : v * Unit = (2 * Units(b)) * 10 ^ q
  BY <1>9
<1> QED
  BY <1>6, <1>7, <1>8, <1>10 DEF q, x, y

\* The ends enclose the number itself.
LEMMA Enclose ==
  ASSUME NEW b \in 1 .. InfBits - 2
  PROVE  LET q == ScaleOf(b)
             lower == Scaled(HalfBelow(b), q)
             upper == Scaled(HalfAbove(b), q)
         IN  lower \in Nat \ {0} /\ \E v \in Nat \ {0} : lower < v /\ v < upper
<1> DEFINE q == ScaleOf(b)
           lower == Scaled(HalfBelow(b), q)
           upper == Scaled(HalfAbove(b), q)
<1>1. /\ q \in 1 .. UnitExp + 1 /\ lower \in Nat /\ upper \in Nat
      /\ lower * Unit = TwiceMid(b - 1) * 10 ^ q
      /\ upper * Unit = TwiceMid(b) * 10 ^ q
      /\ \E v \in Nat : v * Unit = (2 * Units(b)) * 10 ^ q
  BY EndsWorth
<1> HIDE DEF q, lower, upper
<1>2. PICK v \in Nat : v * Unit = (2 * Units(b)) * 10 ^ q
  BY <1>1
<1>3. 10 ^ q \in Nat \ {0} /\ Unit \in Nat \ {0}
  <2>1. q \in 0 .. MaxDigits
    BY <1>1, Sizes
  <2> QED
    BY <2>1, Tens, UnitType
<1>4. /\ TwiceMid(b - 1) \in Nat \ {0} /\ 2 * Units(b) \in Nat /\ TwiceMid(b) \in Nat
      /\ TwiceMid(b - 1) < 2 * Units(b) /\ 2 * Units(b) < TwiceMid(b)
  <2>1. b - 1 \in 0 .. InfBits - 1 /\ b \in 0 .. InfBits - 1 /\ (b - 1) + 1 = b
        /\ b - 1 \in 0 .. InfBits /\ b \in 0 .. InfBits /\ b + 1 \in 0 .. InfBits
    BY Magnitudes
  <2>2. Units(b - 1) < Units((b - 1) + 1) /\ Units(b) < Units(b + 1)
    BY <2>1, UnitsGrow
  <2>3. Units(b - 1) \in Nat /\ Units(b) \in Nat /\ Units(b + 1) \in Nat
    BY <2>1, UnitsType
  <2>4. TwiceMid(b - 1) = Units(b - 1) + Units(b) /\ TwiceMid(b) = Units(b) + Units(b + 1)
        /\ Units(b - 1) < Units(b)
    BY <2>1, <2>2 DEF TwiceMid
  <2> QED
    BY <2>2, <2>3, <2>4
<1>5. lower < v /\ v < upper
  <2>1. TwiceMid(b - 1) * 10 ^ q < (2 * Units(b)) * 10 ^ q
    BY <1>3, <1>4, Products
  <2>2. (2 * Units(b)) * 10 ^ q < TwiceMid(b) * 10 ^ q
    BY <1>3, <1>4, Products
  <2>3. lower * Unit < v * Unit /\ v * Unit < upper * Unit
    BY <1>1, <1>2, <2>1, <2>2
  <2> QED
    BY <1>1, <1>3, <2>3, Products
<1>6. lower # 0
  <2>1. TwiceMid(b - 1) * 10 ^ q # 0
    <3>1. TwiceMid(b - 1) <= TwiceMid(b - 1) * 10 ^ q /\ TwiceMid(b - 1) * 10 ^ q \in Nat
      BY <1>3, <1>4, Products
    <3> QED
      BY <1>4, <3>1
  <2>2. 0 * Unit = 0
    BY <1>3
  <2> QED
    BY <1>1, <2>1, <2>2
<1> QED
  BY <1>1, <1>5, <1>6 DEF q, lower, upper

---------------------------------------------------------------------------
(* Comparing in half units, and without the point *)

LEMMA LeadingDigit ==
  ASSUME NEW x \in Nat, NEW y \in Nat, NEW z \in Nat \ {0}, NEW s \in 0 .. z - 1
  PROVE  /\ x * z + s > y * z <=> x > y \/ (x = y /\ s # 0)
         /\ x * z + s = y * z <=> x = y /\ s = 0
<1>1. x * z \in Nat /\ y * z \in Nat
  BY Products
<1>2. (x < y => x * z + z <= y * z) /\ (y < x => y * z + z <= x * z)
  BY Products
<1>3. x = y => x * z = y * z
  OBVIOUS
<1> QED
  BY <1>1, <1>2, <1>3

Within(n, e) == e \in -SmallExp10 .. LargeExp10 /\ (e >= 0 => n <= 2 * Units(InfBits))

LEMMA HalfUnitsAre ==
  ASSUME NEW n \in Nat, NEW e \in Int, Within(n, e)
  PROVE  /\ e >= 0 => HalfUnits(n, e) = (n * Unit) * 10 ^ e /\ ~Leftover(n, e)
         /\ e < 0 => /\ HalfUnits(n, e) = (n * Unit) \div 10 ^ (-e)
                     /\ Leftover(n, e) <=> (n * Unit) % 10 ^ (-e) # 0
<1>1. e >= -SmallExp10 /\ e <= LargeExp10 /\ SmallExp10 \in Nat /\ LargeExp10 \in Nat
  BY Sizes DEF Within
<1>2. CASE e >= 0
  <2>1. ~ (e < 0) /\ ~ (e > LargeExp10) /\ n <= 2 * Units(InfBits)
    BY <1>1, <1>2 DEF Within
  <2>2. InfBits \in 0 .. InfBits
    BY Magnitudes
  <2>3. ~ (n > 2 * Units(InfBits))
    <3>1. Units(InfBits) \in Nat
      BY <2>2, UnitsType
    <3> QED
      BY <2>1, <3>1
  <2>4. HalfUnits(n, e) = (n * Unit) * 10 ^ e
    BY <1>2, <2>1, <2>3 DEF HalfUnits, Unit
  <2>5. ~Leftover(n, e)
    BY <2>1 DEF Leftover
  <2> QED
    BY <1>2, <2>4, <2>5
<1>3. CASE e < 0
  <2>1. (IF e < -SmallExp10 THEN SmallExp10 ELSE -e) = -e
    BY <1>1
  <2>2. HalfUnits(n, e) = (n * Unit) \div 10 ^ (-e)
    BY <1>3, <2>1 DEF HalfUnits, Unit
  <2>3. Leftover(n, e) <=> (n * Unit) % 10 ^ (-e) # 0
    BY <1>3, <2>1 DEF Leftover, Unit
  <2> QED
    BY <1>3, <2>2, <2>3
<1> QED
  BY <1>2, <1>3

\* A decimal is rounded past a midpoint just if it is beyond it, where both are multiples
\* of 10^-q.
LEMMA Compare ==
  ASSUME NEW n \in Nat, NEW e \in Int, Within(n, e), NEW q \in 0 .. UnitExp + 1,
         e + q \in 0 .. MaxDigits, NEW c \in 0 .. InfBits - 1, NEW end \in Nat,
         end * Unit = TwiceMid(c) * 10 ^ q
  PROVE  RoundsPast(n, e, c) <=> n * 10 ^ (e + q) > end \/ (n * 10 ^ (e + q) = end /\ c % 2 = 1)
<1> DEFINE big == 10 ^ q
           new == 10 ^ (e + q)
           x == HalfUnits(n, e)
           f == Unit
           y == TwiceMid(c)
<1>1. /\ big \in Nat \ {0} /\ new \in Nat \ {0} /\ f \in Nat \ {0} /\ y \in Nat
      /\ q \in 0 .. MaxDigits /\ q \in Nat
  <2>1. q \in 0 .. MaxDigits /\ q \in Nat
    BY Sizes
  <2> QED
    BY <2>1, Tens, UnitType
<1>2. RoundsPast(n, e, c) <=> x > y \/ (x = y /\ (Leftover(n, e) \/ c % 2 = 1))
  BY DEF RoundsPast, TwiceMid
<1>3. end * f = y * big
  OBVIOUS
<1>4. \E s \in 0 .. big - 1 :
        /\ x \in Nat /\ (n * new) * f = x * big + s
        /\ Leftover(n, e) <=> s # 0
  <2>1. CASE e >= 0
    <3>1. e \in 0 .. MaxDigits
      BY <1>1, <2>1, Sizes DEF Within
    <3>2. new = 10 ^ e * big /\ 10 ^ e \in Nat
      BY <1>1, <3>1, Tens, TensSum
    <3>3. x = (n * f) * 10 ^ e /\ ~Leftover(n, e)
      BY <2>1, HalfUnitsAre
    <3> DEFINE w == 10 ^ e
    <3> HIDE DEF w, big, new, x, f
    <3>4. w \in Nat /\ new = w * big /\ x = (n * f) * w
      BY <3>2, <3>3 DEF w
    <3>5. (n * new) * f = x * big + 0 /\ x \in Nat
      <4>1. (n * f) * w \in Nat
        BY <1>1, <3>4, Swapped
      <4>2. \A a, b, d, g \in Nat : (a * (b * d)) * g = ((a * g) * b) * d
        OBVIOUS
      <4>3. (n * (w * big)) * f = ((n * f) * w) * big
        BY <1>1, <3>4, <4>2
      <4>4. x * big \in Nat
        BY <1>1, <3>4, <4>1
      <4> QED
        BY <3>4, <4>1, <4>3, <4>4
    <3>6. 0 \in 0 .. big - 1
      BY <1>1
    <3> QED
      BY <3>3, <3>5, <3>6
  <2>2. CASE e < 0
    <3> DEFINE p == 10 ^ (-e)
               r == (n * f) % p
    <3>1. -e \in 0 .. MaxDigits /\ (-e) + (e + q) = q /\ (-e) + (e + q) <= MaxDigits
      BY <1>1, <2>2, Sizes DEF Within
    <3>2. 10 ^ ((-e) + (e + q)) = p * new /\ p \in Nat \ {0}
      BY <3>1, Tens, TensSum
    <3>3. big = p * new
      BY <3>1, <3>2, Zenon
    <3>4. x = (n * f) \div p /\ (Leftover(n, e) <=> r # 0)
      BY <2>2, HalfUnitsAre
    <3> HIDE DEF p, big, new, x, f
    <3>5. n * f \in Nat
      BY <1>1
    <3>6. x \in Nat /\ r \in 0 .. p - 1 /\ n * f = p * x + r
      BY <3>2, <3>4, <3>5, DivMod
    <3> HIDE DEF r
    <3>7. (n * new) * f = x * big + r * new
      <4>1. (n * new) * f = (n * f) * new
        BY <1>1, Swapped
      <4>2. \A a, b, d, g \in Nat : (a * b + d) * g = b * (a * g) + d * g
        OBVIOUS
      <4>3. (p * x + r) * new = x * (p * new) + r * new
        BY <1>1, <3>2, <3>6, <4>2
      <4> QED
        BY <3>3, <3>6, <4>1, <4>3
    <3>8. r * new \in 0 .. big - 1
      <4>1. r < p => r * new + new <= p * new
        BY <1>1, <3>2, <3>6, Products
      <4>2. r * new \in Nat /\ p * new \in Nat /\ r < p
        BY <1>1, <3>2, <3>6, Products
      <4>3. big = p * new /\ new \in Nat \ {0}
        BY <1>1, <3>3
      <4> DEFINE u == r * new
                 v == p * new
      <4>4. u \in Nat /\ v \in Nat /\ u + new <= v /\ big = v
        BY <4>1, <4>2, <4>3
      <4> HIDE DEF u, v
      <4>5. u \in 0 .. big - 1
        BY <4>3, <4>4
      <4> QED
        BY <4>5 DEF u
    <3>9. r # 0 <=> r * new # 0
      <4>1. r <= r * new /\ r * new \in Nat
        BY <1>1, <3>6, Products
      <4>2. r = 0 => r * new = 0
        BY <1>1
      <4> QED
        BY <3>6, <4>1, <4>2
    <3> QED
      BY <3>4, <3>6, <3>7, <3>8, <3>9
  <2> QED
    BY <2>1, <2>2
<1> HIDE DEF big, new, x, f, y
<1>5. PICK s \in 0 .. big - 1 :
        /\ x \in Nat /\ (n * new) * f = x * big + s
        /\ Leftover(n, e) <=> s # 0
  BY <1>4
<1>6. /\ x * big + s > y * big <=> x > y \/ (x = y /\ s # 0)
      /\ x * big + s = y * big <=> x = y /\ s = 0
  <2>1. x \in Nat
    BY <1>5
  <2> QED
    BY <1>1, <2>1, LeadingDigit
<1>7. /\ n * new > end <=> x * big + s > y * big
      /\ n * new = end <=> x * big + s = y * big
  <2>1. n * new \in Nat
    BY <1>1
  <2>2. (end < n * new <=> end * f < (n * new) * f) /\ (n * new = end <=> (n * new) * f = end * f)
    BY <1>1, <2>1, Products
  <2>3. end < n * new <=> n * new > end
    BY <2>1
  <2>4. end * f < (n * new) * f <=> x * big + s > y * big
    <3>1. x * big \in Nat /\ y * big \in Nat /\ s \in Nat
      BY <1>1, <1>5, Products
    <3>2. x * big + s \in Nat /\ (y * big < x * big + s <=> x * big + s > y * big)
      BY <3>1
    <3>3. end * f = y * big /\ (n * new) * f = x * big + s
      BY <1>3, <1>5
    <3> QED
      BY <3>2, <3>3, Zenon
  <2>5. n * new = end <=> x * big + s = y * big
    BY <1>3, <1>5, <2>2
  <2> QED
    BY <2>2, <2>3, <2>4, <2>5
<1>8. RoundsPast(n, e, c) <=> n * new > end \/ (n * new = end /\ c % 2 = 1)
  <2>1. (n * new > end <=> x > y \/ (x = y /\ s # 0)) /\ (n * new = end <=> x = y /\ s = 0)
    BY <1>6, <1>7, Zenon
  <2>2. Leftover(n, e) <=> s # 0
    BY <1>5
  <2> QED
    BY <1>2, <2>1, <2>2, Zenon
<1> QED
  BY <1>8 DEF new

LEMMA HalfUnitsType ==
  ASSUME NEW n \in Nat, NEW e \in Int
  PROVE  HalfUnits(n, e) \in Nat
<1>1. Unit \in Nat /\ n * Unit \in Nat /\ SmallExp10 \in Nat /\ LargeExp10 \in Nat
  BY UnitType, Sizes
<1>2. CASE e < 0
  <2> DEFINE d == IF e < -SmallExp10 THEN SmallExp10 ELSE -e
             p == 10 ^ d
  <2>1. d \in 0 .. MaxDigits
    BY <1>1, <1>2, Sizes
  <2>2. p \in Nat \ {0}
    BY <2>1, Tens
  <2>3. HalfUnits(n, e) = (n * Unit) \div p
    BY <1>2 DEF HalfUnits, Unit
  <2> HIDE DEF p
  <2> QED
    BY <1>1, <2>2, <2>3, DivMod
<1>3. CASE e >= 0
  <2> DEFINE top == 2 * Units(InfBits)
  <2>1. top \in Nat
    <3>1. InfBits \in 0 .. InfBits
      BY Magnitudes
    <3> QED
      BY <3>1, UnitsType
  <2>2. CASE e > LargeExp10 \/ n > top
    <3>1. HalfUnits(n, e) = IF n = 0 THEN 0 ELSE 2 * top
      BY <1>3, <2>2 DEF HalfUnits
    <3> QED
      BY <2>1, <3>1
  <2>3. CASE ~ (e > LargeExp10 \/ n > top)
    <3>1. HalfUnits(n, e) = (n * Unit) * 10 ^ e
      BY <1>3, <2>3 DEF HalfUnits, Unit
    <3>2. e \in 0 .. MaxDigits
      BY <1>1, <1>3, <2>3, Sizes
    <3>3. 10 ^ e \in Nat
      BY <3>2, Tens
    <3> QED
      BY <1>1, <3>1, <3>3
  <2> QED
    BY <2>2, <2>3
<1> QED
  BY <1>2, <1>3

\* What is rounded past a midpoint is rounded past those below.
LEMMA RoundsPastBelow ==
  ASSUME NEW n \in Nat, NEW e \in Int, NEW b \in 0 .. InfBits - 1, NEW c \in 0 .. InfBits - 1, c <= b,
         RoundsPast(n, e, b)
  PROVE  RoundsPast(n, e, c)
<1>1. HalfUnits(n, e) \in Nat
  BY HalfUnitsType
<1>2. CASE c < b
  <2>1. /\ b \in 0 .. InfBits /\ c \in 0 .. InfBits /\ b + 1 \in 0 .. InfBits /\ c + 1 \in 0 .. InfBits
        /\ c + 1 < b + 1
    BY <1>2, Magnitudes
  <2>2. Units(c) < Units(b) /\ Units(c + 1) < Units(b + 1)
    BY <1>2, <2>1, UnitsOrder
  <2>3. Units(c) \in Nat /\ Units(b) \in Nat /\ Units(c + 1) \in Nat /\ Units(b + 1) \in Nat
    BY <2>1, UnitsType
  <2>4. HalfUnits(n, e) >= Units(b) + Units(b + 1)
    BY <1>1, <2>3 DEF RoundsPast
  <2>5. HalfUnits(n, e) > Units(c) + Units(c + 1)
    BY <1>1, <2>2, <2>3, <2>4
  <2> QED
    BY <2>5 DEF RoundsPast
<1>3. CASE c = b
  BY <1>3
<1> QED
  BY <1>2, <1>3

\* There is one nearest magnitude.
LEMMA NearestIs ==
  ASSUME NEW n \in Nat, NEW e \in Int, NEW b \in 0 .. InfBits, IsNearest(n, e, b)
  PROVE  Nearest(n, e) = b
<1>1. ASSUME NEW x \in 0 .. InfBits, NEW y \in 0 .. InfBits, x < y, IsNearest(n, e, x), IsNearest(n, e, y)
      PROVE  FALSE
  <2>1. x \in 0 .. InfBits - 1 /\ y - 1 \in 0 .. InfBits - 1 /\ x <= y - 1 /\ x < InfBits /\ y > 0
    BY <1>1, Magnitudes
  <2>2. ~RoundsPast(n, e, x) /\ RoundsPast(n, e, y - 1)
    BY <1>1, <2>1 DEF IsNearest
  <2> QED
    BY <2>1, <2>2, RoundsPastBelow
<1>2. \A x \in 0 .. InfBits : IsNearest(n, e, x) => x = b
  <2> SUFFICES ASSUME NEW x \in 0 .. InfBits, IsNearest(n, e, x) PROVE x = b
    OBVIOUS
  <2>1. ~ (x < b) /\ ~ (b < x)
    BY <1>1
  <2> QED
    BY <2>1, Magnitudes
<1> QED
  BY <1>2 DEF Nearest

\* And there is always one.
LEMMA NearestExists ==
  ASSUME NEW n \in Nat, NEW e \in Int
  PROVE  \E b \in 0 .. InfBits : IsNearest(n, e, b)
<1> DEFINE T == {b \in 0 .. InfBits : b = InfBits \/ ~RoundsPast(n, e, b)}
<1>1. T \subseteq Nat /\ InfBits \in T
  BY Magnitudes
<1>2. PICK b \in T : \A y \in T : b <= y
  <2> HIDE DEF T
  <2> QED
    BY <1>1, LeastMember
<1>3. b \in 0 .. InfBits /\ (b < InfBits => ~RoundsPast(n, e, b))
  BY Magnitudes
<1>4. ASSUME b > 0, ~RoundsPast(n, e, b - 1)
      PROVE  FALSE
  <2>1. b - 1 \in T
    BY <1>3, <1>4, Magnitudes
  <2> QED
    BY <1>2, <1>3, <2>1
<1>5. IsNearest(n, e, b)
  BY <1>3, <1>4 DEF IsNearest
<1> QED
  BY <1>3, <1>5

\* A magnitude is the nearest just if the number is rounded past the midpoint below it and
\* not past the one above.
LEMMA NearestLies ==
  ASSUME NEW n \in Nat, NEW e \in Int, NEW b \in 1 .. InfBits - 1
  PROVE  Nearest(n, e) = b <=> ~RoundsPast(n, e, b) /\ RoundsPast(n, e, b - 1)
<1>1. b < InfBits /\ b > 0 /\ b \in 0 .. InfBits
  BY Magnitudes
<1>2. ASSUME Nearest(n, e) = b
      PROVE  ~RoundsPast(n, e, b) /\ RoundsPast(n, e, b - 1)
  <2>1. IsNearest(n, e, b)
    BY <1>2, NearestExists DEF Nearest
  <2> QED
    BY <1>1, <2>1 DEF IsNearest
<1>3. ASSUME ~RoundsPast(n, e, b), RoundsPast(n, e, b - 1)
      PROVE  Nearest(n, e) = b
  <2>1. IsNearest(n, e, b)
    BY <1>3 DEF IsNearest
  <2> QED
    BY <1>1, <2>1, NearestIs
<1> QED
  BY <1>2, <1>3

\* A number of more whole units than the format has is no nearest to anything in it.
LEMMA TooLarge ==
  ASSUME NEW n \in Nat, NEW e \in Nat, NEW c \in 0 .. InfBits - 2, n > 2 * Units(InfBits)
  PROVE  RoundsPast(n, e, c)
<1>1. InfBits \in 0 .. InfBits /\ c \in 0 .. InfBits - 1
  BY Magnitudes
<1>2. Units(InfBits) \in Nat /\ TwiceMid(c) \in Nat /\ TwiceMid(c) < 2 * Units(InfBits)
  BY <1>1, UnitsType, UnitType
<1>3. HalfUnits(n, e) = 2 * (2 * Units(InfBits))
  <2>1. e >= 0 /\ ~ (e < 0) /\ n # 0
    BY <1>2
  <2> QED
    BY <2>1 DEF HalfUnits
<1>4. HalfUnits(n, e) > TwiceMid(c)
  BY <1>2, <1>3
<1> QED
  BY <1>4 DEF RoundsPast, TwiceMid

\* What is rounded past a midpoint still is with a larger exponent.
LEMMA RoundsPastGrows ==
  ASSUME NEW n \in Nat, NEW d \in Int, NEW e \in Int, d <= e, Within(n, d), Within(n, e),
         NEW c \in 0 .. InfBits - 1, RoundsPast(n, d, c)
  PROVE  RoundsPast(n, e, c)
<1> DEFINE nf == n * Unit
           x == HalfUnits(n, d)
           z == HalfUnits(n, e)
           m == TwiceMid(c)
<1>1. nf \in Nat /\ x \in Nat /\ z \in Nat /\ m \in Nat
  BY UnitType, HalfUnitsType
<1>2. x > m \/ (x = m /\ (Leftover(n, d) \/ c % 2 = 1))
  BY DEF RoundsPast, TwiceMid
<1>3. SUFFICES z > m \/ (z = m /\ (Leftover(n, e) \/ c % 2 = 1))
  BY DEF RoundsPast, TwiceMid
<1> HIDE DEF x, z, m
<1>4. SUFFICES (Leftover(n, d) => z > x \/ (z = x /\ Leftover(n, e))) /\ z >= x
  BY <1>1, <1>2
<1>5. d >= -SmallExp10 /\ d <= LargeExp10 /\ e >= -SmallExp10 /\ e <= LargeExp10
      /\ SmallExp10 <= MaxDigits /\ LargeExp10 <= MaxDigits
      /\ SmallExp10 \in Nat /\ LargeExp10 \in Nat /\ MaxDigits \in Nat
  BY Sizes DEF Within
<1>6. CASE d >= 0
  <2>1. d \in 0 .. MaxDigits /\ e \in 0 .. MaxDigits /\ e >= 0
    BY <1>5, <1>6
  <2>2. 10 ^ d <= 10 ^ e /\ 10 ^ d \in Nat /\ 10 ^ e \in Nat
    BY <2>1, Tens, TensSum
  <2>3. x = nf * 10 ^ d /\ z = nf * 10 ^ e /\ ~Leftover(n, d)
    BY <1>6, <2>1, HalfUnitsAre DEF x, z
  <2> HIDE DEF nf
  <2>4. \A a, b, g \in Nat : a <= b => g * a <= g * b
    OBVIOUS
  <2>5. x <= z
    BY <1>1, <2>2, <2>3, <2>4
  <2> QED
    BY <1>1, <2>3, <2>5
<1>7. CASE d < 0 /\ e >= 0
  <2> DEFINE p == 10 ^ (-d)
             r == nf % p
  <2>1. -d \in 0 .. MaxDigits /\ e \in 0 .. MaxDigits
    BY <1>5, <1>7
  <2>2. p \in Nat \ {0} /\ 10 ^ e \in Nat \ {0}
    BY <2>1, Tens
  <2>3. z = nf * 10 ^ e /\ x = nf \div p /\ (Leftover(n, d) <=> r # 0)
    BY <1>7, HalfUnitsAre DEF x, z
  <2> HIDE DEF nf, p
  <2>4. r \in Nat /\ nf = p * x + r
    BY <1>1, <2>2, <2>3, DivMod
  <2> HIDE DEF r
  <2>5. nf <= z
    BY <1>1, <2>2, <2>3, Products
  <2>6. x <= p * x /\ p * x \in Nat
    BY <1>1, <2>2, Products
  <2> QED
    BY <1>1, <2>3, <2>4, <2>5, <2>6
<1>8. CASE e < 0
  <2> DEFINE p == 10 ^ (-d)
             q == 10 ^ (-e)
             r == nf % p
             s == nf % q
  <2>1. -d \in 0 .. MaxDigits /\ -e \in 0 .. MaxDigits /\ -e <= -d /\ d < 0
    BY <1>5, <1>8
  <2>2. p \in Nat \ {0} /\ q \in Nat \ {0} /\ q <= p
    BY <2>1, Tens, TensSum
  <2>3. /\ x = nf \div p /\ (Leftover(n, d) <=> r # 0)
        /\ z = nf \div q /\ (Leftover(n, e) <=> s # 0)
    BY <1>8, <2>1, HalfUnitsAre DEF x, z
  <2> HIDE DEF nf, p, q
  <2>4. r \in Nat /\ nf = p * x + r /\ s \in 0 .. q - 1 /\ s \in Nat /\ nf = q * z + s
    BY <1>1, <2>2, <2>3, DivMod
  <2> HIDE DEF r, s
  <2>5. q * x <= p * x /\ q * x \in Nat /\ p * x \in Nat /\ q * z \in Nat
    <3>1. \A a, b, g \in Nat : a <= b => a * g <= b * g /\ a * g \in Nat
      OBVIOUS
    <3> QED
      BY <1>1, <2>2, <3>1
  <2>6. z >= x
    <3>1. SUFFICES ASSUME z < x PROVE FALSE
      BY <1>1
    <3>2. z * q + q <= x * q
      BY <1>1, <2>2, <3>1, Products
    <3>3. z * q = q * z /\ x * q = q * x
      BY <1>1, <2>2
    <3>4. q * z + q <= q * x
      BY <3>2, <3>3
    <3> QED
      BY <2>2, <2>4, <2>5, <3>4
  <2>7. ASSUME Leftover(n, d), z = x
        PROVE  Leftover(n, e)
    <3>1. r # 0 /\ q * z = q * x
      BY <2>3, <2>7
    <3>2. s # 0
      BY <2>4, <2>5, <3>1
    <3> QED
      BY <2>3, <3>2
  <2> QED
    BY <1>1, <2>6, <2>7
<1> QED
  BY <1>5, <1>6, <1>7, <1>8

---------------------------------------------------------------------------
(* The search *)

LEMMA Beyond ==
  ASSUME NEW a \in Nat, NEW p \in Nat \ {0}, NEW n \in Nat
  PROVE  /\ a < n * p <=> a \div p < n
         /\ a = n * p <=> n = a \div p /\ a % p = 0
         /\ n * p < a <=> n < a \div p \/ (n = a \div p /\ a % p # 0)
         /\ a \div p \in Nat
<1> DEFINE x == a \div p
           s == a % p
<1>1. x \in Nat /\ s \in 0 .. p - 1 /\ a = p * x + s
  BY DivMod
<1> HIDE DEF x, s
<1>2. a = x * p + s /\ n * p \in Nat /\ x * p \in Nat
  BY <1>1, Products
<1>3. /\ a > n * p <=> x > n \/ (x = n /\ s # 0)
      /\ a = n * p <=> x = n /\ s = 0
  BY <1>1, <1>2, LeadingDigit
<1> DEFINE b == n * p
<1>4. b \in Nat /\ a \in Nat /\ (a > b <=> x > n \/ (x = n /\ s # 0)) /\ (a = b <=> x = n /\ s = 0)
  BY <1>2, <1>3
<1> HIDE DEF b
<1>5. /\ a < b <=> x < n
      /\ a = b <=> n = x /\ s = 0
      /\ b < a <=> n < x \/ (n = x /\ s # 0)
  BY <1>1, <1>4
<1> QED
  BY <1>1, <1>5 DEF b, x, s

\* The multiples of 10^t in the interval are those from NMin to NMax.
LEMMA MinMax ==
  ASSUME t \in 0 .. MaxDigits, low \in Nat \ {0}, high \in Nat, closed \in BOOLEAN
  PROVE  /\ NMin \in Nat \ {0} /\ NMax \in Nat
         /\ \A n \in Nat \ {0} : Inside(n * 10 ^ t) <=> NMin <= n /\ n <= NMax
         /\ \A n \in Nat \ {0} : Inside(n * 10 ^ t) => n \in 1 .. high \div 10 ^ t
<1> DEFINE p == 10 ^ t
           x == low \div p
           y == high \div p
<1>1. p \in Nat \ {0}
  BY Tens
<1> HIDE DEF p
<1>2. x \in Nat /\ y \in Nat
  BY <1>1, Beyond
<1>3. x = 0 => low % p # 0
  <2>1. low = 0 * p <=> 0 = x /\ low % p = 0
    BY <1>1, Beyond
  <2>2. low # 0 * p
    BY <1>1
  <2> QED
    BY <2>1, <2>2
<1>4. NMin = IF low % p # 0 \/ ~closed THEN x + 1 ELSE x
  <2> DEFINE m == IF low % p # 0 \/ ~closed THEN x + 1 ELSE x
  <2>1. NMin = IF m = 0 THEN 1 ELSE m
    BY DEF NMin, p
  <2> HIDE DEF x
  <2>2. m # 0
    BY <1>2, <1>3
  <2> HIDE DEF m
  <2>3. NMin = m
    BY <2>1, <2>2
  <2> QED
    BY <2>3 DEF m
<1>5. NMax = IF high % p = 0 /\ ~closed /\ y > 0 THEN y - 1 ELSE y
  BY DEF NMax, p
<1>6. ASSUME NEW n \in Nat \ {0}
      PROVE  /\ Inside(n * p) <=> NMin <= n /\ n <= NMax
             /\ Inside(n * p) => n \in 1 .. y
  <2>1. (low < n * p <=> x < n) /\ (low = n * p <=> n = x /\ low % p = 0)
    BY <1>1, Beyond
  <2>2. (high = n * p <=> n = y /\ high % p = 0) /\ (n * p < high <=> n < y \/ (n = y /\ high % p # 0))
    BY <1>1, Beyond
  <2>3. Inside(n * p) <=> /\ x < n \/ (n = x /\ low % p = 0 /\ closed)
                          /\ n < y \/ (n = y /\ (high % p # 0 \/ closed))
    BY <2>1, <2>2 DEF Inside
  <2> HIDE DEF x, y
  <2>4. NMin <= n <=> x < n \/ (n = x /\ low % p = 0 /\ closed)
    BY <1>2, <1>4
  <2>5. n <= NMax <=> n < y \/ (n = y /\ (high % p # 0 \/ closed))
    BY <1>2, <1>5
  <2>6. Inside(n * p) => n \in 1 .. y
    BY <1>2, <2>3
  <2> QED
    BY <2>3, <2>4, <2>5, <2>6
<1>7. NMin \in Nat \ {0} /\ NMax \in Nat
  <2> HIDE DEF x, y
  <2> QED
    BY <1>2, <1>3, <1>4, <1>5
<1> QED
  BY <1>6, <1>7 DEF p

LEMMA DecimalLenIs ==
  ASSUME NEW n \in Nat, n < 10 ^ MaxDigits
  PROVE  LET d == DecimalLen(n)
         IN  d \in 1 .. MaxDigits /\ n < 10 ^ d /\ (d > 1 => 10 ^ (d - 1) <= n)
<1> DEFINE T == {d \in 1 .. MaxDigits : n < 10 ^ d}
           P(d) == n < 10 ^ d /\ (d > 1 => 10 ^ (d - 1) <= n)
<1>1. T \subseteq Nat /\ MaxDigits \in T
  BY Sizes
<1>2. PICK d \in T : \A y \in T : d <= y
  <2> HIDE DEF T
  <2> QED
    BY <1>1, LeastMember
<1>3. d \in 1 .. MaxDigits /\ n < 10 ^ d
  OBVIOUS
<1>4. d > 1 => 10 ^ (d - 1) <= n
  <2> SUFFICES ASSUME d > 1, ~ (10 ^ (d - 1) <= n) PROVE FALSE
    OBVIOUS
  <2>1. d - 1 \in 1 .. MaxDigits /\ d - 1 \in 0 .. MaxDigits
    BY <1>3, Sizes
  <2> DEFINE w == 10 ^ (d - 1)
  <2>2. w \in Nat
    BY <2>1, Tens
  <2>3. n < w
    <3> HIDE DEF w
    <3>1. ~ (w <= n)
      BY DEF w
    <3> QED
      BY <2>2, <3>1
  <2>4. d - 1 \in T
    BY <2>1, <2>3
  <2>5. d <= d - 1
    BY <1>2, <2>4
  <2> QED
    BY <1>3, <2>5
<1>5. \E e \in 1 .. MaxDigits : P(e)
  BY <1>3, <1>4
<1>6. DecimalLen(n) = CHOOSE e \in 1 .. MaxDigits : P(e)
  BY DEF DecimalLen
<1> HIDE DEF P
<1>7. DecimalLen(n) \in 1 .. MaxDigits /\ P(DecimalLen(n))
  BY <1>5, <1>6
<1> QED
  BY <1>7 DEF P

LEMMA NothingAbove ==
  ASSUME NEW h \in Nat, NEW d \in 1 .. MaxDigits, h < 10 ^ d, NEW j \in d + 1 .. MaxDigits
  PROVE  h \div 10 ^ j = 0
<1>1. d \in 0 .. MaxDigits /\ j \in 0 .. MaxDigits /\ d <= j
  BY Sizes
<1> DEFINE p == 10 ^ j
           q == 10 ^ d
<1>2. q <= p /\ p \in Nat \ {0} /\ q \in Nat /\ h < q
  BY <1>1, Tens, TensSum
<1> HIDE DEF p, q
<1>3. h \in 0 .. p - 1 /\ h = p * 0 + h
  BY <1>2
<1>4. h \div p = 0
  BY <1>2, <1>3, DivModIs
<1> QED
  BY <1>4 DEF p

\* What the search has to work with.
LEMMA Working ==
  ASSUME IntervalInv, Searched
  PROVE  /\ bits \in 1 .. InfBits - 2 /\ closed = (bits % 2 = 0) /\ closed \in BOOLEAN
         /\ scale \in 1 .. UnitExp + 1 /\ t \in 0 .. MaxDigits
         /\ low \in Nat \ {0} /\ low * Unit = TwiceMid(bits - 1) * 10 ^ scale
         /\ high \in Nat /\ high * Unit = TwiceMid(bits) * 10 ^ scale /\ high < 10 ^ MaxDigits
         /\ \E v \in Nat \ {0} : low < v /\ v < high
         /\ \A j \in t + 1 .. MaxDigits : \A n \in 1 .. high \div 10 ^ j : ~Inside(n * 10 ^ j)
<1>1. /\ bits \in 1 .. InfBits - 2 /\ closed = (bits % 2 = 0) /\ scale = ScaleOf(bits)
      /\ low = Scaled(HalfBelow(bits), scale) /\ high = Scaled(HalfAbove(bits), scale)
      /\ t \in 0 .. MaxDigits
      /\ \A j \in t + 1 .. MaxDigits : \A n \in 1 .. high \div 10 ^ j : ~Inside(n * 10 ^ j)
  BY DEF IntervalInv
<1>2. /\ scale \in 1 .. UnitExp + 1 /\ low \in Nat /\ high \in Nat
      /\ low * Unit = TwiceMid(bits - 1) * 10 ^ scale
      /\ high * Unit = TwiceMid(bits) * 10 ^ scale
  BY <1>1, EndsWorth
<1>3. low \in Nat \ {0} /\ \E v \in Nat \ {0} : low < v /\ v < high
  BY <1>1, Enclose
<1>4. high < 10 ^ MaxDigits
  BY <1>1, SizeAssumption
<1> QED
  BY <1>1, <1>2, <1>3, <1>4

\* 1 has a multiple in the interval, so the search is not past it.
LEMMA CoarseGoesOn ==
  ASSUME IntervalInv, Searched, NMin > NMax
  PROVE  t # 0
<1>1. /\ closed \in BOOLEAN /\ t \in 0 .. MaxDigits /\ low \in Nat \ {0} /\ high \in Nat
      /\ \E v \in Nat \ {0} : low < v /\ v < high
  BY Working
<1>2. PICK v \in Nat \ {0} : low < v /\ v < high
  BY <1>1
<1>3. SUFFICES ASSUME t = 0 PROVE FALSE
  OBVIOUS
<1>4. Inside(v)
  BY <1>2 DEF Inside
<1>5. v * 10 ^ t = v
  <2> DEFINE w == 10 ^ t
  <2>1. w = 1
    BY <1>1, <1>3, Tens
  <2> HIDE DEF w
  <2>2. v * w = v
    BY <2>1
  <2> QED
    BY <2>2 DEF w
<1>6. NMin <= v /\ v <= NMax /\ NMin \in Nat /\ NMax \in Nat
  BY <1>1, <1>4, <1>5, MinMax
<1> QED
  BY <1>6

LEMMA Initially ==
  ASSUME Init
  PROVE  IInv
BY DEF Init, IInv, IntervalInv, AnswerInv, Searched, HasDigits

LEMMA IntervalKeeps ==
  ASSUME IInv, Interval
  PROVE  IInv'
<1> DEFINE h == Scaled(HalfAbove(bits), ScaleOf(bits))
<1>1. bits \in 1 .. InfBits - 2 /\ pc = "start"
  <2>1. bits \in 0 .. InfBits - 1 \/ bits = InfBits \/ bits = NanBits
    BY DEF IInv, FiniteBits
  <2> QED
    BY <2>1, Magnitudes DEF Interval, Literals
<1>2. h \in Nat /\ h < 10 ^ MaxDigits
  BY <1>1, EndsWorth, SizeAssumption
<1>3. /\ scale' = ScaleOf(bits) /\ low' = Scaled(HalfBelow(bits), scale') /\ high' = h
      /\ t' = DecimalLen(h) /\ closed' = (bits % 2 = 0) /\ pc' = "search" /\ bits' = bits
  BY DEF Interval
<1> HIDE DEF h
<1>4. t' \in 1 .. MaxDigits /\ h < 10 ^ t'
  BY <1>2, <1>3, DecimalLenIs
<1>5. ASSUME NEW j \in t' + 1 .. MaxDigits, NEW n \in 1 .. h \div 10 ^ j
      PROVE  FALSE
  <2>1. h \div 10 ^ j = 0
    BY <1>2, <1>4, NothingAbove
  <2> QED
    BY <2>1
<1>6. IntervalInv'
  <2>1. \A j \in t' + 1 .. MaxDigits : \A n \in 1 .. high' \div 10 ^ j : (~Inside(n * 10 ^ j))'
    BY <1>3, <1>5
  <2>2. high' = Scaled(HalfAbove(bits'), scale') /\ bits' \in 1 .. InfBits - 2 /\ t' \in 0 .. MaxDigits
    BY <1>1, <1>3, <1>4 DEF h
  <2> QED
    BY <1>3, <2>1, <2>2 DEF IntervalInv
<1>7. AnswerInv'
  BY <1>3 DEF AnswerInv, HasDigits
<1> QED
  BY <1>3, <1>6, <1>7 DEF IInv

LEMMA CoarseKeeps ==
  ASSUME IInv, Coarse
  PROVE  IInv'
<1>1. Searched /\ IntervalInv /\ NMin > NMax
  BY DEF IInv, Coarse, Searched
<1>2. t # 0 /\ t' = t - 1 /\ UNCHANGED <<bits, pc, low, high, scale, closed, sig, k>> /\ pc = "search"
  BY <1>1, CoarseGoesOn DEF Coarse, interval
<1>3. /\ closed \in BOOLEAN /\ t \in 0 .. MaxDigits /\ low \in Nat \ {0} /\ high \in Nat
      /\ \A j \in t + 1 .. MaxDigits : \A n \in 1 .. high \div 10 ^ j : ~Inside(n * 10 ^ j)
  BY <1>1, Working
<1>4. \A n \in 1 .. high \div 10 ^ t : ~Inside(n * 10 ^ t)
  <2> SUFFICES ASSUME NEW n \in 1 .. high \div 10 ^ t, Inside(n * 10 ^ t) PROVE FALSE
    OBVIOUS
  <2>1. n \in Nat \ {0}
    <3> DEFINE p == 10 ^ t
    <3>1. p \in Nat \ {0} /\ n \in 1 .. high \div p
      BY <1>3, Tens
    <3> HIDE DEF p
    <3>2. high \div p \in Nat
      BY <1>3, <3>1, Beyond
    <3> QED
      BY <3>1, <3>2
  <2>2. NMin <= n /\ n <= NMax /\ NMin \in Nat /\ NMax \in Nat
    BY <1>3, <2>1, MinMax
  <2> QED
    BY <1>1, <2>1, <2>2
<1>5. \A j \in t' + 1 .. MaxDigits : \A n \in 1 .. high' \div 10 ^ j : (~Inside(n * 10 ^ j))'
  <2> SUFFICES ASSUME NEW j \in t' + 1 .. MaxDigits, NEW n \in 1 .. high' \div 10 ^ j
               PROVE  (~Inside(n * 10 ^ j))'
    OBVIOUS
  <2>1. j = t \/ j \in t + 1 .. MaxDigits
    BY <1>2, <1>3, Sizes
  <2>2. ~Inside(n * 10 ^ j)
    BY <1>2, <1>3, <1>4, <2>1
  <2> QED
    BY <1>2, <2>2 DEF Inside
<1>6. t' \in 0 .. MaxDigits
  BY <1>2, <1>3, Sizes
<1>7. IntervalInv'
  <2>1. /\ bits' \in 1 .. InfBits - 2 /\ closed' = (bits' % 2 = 0) /\ scale' = ScaleOf(bits')
        /\ low' = Scaled(HalfBelow(bits'), scale') /\ high' = Scaled(HalfAbove(bits'), scale')
    BY <1>1, <1>2 DEF IntervalInv
  <2> QED
    BY <1>5, <1>6, <2>1 DEF IntervalInv
<1>8. AnswerInv' /\ bits' = bits /\ pc' = pc
  BY <1>2 DEF AnswerInv, HasDigits
<1> QED
  BY <1>7, <1>8 DEF IInv

LEMMA NextKeeps ==
  ASSUME IInv, [Next]_vars
  PROVE  IInv'
<1>1. CASE Literal
  BY <1>1 DEF IInv, Literal, IntervalInv, AnswerInv, Searched, HasDigits, interval
<1>2. CASE Largest
  <2>1. ~Searched' /\ bits' = bits /\ pc' = "done"
    BY <1>2 DEF Largest, Searched, HasDigits
  <2>2. bits' = InfBits - 1 /\ sig' = MaxSig /\ k' = MaxSigExp
    BY <1>2 DEF Largest
  <2> QED
    BY <2>1, <2>2 DEF IInv, IntervalInv, AnswerInv
<1>3. CASE Interval
  BY <1>3, IntervalKeeps
<1>4. CASE Coarse
  BY <1>4, CoarseKeeps
<1>5. CASE Found
  <2>1. Searched /\ IntervalInv /\ UNCHANGED <<bits, low, high, scale, closed, t>>
        /\ pc' = "done" /\ NMin <= NMax /\ sig' = NMin /\ k' = t - scale
    BY <1>5 DEF IInv, Found, Searched, interval
  <2>2. bits \in 1 .. InfBits - 2 /\ bits # InfBits - 1
    BY <2>1, Magnitudes DEF IntervalInv
  <2>3. IntervalInv'
    BY <2>1 DEF IntervalInv, Inside
  <2>4. NMin' = NMin /\ NMax' = NMax
    BY <2>1 DEF NMin, NMax
  <2>5. AnswerInv'
    BY <2>1, <2>2, <2>4 DEF AnswerInv
  <2> QED
    BY <2>1, <2>3, <2>5 DEF IInv
<1>6. CASE UNCHANGED vars
  <2>1. UNCHANGED <<bits, pc, low, high, scale, closed, t, sig, k>>
    BY <1>6 DEF vars, interval
  <2>2. (Searched' <=> Searched) /\ (HasDigits' <=> HasDigits) /\ NMin' = NMin /\ NMax' = NMax
    BY <2>1 DEF Searched, HasDigits, NMin, NMax
  <2>3. IntervalInv'
    BY <2>1, <2>2 DEF IInv, IntervalInv, Inside
  <2>4. AnswerInv'
    BY <2>1, <2>2 DEF IInv, AnswerInv
  <2> QED
    BY <2>1, <2>3, <2>4 DEF IInv
<1> QED
  BY <1>1, <1>2, <1>3, <1>4, <1>5, <1>6 DEF Next

(***************************************************************************)
(* The interval is the one half way to both neighbours of the number, its  *)
(* ends multiplied by the power of ten that makes them whole; no power of  *)
(* ten above t, the last one tried by ryu_choose_shortest_digits, has a    *)
(* multiple in it; the answer is the least multiple of 10^t that lies in   *)
(* it.  The search never gets past 10^0.                                   *)
(***************************************************************************)
THEOREM Invariance == TSpec => []IInv
<1>1. TInit => IInv
  BY Initially DEF TInit
<1>2. IInv /\ [TNext]_<<vars, out>> => IInv'
  <2> SUFFICES ASSUME IInv, [TNext]_<<vars, out>> PROVE IInv'
    OBVIOUS
  <2>1. [Next]_vars
    BY DEF TNext, Search, WriteOut
  <2> QED
    BY <2>1, NextKeeps
<1> QED
  BY <1>1, <1>2, PTL DEF TSpec

---------------------------------------------------------------------------
(* What the answer is worth *)

\* Nearest to the number is what lies in the interval.
LEMMA InsideIsNearest ==
  ASSUME IntervalInv, Searched, NEW n \in Nat, NEW e \in Int, Within(n, e), e + scale \in 0 .. MaxDigits
  PROVE  /\ RoundsPast(n, e, bits - 1) <=> low < n * 10 ^ (e + scale) \/ (low = n * 10 ^ (e + scale) /\ closed)
         /\ Nearest(n, e) = bits <=> Inside(n * 10 ^ (e + scale))
<1> DEFINE w == n * 10 ^ (e + scale)
<1>1. /\ bits \in 1 .. InfBits - 2 /\ closed = (bits % 2 = 0)
      /\ scale \in 1 .. UnitExp + 1
      /\ low \in Nat /\ low * Unit = TwiceMid(bits - 1) * 10 ^ scale
      /\ high \in Nat /\ high * Unit = TwiceMid(bits) * 10 ^ scale
  BY Working
<1>2. /\ bits \in 0 .. InfBits - 1 /\ bits - 1 \in 0 .. InfBits - 1 /\ bits \in 1 .. InfBits - 1 /\ bits \in Nat
      /\ scale \in 0 .. UnitExp + 1
  BY <1>1, Magnitudes
<1>3. w \in Nat
  <2> DEFINE p == 10 ^ (e + scale)
  <2>1. p \in Nat
    BY Tens
  <2> HIDE DEF p
  <2>2. n * p \in Nat
    BY <2>1
  <2> QED
    BY <2>2 DEF p
<1>4. RoundsPast(n, e, bits) <=> w > high \/ (w = high /\ bits % 2 = 1)
  BY <1>1, <1>2, Compare
<1>5. RoundsPast(n, e, bits - 1) <=> w > low \/ (w = low /\ (bits - 1) % 2 = 1)
  BY <1>1, <1>2, Compare
<1> HIDE DEF w
<1>6. ((bits - 1) % 2 = 1 <=> bits % 2 = 0) /\ (bits % 2 = 1 <=> ~ (bits % 2 = 0))
  BY <1>2
<1>7. RoundsPast(n, e, bits - 1) <=> low < w \/ (low = w /\ closed)
  <2>1. RoundsPast(n, e, bits - 1) <=> w > low \/ (w = low /\ bits % 2 = 0)
    BY <1>5, <1>6, Zenon
  <2>2. w > low <=> low < w
    BY <1>1, <1>3
  <2> QED
    BY <1>1, <2>1, <2>2, Zenon
<1>8. ~RoundsPast(n, e, bits) <=> w < high \/ (w = high /\ closed)
  <2>1. RoundsPast(n, e, bits) <=> w > high \/ (w = high /\ ~ (bits % 2 = 0))
    BY <1>4, <1>6, Zenon
  <2>2. w > high <=> ~ (w < high) /\ w # high
    BY <1>1, <1>3
  <2> QED
    BY <1>1, <2>1, <2>2, Zenon
<1>9. Nearest(n, e) = bits <=> Inside(w)
  <2>1. Nearest(n, e) = bits <=> ~RoundsPast(n, e, bits) /\ RoundsPast(n, e, bits - 1)
    BY <1>2, NearestLies
  <2> QED
    BY <1>7, <1>8, <2>1, Zenon DEF Inside
<1> QED
  BY <1>7, <1>9 DEF w

\* A decimal in the interval is not past the powers of ten told apart.
LEMMA InsideFits ==
  ASSUME IntervalInv, Searched, NEW n \in Nat \ {0}, NEW j \in 0 .. MaxDigits, n * 10 ^ j <= high
  PROVE  Within(n, j - scale) /\ n < 10 ^ MaxDigits
<1> DEFINE e == j - scale
           p == 10 ^ j
           q == 10 ^ scale
           m == TwiceMid(bits)
           top == 2 * Units(InfBits)
           f == Unit
<1>1. /\ bits \in 1 .. InfBits - 2 /\ scale \in 1 .. UnitExp + 1
      /\ high \in Nat /\ high * Unit = TwiceMid(bits) * 10 ^ scale /\ high < 10 ^ MaxDigits
  BY Working
<1>2. /\ scale \in 0 .. MaxDigits /\ e \in Int /\ j = e + scale /\ e >= -SmallExp10
      /\ e >= LargeExp10 + 1 => scale + (LargeExp10 + 1) \in 0 .. MaxDigits /\ scale + (LargeExp10 + 1) <= j
      /\ LargeExp10 + 1 \in 0 .. MaxDigits /\ LargeExp10 \in Nat
      /\ e >= 0 => scale <= j
  BY <1>1, Sizes
<1>3. p \in Nat \ {0} /\ q \in Nat \ {0} /\ m \in Nat /\ f \in Nat \ {0} /\ m < top /\ top \in Nat
  <2>1. bits \in 0 .. InfBits - 1 /\ bits \in 0 .. InfBits - 2 /\ InfBits \in 0 .. InfBits
    BY <1>1, Magnitudes
  <2>2. Units(InfBits) \in Nat
    BY <2>1, UnitsType
  <2> QED
    BY <1>2, <2>1, <2>2, Tens, UnitType
<1>4. n * p <= high /\ high * f = m * q
  BY <1>1
<1>5. e >= 0 => q <= p
  BY <1>2, TensSum
<1>6. e >= LargeExp10 + 1 =>
        /\ 10 ^ (scale + (LargeExp10 + 1)) = q * 10 ^ (LargeExp10 + 1)
        /\ 10 ^ (scale + (LargeExp10 + 1)) <= p
  BY <1>2, TensSum
<1>7. top <= f * 10 ^ (LargeExp10 + 1) /\ 10 ^ (LargeExp10 + 1) \in Nat \ {0}
  BY <1>2, Tens, ShortestAssumption DEF Unit
<1> DEFINE g == 10 ^ (LargeExp10 + 1)
           h == 10 ^ (scale + (LargeExp10 + 1))
<1>8. top <= f * g /\ g \in Nat \ {0} /\ (e >= LargeExp10 + 1 => h = q * g /\ h <= p)
  BY <1>6, <1>7
<1> HIDE DEF e, p, q, m, top, f, g, h
<1>9. n \in Nat /\ n # 0 /\ n <= n * p /\ p <= n * p /\ n * p \in Nat /\ n <= high
  BY <1>1, <1>3, <1>4, Products
<1>10. n * p * f <= m * q /\ n * p <= n * p * f /\ n * p * f \in Nat /\ m * q \in Nat
  <2>1. n * p * f <= high * f /\ n * p <= n * p * f /\ n * p * f \in Nat
    BY <1>1, <1>3, <1>4, <1>9, Products
  <2> QED
    BY <1>3, <1>4, <2>1
<1>11. ASSUME e >= 0
       PROVE  n <= top
  <2>1. n * q <= n * p /\ n * q \in Nat
    <3>1. \A a, b, c \in Nat : a <= b => c * a <= c * b /\ c * a \in Nat
      OBVIOUS
    <3> QED
      BY <1>3, <1>5, <1>11, <3>1
  <2>2. n * q <= m * q
    BY <1>9, <1>10, <2>1
  <2>3. n <= m
    BY <1>3, <2>2, Products
  <2> QED
    BY <1>3, <2>3
<1>12. ASSUME e >= LargeExp10 + 1
       PROVE  FALSE
  <2>1. h * f <= p * f /\ p * f <= n * p * f /\ h * f \in Nat /\ p * f \in Nat
    <3>1. h \in Nat
      BY <1>3, <1>8, <1>12
    <3> QED
      BY <1>3, <1>8, <1>9, <1>12, <3>1, Products
  <2>2. h * f = (f * g) * q
    <3>1. \A a, b, c \in Nat : (a * b) * c = (c * b) * a
      OBVIOUS
    <3> QED
      BY <1>3, <1>8, <1>12, <3>1
  <2>3. m * q < top * q /\ top * q <= (f * g) * q /\ top * q \in Nat
    <3>1. f * g \in Nat
      BY <1>3, <1>8
    <3> QED
      BY <1>3, <1>8, <3>1, Products
  <2> QED
    BY <1>10, <2>1, <2>2, <2>3
<1>13. e <= LargeExp10
  BY <1>2, <1>12 DEF e
<1>14. Within(n, e)
  BY <1>2, <1>11, <1>13 DEF Within, top
<1>15. n < 10 ^ MaxDigits
  <2> DEFINE z == 10 ^ MaxDigits
  <2>1. z \in Nat /\ high < z
    <3>1. MaxDigits \in 0 .. MaxDigits
      BY Sizes
    <3> QED
      BY <1>1, <3>1, Tens
  <2> HIDE DEF z
  <2>2. n < z
    BY <1>1, <1>9, <2>1
  <2> QED
    BY <2>2 DEF z
<1> QED
  BY <1>14, <1>15 DEF e

LEMMA Answered ==
  ASSUME IInv, HasDigits, bits # InfBits - 1
  PROVE  /\ IntervalInv /\ Searched /\ sig \in Nat \ {0} /\ sig = NMin /\ sig < 10 ^ MaxDigits
         /\ k \in Int /\ k + scale = t /\ Within(sig, k)
         /\ Inside(sig * 10 ^ t) /\ sig * 10 ^ t <= high
<1>1. IntervalInv /\ Searched /\ NMin <= NMax /\ sig = NMin /\ k = t - scale
  BY DEF IInv, AnswerInv, Searched
<1>2. /\ closed \in BOOLEAN /\ scale \in 1 .. UnitExp + 1 /\ t \in 0 .. MaxDigits
      /\ low \in Nat \ {0} /\ high \in Nat
  BY <1>1, Working
<1>3. sig \in Nat \ {0} /\ Inside(sig * 10 ^ t)
  <2>1. NMin \in Nat \ {0} /\ \A n \in Nat \ {0} : Inside(n * 10 ^ t) <=> NMin <= n /\ n <= NMax
    BY <1>2, MinMax
  <2>2. NMin <= NMin
    BY <2>1
  <2> QED
    BY <1>1, <2>1, <2>2
<1>4. sig * 10 ^ t <= high
  <2> DEFINE p == 10 ^ t
             w == sig * p
  <2>1. p \in Nat /\ (w < high \/ w = high)
    BY <1>2, <1>3, Tens DEF Inside
  <2> HIDE DEF p
  <2>2. w \in Nat
    BY <1>3, <2>1
  <2> HIDE DEF w
  <2>3. w <= high
    BY <1>2, <2>1, <2>2
  <2> QED
    BY <2>3 DEF w, p
<1>5. k \in Int /\ k + scale = t
  BY <1>1, <1>2, Sizes
<1>6. Within(sig, t - scale) /\ sig < 10 ^ MaxDigits
  BY <1>1, <1>2, <1>3, <1>4, InsideFits
<1> QED
  BY <1>1, <1>3, <1>4, <1>5, <1>6

\* A decimal with fewer digits is smaller.
LEMMA FewerDigits ==
  ASSUME NEW s \in Nat, s < 10 ^ MaxDigits, NEW n \in 1 .. 10 ^ (DecimalLen(s) - 1) - 1
  PROVE  n \in Nat \ {0} /\ n < s
<1> DEFINE d == DecimalLen(s)
           p == 10 ^ (d - 1)
<1>1. d \in 1 .. MaxDigits /\ (d > 1 => p <= s)
  BY DecimalLenIs
<1> HIDE DEF d
<1>2. d - 1 \in 0 .. MaxDigits
  BY <1>1, Sizes
<1>3. p \in Nat \ {0} /\ (d - 1 = 0 => p = 1)
  BY <1>2, Tens
<1>4. n \in 1 .. p - 1
  BY DEF d
<1> HIDE DEF p
<1>5. p # 1
  BY <1>3, <1>4
<1>6. d > 1
  BY <1>1, <1>3, <1>5
<1> QED
  BY <1>1, <1>3, <1>4, <1>6

\* A decimal nearest to the number is within the powers told apart.
LEMMA NearestFits ==
  ASSUME IntervalInv, Searched, NEW n \in Nat \ {0}, NEW e \in -SmallExp10 .. LargeExp10,
         Nearest(n, e) = bits
  PROVE  Within(n, e) /\ e + scale <= MaxDigits
<1> DEFINE q == 10 ^ scale
           f == Unit
           m == TwiceMid(bits)
           r == MaxDigits - scale
           z == 10 ^ MaxDigits
<1>1. /\ bits \in 1 .. InfBits - 2 /\ scale \in 1 .. UnitExp + 1
      /\ high \in Nat /\ high * f = m * q /\ high < z
  BY Working
<1>2. /\ bits \in 0 .. InfBits - 1 /\ bits \in 0 .. InfBits - 2 /\ bits \in 1 .. InfBits - 1
      /\ e \in Int /\ scale \in 0 .. MaxDigits /\ r \in 0 .. MaxDigits /\ r + scale = MaxDigits
      /\ r + scale <= MaxDigits /\ MaxDigits \in 0 .. MaxDigits /\ MaxDigits \in Nat
      /\ e < 0 => e + scale <= MaxDigits
      /\ e >= 0 => e \in 0 .. MaxDigits
  BY <1>1, Magnitudes, Sizes
<1>3. ~RoundsPast(n, e, bits)
  BY <1>2, NearestLies
<1>4. Within(n, e)
  <2>1. e >= 0 => ~ (n > 2 * Units(InfBits))
    BY <1>2, <1>3, TooLarge
  <2>2. Units(InfBits) \in Nat
    <3>1. InfBits \in 0 .. InfBits
      BY Magnitudes
    <3> QED
      BY <3>1, UnitsType
  <2>3. e >= 0 => n <= 2 * Units(InfBits)
    BY <2>1, <2>2
  <2> QED
    BY <2>3 DEF Within
<1>5. ASSUME e >= 0, e > r
      PROVE  FALSE
  <2> DEFINE p == 10 ^ e
             w == 10 ^ r
  <2>1. p \in Nat /\ w \in Nat /\ w <= p /\ q \in Nat \ {0} /\ f \in Nat \ {0} /\ m \in Nat /\ z \in Nat
    <3>1. e \in 0 .. MaxDigits /\ r <= e
      BY <1>2, <1>5
    <3> QED
      BY <1>2, <3>1, Tens, TensSum, UnitType
  <2>2. z = w * q
    <3>1. 10 ^ (r + scale) = w * q
      BY <1>2, TensSum
    <3> QED
      BY <1>2, <3>1, Zenon
  <2>3. n * f * p <= m
    <3>1. HalfUnits(n, e) = n * f * p
      BY <1>2, <1>4, <1>5, HalfUnitsAre
    <3>2. HalfUnits(n, e) \in Nat /\ ~ (HalfUnits(n, e) > m)
      BY <1>2, <1>3, HalfUnitsType DEF RoundsPast, TwiceMid
    <3> HIDE DEF p, f, m
    <3>3. HalfUnits(n, e) <= m
      BY <2>1, <3>2
    <3> QED
      BY <3>1, <3>3
  <2> HIDE DEF p, w, q, f, m, z
  <2>4. high * f < z * f /\ z * f \in Nat
    BY <1>1, <2>1, Products
  <2>5. z * f = f * w * q
    BY <2>1, <2>2
  <2>6. f * w <= n * f * p /\ f * w \in Nat
    <3>1. f * w <= f * p /\ f * w \in Nat /\ f * p \in Nat
      <4>1. \A a, b, c \in Nat : a <= b => c * a <= c * b /\ c * a \in Nat /\ c * b \in Nat
        OBVIOUS
      <4> QED
        BY <2>1, <4>1
    <3>2. f * p <= (f * p) * n /\ (f * p) * n \in Nat
      BY <3>1, Products
    <3>3. (f * p) * n = n * f * p
      BY <2>1
    <3> QED
      BY <3>1, <3>2, <3>3
  <2>7. f * w <= m
    BY <2>1, <2>3, <2>6
  <2>8. f * w * q <= m * q
    BY <2>1, <2>6, <2>7, Products
  <2>9. m * q \in Nat
    BY <2>1
  <2> QED
    BY <1>1, <2>4, <2>5, <2>8, <2>9
<1>6. e + scale <= MaxDigits
  BY <1>2, <1>5
<1> QED
  BY <1>4, <1>6

LEMMA NoShorterAnswer ==
  ASSUME IInv, HasDigits, bits # InfBits - 1,
         NEW n \in 1 .. 10 ^ (DecimalLen(sig) - 1) - 1, NEW e \in -SmallExp10 .. LargeExp10,
         Nearest(n, e) = bits
  PROVE  FALSE
<1>1. /\ IntervalInv /\ Searched /\ sig \in Nat \ {0} /\ sig = NMin /\ sig < 10 ^ MaxDigits
      /\ k \in Int /\ k + scale = t /\ Within(sig, k) /\ sig * 10 ^ t <= high
  BY Answered
<1>2. /\ closed \in BOOLEAN /\ scale \in 1 .. UnitExp + 1 /\ t \in 0 .. MaxDigits
      /\ low \in Nat \ {0} /\ high \in Nat /\ bits \in 1 .. InfBits - 2
      /\ \A j \in t + 1 .. MaxDigits : \A m \in 1 .. high \div 10 ^ j : ~Inside(m * 10 ^ j)
  BY <1>1, Working
<1>3. n \in Nat \ {0} /\ n < sig
  BY <1>1, FewerDigits
<1>4. Within(n, e) /\ e + scale <= MaxDigits /\ e \in Int
  BY <1>1, <1>3, NearestFits, Sizes
<1>5. CASE e <= k
  <2>1. Within(n, k)
    <3>1. Units(InfBits) \in Nat
      <4>1. InfBits \in 0 .. InfBits
        BY Magnitudes
      <4> QED
        BY <4>1, UnitsType
    <3> QED
      BY <1>1, <1>3, <3>1 DEF Within
  <2>2. RoundsPast(n, k, bits - 1)
    <3>1. bits \in 1 .. InfBits - 1 /\ bits - 1 \in 0 .. InfBits - 1
      BY <1>2, Magnitudes
    <3>2. RoundsPast(n, e, bits - 1)
      BY <1>3, <1>4, <3>1, NearestLies
    <3> QED
      BY <1>1, <1>3, <1>4, <1>5, <2>1, <3>1, <3>2, RoundsPastGrows
  <2>3. low < n * 10 ^ (k + scale) \/ (low = n * 10 ^ (k + scale) /\ closed)
    BY <1>1, <1>2, <1>3, <2>1, <2>2, InsideIsNearest
  <2>4. low < n * 10 ^ t \/ (low = n * 10 ^ t /\ closed)
    BY <1>1, <2>3, Zenon
  <2>5. n * 10 ^ t < high
    <3> DEFINE p == 10 ^ t
    <3>1. p \in Nat \ {0} /\ sig * p <= high
      BY <1>1, <1>2, Tens
    <3> HIDE DEF p
    <3>2. n * p < sig * p /\ n * p \in Nat /\ sig * p \in Nat
      BY <1>1, <1>3, <3>1, Products
    <3>3. n * p < high
      BY <1>2, <3>1, <3>2
    <3> QED
      BY <3>3 DEF p
  <2>6. Inside(n * 10 ^ t)
    BY <2>4, <2>5 DEF Inside
  <2>7. NMin <= n
    BY <1>2, <1>3, <2>6, MinMax
  <2> QED
    BY <1>1, <1>3, <2>7
<1>6. CASE e > k
  <2> DEFINE j == e + scale
             p == 10 ^ j
  <2>1. j \in t + 1 .. MaxDigits /\ j \in 0 .. MaxDigits
    BY <1>1, <1>2, <1>4, <1>6, Sizes
  <2>2. Inside(n * p)
    BY <1>1, <1>3, <1>4, <2>1, InsideIsNearest
  <2>3. n \in 1 .. high \div p
    <3>1. p \in Nat \ {0}
      BY <2>1, Tens
    <3>2. n * p < high \/ high = n * p
      BY <2>2 DEF Inside
    <3> HIDE DEF p
    <3>3. n <= high \div p /\ high \div p \in Nat
      BY <1>2, <1>3, <3>1, <3>2, Beyond
    <3> QED
      BY <1>3, <3>3
  <2> QED
    BY <1>2, <2>1, <2>2, <2>3
<1> QED
  BY <1>1, <1>4, <1>5, <1>6

(***************************************************************************)
(* What ryu64_to_shortest finds for a finite number other than 0 is sig *  *)
(* 10^k, and the correctly rounding reader takes it for the number again:  *)
(* the interval of ryu_decimal_interval_from_bits holds exactly the        *)
(* decimals that read back, its ends included for an even significand.     *)
(***************************************************************************)
THEOREM ReadsBackAlways == TSpec => []ReadsBack
<1>1. ASSUME IInv
      PROVE  ReadsBack
  <2> SUFFICES ASSUME HasDigits PROVE Nearest(sig, k) = bits
    BY DEF ReadsBack
  <2>1. CASE bits = InfBits - 1
    BY <1>1, <2>1, LargestAssumption DEF IInv, AnswerInv
  <2>2. CASE bits # InfBits - 1
    <3>1. /\ IntervalInv /\ Searched /\ sig \in Nat \ {0} /\ k \in Int /\ k + scale = t /\ Within(sig, k)
          /\ Inside(sig * 10 ^ t)
      BY <1>1, <2>2, Answered
    <3>2. k + scale \in 0 .. MaxDigits
      BY <3>1, Working
    <3>3. Nearest(sig, k) = bits <=> Inside(sig * 10 ^ (k + scale))
      BY <3>1, <3>2, InsideIsNearest
    <3> QED
      BY <3>1, <3>3, Zenon
  <2> QED
    BY <2>1, <2>2
<1> QED
  BY <1>1, Invariance, PTL

(***************************************************************************)
(* And no decimal with fewer digits does, whatever its exponent: with a    *)
(* smaller exponent it falls short of the interval, and one in the         *)
(* interval with a larger exponent ryu_choose_shortest_digits would have   *)
(* met before, on its way from the coarsest power of ten.                  *)
(***************************************************************************)
THEOREM IsShortestAlways == TSpec => []IsShortest
<1>1. ASSUME IInv
      PROVE  IsShortest
  <2> SUFFICES ASSUME HasDigits PROVE NoneShorter(sig, bits)
    BY DEF IsShortest
  <2>1. CASE bits = InfBits - 1
    BY <1>1, <2>1, LargestAssumption DEF IInv, AnswerInv
  <2>2. CASE bits # InfBits - 1
    BY <1>1, <2>2, NoShorterAnswer DEF NoneShorter
  <2> QED
    BY <2>1, <2>2
<1> QED
  BY <1>1, Invariance, PTL

---------------------------------------------------------------------------
(* The digits have room *)

\* Neighbouring magnitudes are multiples of the same unit, by numbers of Prec bits.
Neighbours(x, y, m, u) == u \in Nat \ {0} /\ m \in 1 .. Hidden + Hidden /\ y = m * u /\ x = (m - 1) * u

LEMMA UnitsStep ==
  ASSUME NEW b \in 0 .. InfBits - 1
  PROVE  \E m, u : Neighbours(Units(b), Units(b + 1), m, u)
<1> DEFINE p == b \div Hidden
           r == b % Hidden
<1>1. /\ p \in 0 .. EMax + Bias /\ p \in Nat /\ r \in 0 .. Hidden - 1 /\ r \in Nat /\ b = Hidden * p + r
      /\ Hidden \in Nat \ {0} /\ Hidden * p \in Nat
  <2>1. b \in 0 .. InfBits /\ b < InfBits
    BY Magnitudes
  <2>2. p \in 0 .. EMax + Bias /\ r \in 0 .. Hidden - 1 /\ b = Hidden * p + r
    BY <2>1, BitParts
  <2> HIDE DEF p, r
  <2>3. EMax + Bias \in Nat /\ Hidden \in Nat \ {0}
    BY Sizes, Magnitudes
  <2> QED
    BY <2>2, <2>3
<1> HIDE DEF p, r
<1>2. p \in 0 .. EMax + Bias + 1 /\ p + 1 \in 0 .. EMax + Bias + 1
  BY <1>1, Sizes
<1> DEFINE u == IF p = 0 THEN 1 ELSE 2 ^ (p - 1)
           m == IF p = 0 THEN r + 1 ELSE Hidden + r + 1
<1>3. u \in Nat \ {0}
  <2>1. p # 0 => p - 1 \in 0 .. TwoMax
    BY <1>1, Sizes
  <2> QED
    BY <2>1, Twos
<1>4. m \in 1 .. Hidden + Hidden /\ m \in Nat /\ m - 1 = IF p = 0 THEN r ELSE Hidden + r
  BY <1>1
<1>5. Units(b) = (m - 1) * u
  <2>1. Units(b) = IF p = 0 THEN r ELSE (Hidden + r) * 2 ^ (p - 1)
    BY <1>1, <1>2, UnitsIs
  <2>2. CASE p = 0
    BY <1>1, <1>4, <2>1, <2>2
  <2>3. CASE p # 0
    <3>1. m - 1 = Hidden + r /\ u = 2 ^ (p - 1) /\ Units(b) = (Hidden + r) * 2 ^ (p - 1)
      BY <1>4, <2>1, <2>3
    <3> HIDE DEF m, u
    <3> QED
      BY <3>1, Zenon
  <2> QED
    BY <2>2, <2>3
<1>6. Units(b + 1) = m * u
  <2>1. CASE r + 1 \in 0 .. Hidden - 1
    <3>1. b + 1 = Hidden * p + (r + 1)
      BY <1>1
    <3>2. Units(b + 1) = IF p = 0 THEN r + 1 ELSE (Hidden + (r + 1)) * 2 ^ (p - 1)
      BY <1>2, <2>1, <3>1, UnitsIs
    <3>3. CASE p = 0
      BY <1>1, <3>2, <3>3
    <3>4. CASE p # 0
      <4>1. m = Hidden + (r + 1) /\ u = 2 ^ (p - 1) /\ Units(b + 1) = (Hidden + (r + 1)) * 2 ^ (p - 1)
        BY <1>1, <3>2, <3>4
      <4> HIDE DEF m, u
      <4> QED
        BY <4>1, Zenon
    <3> QED
      BY <3>3, <3>4
  <2>2. CASE r + 1 = Hidden
    <3>1. b + 1 = Hidden * (p + 1) + 0 /\ 0 \in 0 .. Hidden - 1
      BY <1>1, <2>2
    <3>2. Units(b + 1) = IF p + 1 = 0 THEN 0 ELSE (Hidden + 0) * 2 ^ ((p + 1) - 1)
      BY <1>2, <3>1, UnitsIs
    <3>3. Units(b + 1) = Hidden * 2 ^ p
      <4>1. p + 1 # 0 /\ (p + 1) - 1 = p /\ Hidden + 0 = Hidden
        BY <1>1
      <4> QED
        BY <3>2, <4>1, Zenon
    <3>4. CASE p = 0
      <4>1. 2 ^ p = 1
        <5>1. p \in 0 .. TwoMax
          BY <1>1, Sizes
        <5> QED
          BY <3>4, <5>1, Twos
      <4> QED
        BY <1>1, <2>2, <3>3, <3>4, <4>1
    <3>5. CASE p # 0
      <4>1. p - 1 \in 0 .. TwoMax /\ (p - 1) + 1 \in 0 .. TwoMax /\ (p - 1) + 1 = p
        BY <1>1, <3>5, Sizes
      <4>2. 2 ^ (p - 1) \in Nat \ {0} /\ 2 ^ ((p - 1) + 1) = 2 * 2 ^ (p - 1)
        BY <4>1, Twos
      <4>3. 2 ^ p = 2 * 2 ^ (p - 1)
        BY <4>1, <4>2, Zenon
      <4>4. (Hidden + Hidden) * 2 ^ (p - 1) = Hidden * (2 * 2 ^ (p - 1))
        <5>1. \A x, y \in Nat : (x + x) * y = x * (2 * y)
          OBVIOUS
        <5> QED
          BY <1>1, <4>2, <5>1
      <4>5. m = Hidden + Hidden /\ u = 2 ^ (p - 1)
        BY <1>1, <2>2, <3>5
      <4> HIDE DEF m, u
      <4> QED
        BY <3>3, <4>3, <4>4, <4>5, Zenon
    <3> QED
      BY <3>4, <3>5
  <2> QED
    BY <1>1, <2>1, <2>2
<1>7. Neighbours(Units(b), Units(b + 1), m, u)
  <2> HIDE DEF m, u
  <2> QED
    BY <1>3, <1>4, <1>5, <1>6 DEF Neighbours
<1> QED
  BY <1>7, Zenon

\* The interval is wide: its upper end is less than 2^(Prec + 1) times its width.
LEMMA WideInterval ==
  ASSUME IntervalInv, Searched
  PROVE  high - low \in Nat \ {0} /\ high <= (Hidden + Hidden) * (high - low)
<1> DEFINE a == Units(bits - 1)
           b == Units(bits)
           c == Units(bits + 1)
           two == Hidden + Hidden
           p == 10 ^ scale
<1>1. bits \in 1 .. InfBits - 2 /\ scale \in 0 .. MaxDigits /\ low \in Nat /\ high \in Nat
      /\ low * Unit = TwiceMid(bits - 1) * p /\ high * Unit = TwiceMid(bits) * p
      /\ \E v \in Nat : low < v /\ v < high
  BY Working, Sizes
<1>2. PICK m1, u1 : Neighbours(a, b, m1, u1)
  <2>1. bits - 1 \in 0 .. InfBits - 1 /\ (bits - 1) + 1 = bits
    BY <1>1, Magnitudes
  <2>2. \E m, u : Neighbours(Units(bits - 1), Units((bits - 1) + 1), m, u)
    BY <2>1, UnitsStep, Zenon
  <2> QED
    BY <2>1, <2>2, Zenon
<1>3. PICK m2, u2 : Neighbours(b, c, m2, u2)
  <2>1. bits \in 0 .. InfBits - 1
    BY <1>1, Magnitudes
  <2> QED
    BY <2>1, UnitsStep, Zenon
<1>4. TwiceMid(bits - 1) = a + b /\ TwiceMid(bits) = b + c
  <2>1. (bits - 1) + 1 = bits
    BY <1>1, Magnitudes
  <2> QED
    BY <2>1 DEF TwiceMid
<1>5. two \in Nat \ {0} /\ Unit \in Nat \ {0} /\ p \in Nat \ {0}
  BY <1>1, Magnitudes, UnitType, Tens
<1>6. /\ u1 \in Nat \ {0} /\ m1 \in 1 .. two /\ b = m1 * u1 /\ a = (m1 - 1) * u1
      /\ u2 \in Nat \ {0} /\ m2 \in 1 .. two /\ c = m2 * u2 /\ b = (m2 - 1) * u2
  BY <1>2, <1>3 DEF Neighbours
<1>7. low * Unit = (a + b) * p /\ high * Unit = (b + c) * p
  BY <1>1, <1>4
<1> HIDE DEF a, b, c, two, p
<1>8. /\ a \in Nat /\ b \in Nat /\ c \in Nat /\ b = a + u1 /\ c = b + u2
      /\ b <= two * u1 /\ c <= two * u2
  <2>1. ASSUME NEW m \in 1 .. two, NEW u \in Nat \ {0}
        PROVE  m * u \in Nat /\ (m - 1) * u \in Nat /\ m * u = (m - 1) * u + u /\ m * u <= two * u
    <3>1. m \in Nat /\ m - 1 \in Nat /\ m <= two /\ two \in Nat
      BY <1>5
    <3>2. m * u \in Nat /\ (m - 1) * u \in Nat /\ m * u <= two * u
      BY <3>1, Products
    <3>3. \A x, y \in Nat : (x + 1) * y = x * y + y
      OBVIOUS
    <3>4. (m - 1) + 1 = m
      BY <3>1
    <3> QED
      BY <3>1, <3>2, <3>3, <3>4
  <2>2. /\ m1 * u1 \in Nat /\ (m1 - 1) * u1 \in Nat /\ m1 * u1 = (m1 - 1) * u1 + u1 /\ m1 * u1 <= two * u1
        /\ m2 * u2 \in Nat /\ (m2 - 1) * u2 \in Nat /\ m2 * u2 = (m2 - 1) * u2 + u2 /\ m2 * u2 <= two * u2
    BY <1>6, <2>1
  <2> QED
    BY <1>6, <2>2
<1>9. b + c <= two * (u1 + u2)
  <2>1. \A x, y, z \in Nat : x * (y + z) = x * y + x * z
    OBVIOUS
  <2>2. two * (u1 + u2) = two * u1 + two * u2
    BY <1>5, <1>6, <2>1
  <2>3. two * u1 \in Nat /\ two * u2 \in Nat
    BY <1>5, <1>6, Products
  <2> QED
    BY <1>8, <2>2, <2>3
<1> DEFINE d == high - low
           w == u1 + u2
<1>10. d \in Nat \ {0} /\ w \in Nat \ {0} /\ high = low + d
  BY <1>1, <1>6
<1>11. b + c = (a + b) + w /\ b + c \in Nat /\ a + b \in Nat
  BY <1>6, <1>8
<1> HIDE DEF d, w
<1>12. d * Unit = w * p
  <2>1. \A x, y, z \in Nat : (x + y) * z = x * z + y * z
    OBVIOUS
  <2>2. high * Unit = low * Unit + d * Unit /\ (b + c) * p = (a + b) * p + w * p
    BY <1>1, <1>5, <1>10, <1>11, <2>1
  <2>3. low * Unit \in Nat /\ d * Unit \in Nat /\ w * p \in Nat
    BY <1>1, <1>5, <1>10, Products
  <2> QED
    BY <1>7, <2>2, <2>3
<1>13. high * Unit <= (two * d) * Unit
  <2>1. (b + c) * p <= (two * w) * p
    <3>1. two * w \in Nat
      BY <1>5, <1>10, Products
    <3>2. b + c <= two * w
      BY <1>9 DEF w
    <3> QED
      BY <1>5, <1>11, <3>1, <3>2, Products
  <2>2. (two * w) * p = two * (w * p) /\ (two * d) * Unit = two * (d * Unit)
    BY <1>5, <1>10, Swapped
  <2> QED
    BY <1>7, <1>12, <2>1, <2>2
<1>14. high <= two * d
  <2>1. two * d \in Nat
    BY <1>5, <1>10, Products
  <2> QED
    BY <1>1, <1>5, <1>13, <2>1, Products
<1> QED
  BY <1>10, <1>14 DEF d, two

\* A power of ten without a multiple in the interval is as wide as that.
LEMMA CoarserIsWider ==
  ASSUME IntervalInv, Searched, t < MaxDigits
  PROVE  high - low <= 10 ^ (t + 1)
<1> DEFINE p == 10 ^ (t + 1)
           q == high \div p
<1>1. /\ t + 1 \in t + 1 .. MaxDigits /\ t + 1 \in 0 .. MaxDigits /\ low \in Nat /\ high \in Nat
      /\ \A n \in 1 .. q : ~Inside(n * p)
  BY Working, Sizes
<1>2. p \in Nat \ {0}
  BY <1>1, Tens
<1> HIDE DEF p
<1>3. q \in Nat /\ high = p * q + (high % p) /\ high % p \in 0 .. p - 1
  BY <1>1, <1>2, DivMod
<1> DEFINE r == high % p
<1> HIDE DEF q, r
<1>4. r \in 0 .. p - 1 /\ high = p * q + r /\ p * q \in Nat
  <2>1. r \in 0 .. p - 1 /\ high = p * q + r
    BY <1>3 DEF r
  <2> QED
    BY <1>2, <1>3, <2>1, Products
<1>5. ASSUME NEW n \in 1 .. q, n * p < high PROVE n * p <= low
  <2>1. n \in Nat /\ ~Inside(n * p)
    BY <1>1, <1>3
  <2>2. n * p \in Nat
    BY <1>2, <2>1, Products
  <2> DEFINE x == n * p
  <2> HIDE DEF x
  <2>3. x \in Nat /\ ~Inside(x) /\ x < high
    BY <1>5, <2>1, <2>2 DEF x
  <2>4. x <= low
    BY <1>1, <2>3 DEF Inside
  <2> QED
    BY <2>4 DEF x
<1>6. CASE q = 0
  <2>1. p * q = 0
    BY <1>2, <1>6
  <2> QED
    BY <1>1, <1>2, <1>4, <2>1 DEF p
<1>7. CASE q # 0 /\ r # 0
  <2>1. q \in 1 .. q /\ q * p = p * q
    BY <1>2, <1>3, <1>7, Products
  <2>2. p * q <= low
    <3>1. q * p < high
      BY <1>2, <1>4, <1>7, <2>1
    <3> QED
      BY <1>5, <2>1, <3>1
  <2>3. high - low <= p
    BY <1>1, <1>2, <1>4, <2>2
  <2> QED
    BY <2>3 DEF p
<1>8. CASE q = 1 /\ r = 0
  <2>1. p * q = p
    BY <1>2, <1>8
  <2>2. high - low <= p
    BY <1>1, <1>2, <1>4, <1>8, <2>1
  <2> QED
    BY <2>2 DEF p
<1>9. CASE q > 1 /\ r = 0
  <2>1. q - 1 \in 1 .. q /\ q - 1 \in Nat
    BY <1>3, <1>9
  <2>2. (q - 1) * p + p = p * q /\ (q - 1) * p \in Nat
    <3>1. \A x, y \in Nat : x * y + y = y * (x + 1)
      OBVIOUS
    <3>2. (q - 1) + 1 = q
      BY <1>3
    <3>3. (q - 1) * p + p = p * ((q - 1) + 1)
      BY <1>2, <2>1, <3>1
    <3>4. (q - 1) * p \in Nat
      BY <1>2, <2>1, Products
    <3> QED
      BY <3>2, <3>3, <3>4
  <2>3. (q - 1) * p <= low
    <3>1. (q - 1) * p < high
      BY <1>2, <1>4, <1>9, <2>2
    <3> QED
      BY <1>5, <2>1, <3>1
  <2>4. high - low <= p
    <3> DEFINE y == (q - 1) * p
               x == p * q
    <3>1. y \in Nat /\ x \in Nat /\ y + p = x /\ y <= low /\ high = x
      BY <1>4, <1>9, <2>2, <2>3
    <3> HIDE DEF x, y
    <3> QED
      BY <1>1, <1>2, <3>1
  <2> QED
    BY <2>4 DEF p
<1> QED
  BY <1>3, <1>4, <1>6, <1>7, <1>8, <1>9

\* The digits found are hardly more than those of a significand.
LEMMA FewDigits ==
  ASSUME IInv, HasDigits, bits # InfBits - 1
  PROVE  sig <= 10 * 2 ^ Prec
<1> DEFINE p == 10 ^ t
           two == Hidden + Hidden
           d == high - low
<1>1. IntervalInv /\ Searched /\ sig \in Nat \ {0} /\ sig * p <= high
  BY Answered
<1>2. t \in 0 .. MaxDigits /\ high \in Nat /\ high < 10 ^ MaxDigits
  BY <1>1, Working
<1>3. p \in Nat \ {0} /\ two \in Nat \ {0}
  BY <1>2, Tens, Magnitudes
<1>4. d \in Nat \ {0} /\ high <= two * d
  BY <1>1, WideInterval
<1>5. t < MaxDigits
  <2> SUFFICES ASSUME t = MaxDigits PROVE FALSE
    BY <1>2, Sizes
  <2>1. high < p
    BY <1>2
  <2> HIDE DEF p
  <2>2. p <= p * sig /\ p * sig = sig * p /\ sig * p \in Nat
    BY <1>1, <1>3, Products
  <2> QED
    BY <1>1, <1>2, <1>3, <2>1, <2>2
<1>6. d <= 10 * p
  <2>1. 10 ^ (t + 1) = 10 * p
    <3>1. PowersUpTo(10, MaxDigits) /\ t \in 0 .. MaxDigits - 1
      BY <1>2, <1>5, Sizes, PowersAssumption
    <3> QED
      BY <3>1 DEF PowersUpTo
  <2>2. d <= 10 ^ (t + 1)
    BY <1>1, <1>5, CoarserIsWider
  <2> QED
    BY <2>1, <2>2
<1> HIDE DEF p, d, two
<1>7. sig * p <= (10 * two) * p
  <2>1. two * d <= two * (10 * p)
    <3>1. d \in Nat /\ 10 * p \in Nat
      BY <1>3, <1>4
    <3>2. d * two <= (10 * p) * two /\ d * two = two * d /\ (10 * p) * two = two * (10 * p)
      BY <1>3, <1>6, <3>1, Products
    <3> QED
      BY <3>2
  <2>2. two * (10 * p) = (10 * two) * p
    <3>1. \A x, y \in Nat : x * (10 * y) = (10 * x) * y
      OBVIOUS
    <3> QED
      BY <1>3, <3>1
  <2>3. two * d \in Nat /\ (10 * two) * p \in Nat /\ sig * p \in Nat
    BY <1>1, <1>3, <1>4, Products
  <2> QED
    BY <1>1, <1>2, <1>4, <2>1, <2>2, <2>3
<1>8. sig <= 10 * two
  <2>1. 10 * two \in Nat
    BY <1>3
  <2> QED
    BY <1>1, <1>3, <1>7, <2>1, Products
<1>9. 2 ^ Prec = two
  <2>1. Prec - 1 \in 0 .. TwoMax /\ (Prec - 1) + 1 \in 0 .. TwoMax /\ (Prec - 1) + 1 = Prec
    BY Sizes, FormatAssumption DEF TwoMax
  <2>2. 2 ^ ((Prec - 1) + 1) = 2 * 2 ^ (Prec - 1) /\ 2 ^ (Prec - 1) \in Nat
    BY <2>1, Twos
  <2>3. 2 ^ Prec = 2 * 2 ^ (Prec - 1)
    BY <2>1, <2>2, Zenon
  <2>4. Hidden = 2 ^ (Prec - 1)
    BY DEF Hidden
  <2> QED
    BY <2>2, <2>3, <2>4 DEF two
<1> QED
  BY <1>8, <1>9

\* What is written out.
Figured ==
  LET n == DecimalLen(sig)
  IN  /\ sig \in Nat \ {0} /\ n \in 1 .. MaxDigits /\ sig < 10 ^ n /\ (n > 1 => 10 ^ (n - 1) <= sig)
      /\ n + 10 <= SciCap /\ k \in -SmallExp10 .. LargeExp10
      /\ bits \in 1 .. InfBits - 1 /\ Nearest(sig, k) = bits

LEMMA Sized ==
  ASSUME IInv, HasDigits
  PROVE  Figured
<1> DEFINE most == SciCap - 10
           n == DecimalLen(sig)
<1>1. most \in 1 .. MaxDigits /\ 10 * 2 ^ Prec < 10 ^ most /\ MaxSig < 10 ^ most /\ SciCap \in Nat
  BY CapAssumption
<1>2. /\ sig \in Nat \ {0} /\ sig < 10 ^ MaxDigits /\ sig < 10 ^ most
      /\ k \in -SmallExp10 .. LargeExp10 /\ bits \in 1 .. InfBits - 1 /\ Nearest(sig, k) = bits
  <2>1. CASE bits = InfBits - 1
    <3>1. sig = MaxSig /\ k = MaxSigExp
      BY <2>1 DEF IInv, AnswerInv
    <3>2. MaxSig \in Nat \ {0} /\ MaxSigExp \in -SmallExp10 .. LargeExp10 /\ MaxSig < 10 ^ MaxDigits
      BY ShortestAssumption, SizeAssumption
    <3>3. InfBits - 1 \in 1 .. InfBits - 1
      BY Magnitudes
    <3>4. Nearest(MaxSig, MaxSigExp) = InfBits - 1
      BY LargestAssumption
    <3> QED
      BY <1>1, <2>1, <3>1, <3>2, <3>3, <3>4
  <2>2. CASE bits # InfBits - 1
    <3>1. /\ IntervalInv /\ Searched /\ sig \in Nat \ {0} /\ sig < 10 ^ MaxDigits /\ k \in Int
          /\ k + scale = t /\ Within(sig, k) /\ Inside(sig * 10 ^ t)
      BY <2>2, Answered
    <3>2. k + scale \in 0 .. MaxDigits /\ bits \in 1 .. InfBits - 2 /\ InfBits \in Nat
      BY <3>1, Working, Magnitudes
    <3>3. Nearest(sig, k) = bits
      <4>1. Nearest(sig, k) = bits <=> Inside(sig * 10 ^ (k + scale))
        BY <3>1, <3>2, InsideIsNearest
      <4> QED
        BY <3>1, <4>1, Zenon
    <3>4. sig <= 10 * 2 ^ Prec
      BY <2>2, FewDigits
    <3>5. 2 ^ Prec \in Nat /\ 10 ^ most \in Nat
      <4>1. Prec \in 0 .. TwoMax
        BY Sizes, FormatAssumption DEF TwoMax
      <4>2. most \in 0 .. MaxDigits
        BY <1>1, Sizes
      <4> HIDE DEF most
      <4> QED
        BY <4>1, <4>2, Twos, Tens
    <3>6. sig < 10 ^ most
      <4> DEFINE x == 10 * 2 ^ Prec
                 y == 10 ^ most
      <4>1. x \in Nat /\ y \in Nat /\ x < y /\ sig <= x /\ sig \in Nat
        BY <1>1, <3>1, <3>4, <3>5
      <4> HIDE DEF x, y
      <4>2. sig < y
        BY <4>1
      <4> QED
        BY <4>2 DEF y
    <3>7. k \in -SmallExp10 .. LargeExp10
      BY <3>1 DEF Within
    <3>8. bits \in 1 .. InfBits - 1
      BY <3>2
    <3> QED
      BY <3>1, <3>3, <3>6, <3>7, <3>8
  <2> QED
    BY <2>1, <2>2
<1> HIDE DEF most
<1>3. n \in 1 .. MaxDigits /\ sig < 10 ^ n /\ (n > 1 => 10 ^ (n - 1) <= sig)
  <2>1. sig \in Nat /\ sig < 10 ^ MaxDigits
    BY <1>2
  <2> QED
    BY <2>1, DecimalLenIs
<1> HIDE DEF n
<1>4. n <= most
  <2> SUFFICES ASSUME n > most PROVE FALSE
    BY <1>1, <1>3, Sizes
  <2>1. most \in 0 .. MaxDigits /\ n - 1 \in 0 .. MaxDigits /\ most <= n - 1 /\ n > 1
    BY <1>1, <1>3, Sizes
  <2>2. 10 ^ most \in Nat /\ 10 ^ (n - 1) \in Nat
    BY <2>1, Tens
  <2>3. 10 ^ most <= 10 ^ (n - 1)
    BY <2>1, TensSum
  <2> DEFINE x == 10 ^ most
             y == 10 ^ (n - 1)
  <2>4. x \in Nat /\ y \in Nat /\ x <= y /\ y <= sig /\ sig < x /\ sig \in Nat
    BY <1>2, <1>3, <2>1, <2>2, <2>3
  <2> HIDE DEF x, y
  <2> QED
    BY <2>4
<1>5. n + 10 <= SciCap
  BY <1>1, <1>3, <1>4, Sizes DEF most
<1> QED
  BY <1>2, <1>3, <1>5 DEF Figured, n

\* The digits say the number.
Shown(w, n) == /\ w \in Seq(Digits) /\ w \in Seq(Nat) /\ Len(w) = n /\ n \in 1 .. MaxDigits /\ w[1] # 0
               /\ w[1] \in Digits /\ ValueOf(w, 10) = sig

LEMMA DigitsShown ==
  ASSUME Figured
  PROVE  Shown(Digs, DecimalLen(sig))
<1> DEFINE n == DecimalLen(sig)
           w == Digs
<1>1. /\ sig \in Nat \ {0} /\ n \in 1 .. MaxDigits /\ sig < 10 ^ n /\ (n > 1 => 10 ^ (n - 1) <= sig)
      /\ w = Spelled(sig, 10, n)
  BY DEF Figured, Digs
<1> HIDE DEF n, w
<1>2. PowersUpTo(10, n) /\ n \in Nat /\ n > 0
  BY <1>1, Sizes, PowersAssumption DEF PowersUpTo
<1> DEFINE ten == 10
<1>3. ten \in Nat \ {0, 1} /\ w = Spelled(sig, ten, n) /\ PowersUpTo(ten, n) /\ sig \in Nat
      /\ sig < ten ^ n
  BY <1>1, <1>2
<1>4. ten ^ (n - 1) <= sig
  <2>1. n = 1 => ten ^ (n - 1) = 1
    BY <1>2 DEF PowersUpTo
  <2> QED
    BY <1>1, <1>2, <2>1
<1>5. 0 .. ten - 1 = Digits
  BY DEF Digits
<1> HIDE DEF ten
<1>6. w \in Seq(Digits) /\ w \in Seq(Nat) /\ Len(w) = n /\ w[1] # 0
  BY <1>2, <1>3, <1>4, <1>5, SpelledType
<1>7. ValueOf(w, ten) = sig
  BY <1>2, <1>3, SpelledValue
<1>8. w[1] \in Digits
  <2>1. 1 \in 1 .. Len(w)
    BY <1>2, <1>6
  <2> QED
    BY <1>6, <2>1, ElementOfSeq
<1> QED
  BY <1>1, <1>6, <1>7, <1>8 DEF Shown, ten, n, w

\* The sign of a text, and what is written behind it if there is room.
SignOf(negative) == IF negative THEN <<Minus>> ELSE <<>>

LEMMA PiecesJoined ==
  ASSUME NEW u \in Seq(AllPieces), NEW v \in Seq(AllPieces)
  PROVE  /\ Len(u \o v) = Len(u) + Len(v)
         /\ \A i \in 1 .. Len(u) : (u \o v)[i] = u[i]
         /\ \A i \in 1 .. Len(v) : (u \o v)[Len(u) + i] = v[i]
BY Joined

LEMMA Alone ==
  ASSUME NEW negative \in BOOLEAN, NEW room \in Nat, NEW text \in Seq(Nat), NEW cap \in Nat, room + 1 <= cap
  PROVE  LET w == Written(Sign(negative) \o <<Piece(room, text)>>, cap)
         IN  w.status = "OK" /\ w.text = SignOf(negative) \o text
<1> DEFINE x == Piece(room, text)
           one == <<x>>
           s == Sign(negative)
           p == s \o one
           w == Written(p, cap)
           c == Len(s)
<1>1. x \in AllPieces /\ x.room = room /\ x.text = text
  BY DEF Piece, AllPieces
<1>2. /\ s \in Seq(AllPieces) /\ Whole(s) = SignOf(negative) /\ c \in {0, 1} /\ Whole(s) \in Seq(Nat)
      /\ c = 1 => s[1].room = 1 /\ s[1].text = <<Minus>>
  <2>1. CASE negative
    <3> DEFINE y == Piece(1, <<Minus>>)
    <3>1. y \in AllPieces /\ y.room = 1 /\ y.text = <<Minus>>
      BY DEF Piece, AllPieces, Minus
    <3>2. s = <<y>>
      BY <2>1 DEF Sign, Signed
    <3> HIDE DEF y, s
    <3>3. Whole(<<y>>) = <<Minus>>
      BY <3>1, WholeOne
    <3>4. s \in Seq(AllPieces) /\ c = 1 /\ s[1] = y
      BY <3>1, <3>2
    <3>5. <<Minus>> \in Seq(Nat)
      BY DEF Minus
    <3> QED
      BY <2>1, <3>1, <3>2, <3>3, <3>4, <3>5 DEF SignOf
  <2>2. CASE ~negative
    <3>1. s = <<>>
      BY <2>2 DEF Sign, Signed
    <3>2. <<>> \in Seq(AllPieces) /\ <<>> \in Seq(Nat) /\ Len(<<>>) = 0
      BY EmptySeq
    <3> HIDE DEF s
    <3>3. c = 0 /\ s \in Seq(AllPieces) /\ Whole(s) = <<>>
      BY <3>1, <3>2, WholeNone
    <3> QED
      BY <2>2, <3>2, <3>3 DEF SignOf
  <2> QED
    BY <2>1, <2>2
<1> HIDE DEF x, s, c
<1>3. one \in Seq(AllPieces) /\ Len(one) = 1 /\ one[1] = x
  BY <1>1
<1>4. Whole(one) = text
  BY <1>1, WholeOne
<1> HIDE DEF one
<1>5. p \in Seq(AllPieces) /\ Whole(p) = SignOf(negative) \o text
  BY <1>2, <1>3, <1>4, WholeConcat
<1>6. /\ Len(p) = c + 1 /\ p[c + 1] = x /\ (c = 1 => p[1] = s[1])
  <2>1. /\ Len(s \o one) = Len(s) + Len(one)
        /\ \A i \in 1 .. Len(s) : (s \o one)[i] = s[i]
        /\ \A i \in 1 .. Len(one) : (s \o one)[Len(s) + i] = one[i]
    BY <1>2, <1>3, PiecesJoined, Zenon
  <2> QED
    BY <1>2, <1>3, <2>1 DEF c
<1> HIDE DEF p
<1> DEFINE n == c + 1
<1>7. Pieced(p, n) /\ n \in {1, 2}
  BY <1>2, <1>5, <1>6, PiecedSeq
<1> HIDE DEF n
<1>8. PICK v : Wholes(v, p, n) /\ Whole(p) = v[n]
  BY <1>7, WholeSteps, Zenon
<1>9. \A i \in 1 .. n : Len(v[i - 1]) + p[i].room <= cap
  <2>1. v[0] = <<>> /\ Len(<<>>) = 0
    BY <1>8 DEF Wholes
  <2>2. CASE c = 0
    <3>1. n = 1 /\ p[1].room = room
      BY <1>1, <1>6, <2>2 DEF n
    <3> QED
      BY <2>1, <3>1
  <2>3. CASE c = 1
    <3>1. n = 2 /\ p[2].room = room /\ p[1].room = 1
      BY <1>1, <1>2, <1>6, <2>3 DEF n
    <3>2. Len(v[1]) = 1
      <4>1. v[1] = v[1 - 1] \o p[1].text
        <5>1. 1 \in 1 .. n
          BY <3>1
        <5> QED
          BY <1>8, <5>1 DEF Wholes
      <4>2. p[1].text = <<Minus>>
        BY <1>2, <1>6, <2>3
      <4>3. 1 - 1 = 0
        OBVIOUS
      <4>4. v[1] = <<>> \o <<Minus>>
        BY <2>1, <4>1, <4>2, <4>3
      <4>5. Len(<<>> \o <<Minus>>) = 1
        OBVIOUS
      <4> QED
        BY <4>4, <4>5
    <3>3. v[1 - 1] = v[0] /\ v[2 - 1] = v[1]
      OBVIOUS
    <3>4. \A i \in 1 .. n : i = 1 \/ i = 2
      BY <3>1
    <3>5. Len(v[1 - 1]) + p[1].room <= cap /\ Len(v[2 - 1]) + p[2].room <= cap
      <4>1. Len(v[1 - 1]) = 0 /\ Len(v[2 - 1]) = 1
        BY <2>1, <3>2, <3>3, Zenon
      <4>2. 0 + 1 <= cap /\ 1 + room <= cap
        OBVIOUS
      <4> QED
        BY <3>1, <4>1, <4>2, Zenon
    <3> QED
      BY <3>4, <3>5, Zenon
  <2> QED
    BY <1>2, <2>2, <2>3
<1>10. w.status = "OK" /\ w.text = v[n]
  <2>1. \/ w.status = "OK" /\ w.text = v[n]
        \/ \E i \in 1 .. n : Len(v[i - 1]) + p[i].room > cap
    BY <1>7, <1>8, WrittenIs
  <2>2. \A i \in 1 .. n : Len(v[i - 1]) + p[i].room \in Nat
    <3>1. /\ \A i \in 0 .. n : Len(v[i]) \in Nat
          /\ \A i \in 1 .. n : p[i].room \in Nat
      BY <1>7, <1>8, WholeGrows
    <3> QED
      BY <1>7, <3>1
  <2> QED
    BY <1>9, <2>1, <2>2
<1> QED
  BY <1>5, <1>8, <1>10 DEF p, one, x, s

\* Without an exponent, the digits of an integer say it.
LEMMA IntegralNearest ==
  ASSUME Figured, k >= 0
  PROVE  sig * 10 ^ k \in Nat /\ Nearest(sig * 10 ^ k, 0) = bits
<1> DEFINE p == 10 ^ k
           n == sig * p
           top == Units(InfBits)
           mid == TwiceMid(bits)
<1>1. sig \in Nat \ {0} /\ k \in 0 .. LargeExp10 /\ bits \in 1 .. InfBits - 1 /\ Nearest(sig, k) = bits
  BY Sizes DEF Figured
<1>2. p \in Nat \ {0} /\ Unit \in Nat \ {0} /\ mid \in Nat /\ top \in Nat /\ k \in 0 .. MaxDigits
      /\ bits \in 0 .. InfBits - 1
  <2>1. k \in 0 .. MaxDigits /\ bits \in 0 .. InfBits - 1 /\ InfBits \in 0 .. InfBits
    BY <1>1, Sizes, Magnitudes
  <2>2. p \in Nat \ {0}
    BY <2>1, Tens
  <2>3. Unit \in Nat \ {0} /\ mid \in Nat
    BY <2>1, UnitType
  <2>4. top \in Nat
    BY <2>1, UnitsType
  <2> HIDE DEF p, top, mid
  <2> QED
    BY <2>1, <2>2, <2>3, <2>4
<1>3. ~RoundsPast(sig, k, bits) /\ RoundsPast(sig, k, bits - 1)
  <2>1. sig \in Nat /\ k \in Int /\ bits \in 1 .. InfBits - 1 /\ Nearest(sig, k) = bits
    BY <1>1, Sizes
  <2> QED
    BY <2>1, NearestLies, Zenon
<1>4. mid <= 2 * top /\ top \in Nat \ {0}
  <2>1. bits \in 0 .. InfBits /\ bits + 1 \in 0 .. InfBits /\ InfBits \in 0 .. InfBits /\ 0 \in 0 .. InfBits
        /\ 0 < InfBits /\ bits <= InfBits /\ bits + 1 <= InfBits
    BY <1>1, Magnitudes
  <2>2. Units(bits) <= top /\ Units(bits + 1) <= top /\ Units(0) < top /\ Units(0) \in Nat
        /\ Units(bits) \in Nat /\ Units(bits + 1) \in Nat
    BY <2>1, UnitsOrder, UnitsType
  <2> HIDE DEF top
  <2> QED
    BY <1>2, <2>2 DEF TwiceMid
<1>5. sig <= 2 * top
  <2> SUFFICES ASSUME sig > 2 * top PROVE FALSE
    BY <1>1, <1>2
  <2>1. HalfUnits(sig, k) = 2 * (2 * top)
    BY <1>1 DEF HalfUnits
  <2>2. 2 * (2 * top) > mid
    BY <1>2, <1>4
  <2>3. RoundsPast(sig, k, bits)
    BY <2>1, <2>2 DEF RoundsPast, TwiceMid
  <2> QED
    BY <1>3, <2>3
<1>6. HalfUnits(sig, k) = (sig * Unit) * p /\ ~Leftover(sig, k)
  <2>1. Within(sig, k) /\ sig \in Nat /\ k \in Int /\ k >= 0
    BY <1>1, <1>5, Sizes DEF Within
  <2> QED
    BY <2>1, HalfUnitsAre
<1>7. n \in Nat /\ (sig * Unit) * p = n * Unit /\ n <= n * Unit
  <2>1. (sig * Unit) * p = (sig * p) * Unit /\ sig * p \in Nat
    BY <1>1, <1>2, Swapped
  <2> HIDE DEF p
  <2> QED
    BY <1>2, <2>1, Products
<1> HIDE DEF n, p
<1>8. n <= 2 * top
  <2>1. ~ (HalfUnits(sig, k) > mid)
    BY <1>3 DEF RoundsPast, TwiceMid
  <2>2. n * Unit \in Nat
    BY <1>2, <1>7, Products
  <2> DEFINE x == n * Unit
  <2>3. x \in Nat /\ ~ (x > mid) /\ n <= x
    BY <1>6, <1>7, <2>1, <2>2
  <2> HIDE DEF x, mid, top
  <2> QED
    BY <1>2, <1>4, <1>7, <2>3
<1>9. HalfUnits(n, 0) = n * Unit /\ ~Leftover(n, 0)
  <2> DEFINE none == 0
  <2>1. Within(n, none) /\ none \in Int /\ none >= 0
    BY <1>8, Sizes DEF Within
  <2>2. 10 ^ none = 1
    BY PowersAssumption DEF PowersUpTo
  <2> HIDE DEF none
  <2>3. HalfUnits(n, none) = (n * Unit) * 10 ^ none /\ ~Leftover(n, none)
    BY <1>7, <2>1, HalfUnitsAre
  <2>4. n * Unit \in Nat
    BY <1>2, <1>7, Products
  <2> DEFINE x == n * Unit
  <2>5. HalfUnits(n, none) = x * 1 /\ x \in Nat
    BY <2>2, <2>3, <2>4
  <2> HIDE DEF x
  <2>6. HalfUnits(n, none) = x
    BY <2>5
  <2> QED
    BY <2>3, <2>6 DEF none, x
<1>10. HalfUnits(n, 0) = HalfUnits(sig, k) /\ (Leftover(n, 0) <=> Leftover(sig, k))
  BY <1>6, <1>7, <1>9
<1>11. \A c : RoundsPast(n, 0, c) <=> RoundsPast(sig, k, c)
  BY <1>10, Zenon DEF RoundsPast
<1>12. Nearest(n, 0) = bits
  <2> DEFINE none == 0
  <2>1. none \in Int /\ ~RoundsPast(n, none, bits) /\ RoundsPast(n, none, bits - 1)
    BY <1>3, <1>11
  <2> HIDE DEF none
  <2>2. Nearest(n, none) = bits
    BY <1>1, <1>7, <2>1, NearestLies
  <2> QED
    BY <2>2 DEF none
<1> QED
  BY <1>7, <1>12 DEF n, p

(* What is written reads back. *)

Spells(text, pointed, scientific, int, frac, es, ex) ==
  /\ Shows(text, pointed, scientific, <<>>, int, frac, es, ex)
  /\ text \in Seq(Nat) /\ pointed \in BOOLEAN /\ (pointed <=> frac # <<>>)
  /\ Len(int) > 1 => int[1] # 0
  /\ ex = <<>> <=> ~scientific
  /\ Nearest(ValueOf(int \o frac, 10),
             ValueOf(ex, ExpBase) * (IF Negative(es) THEN -1 ELSE 1) - Len(frac)) = bits

\* A notation of the number, of a length not counting the sign.
Notes(w, negative, scientific, n) ==
  \E text, pointed, int, frac, es, ex :
    /\ Spells(text, pointed, scientific, int, frac, es, ex)
    /\ w.status = "OK" /\ w.text = SignOf(negative) \o text /\ Len(text) = n

\* The room asked for in the plain notation, and the parts of the text.
Cancels(x, y) == x \in Int /\ x + y = 0
PlainParts(room, text, pointed, int, frac, e, n) ==
  /\ PlainBody = Piece(room, text) /\ room \in Nat /\ room + 1 <= PlainCap
  /\ Plainly(text, pointed, int, frac) /\ pointed \in BOOLEAN /\ (pointed <=> frac # <<>>)
  /\ Len(int) > 1 => int[1] # 0
  /\ Cancels(e, Len(frac)) /\ Nearest(ValueOf(int \o frac, 10), e) = bits
  /\ n = Len(int) + Len(frac) + (IF pointed THEN 1 ELSE 0)

LEMMA PlainNotes ==
  ASSUME NEW negative \in BOOLEAN, NEW room, NEW text, NEW pointed, NEW int, NEW frac, NEW e, NEW n,
         PlainParts(room, text, pointed, int, frac, e, n)
  PROVE  Notes(Plain(negative), negative, FALSE, n)
<1> DEFINE none == <<>>
<1>0. /\ PlainBody = Piece(room, text) /\ room \in Nat /\ room + 1 <= PlainCap
      /\ Plainly(text, pointed, int, frac) /\ pointed \in BOOLEAN /\ (pointed <=> frac # <<>>)
      /\ Len(int) > 1 => int[1] # 0
      /\ Cancels(e, Len(frac)) /\ Nearest(ValueOf(int \o frac, 10), e) = bits
      /\ n = Len(int) + Len(frac) + (IF pointed THEN 1 ELSE 0)
  BY DEF PlainParts
<1>1. Shows(text, pointed, FALSE, none, int, frac, none, none) /\ LengthSum(text, int, PointIf(pointed), frac)
  BY <1>0, ShowsFixed, Zenon
<1>2. text \in Seq(Nat) /\ Len(text) = n
  <2> DEFINE a == Len(int)
             b == Len(PointIf(pointed))
             c == Len(frac)
  <2>1. a \in Nat /\ c \in Nat
    BY <1>0, LenProperties DEF Plainly
  <2>2. b = IF pointed THEN 1 ELSE 0
    BY <1>0 DEF PointIf
  <2>3. text \in Seq(Nat) /\ Len(text) = a + (b + c) /\ n = a + c + (IF pointed THEN 1 ELSE 0)
    BY <1>0, <1>1, Zenon DEF LengthSum
  <2> HIDE DEF a, b, c
  <2>4. a + (b + c) = n
    BY <1>0, <2>1, <2>2, <2>3
  <2> QED
    BY <2>3, <2>4, Zenon
<1>3. ValueOf(none, ExpBase) * (IF Negative(none) THEN -1 ELSE 1) - Len(frac) = e
  <2>1. ValueOf(none, ExpBase) = 0
    BY ValueOfNone, ExpBaseAssumption
  <2>2. Len(frac) \in Nat /\ e \in Int /\ e + Len(frac) = 0
    BY <1>0, LenProperties DEF Plainly, Cancels
  <2>3. (IF Negative(none) THEN -1 ELSE 1) \in Int
    OBVIOUS
  <2> HIDE DEF none
  <2> QED
    BY <2>1, <2>2, <2>3
<1>4. none = <<>> /\ (none = <<>> <=> ~FALSE)
  OBVIOUS
<1> HIDE DEF none
<1>5. Spells(text, pointed, FALSE, int, frac, none, none)
  BY <1>0, <1>1, <1>2, <1>3, <1>4, Zenon DEF Spells
<1>6. Plain(negative).status = "OK" /\ Plain(negative).text = SignOf(negative) \o text
  <2>1. PlainCap \in Nat
    BY CapAssumption
  <2>2. Plain(negative) = Written(Sign(negative) \o <<PlainBody>>, PlainCap)
    BY DEF Plain
  <2>3. text \in Seq(Nat) /\ room \in Nat /\ room + 1 <= PlainCap
    BY <1>0, <1>2
  <2>4. /\ Written(Sign(negative) \o <<Piece(room, text)>>, PlainCap).status = "OK"
        /\ Written(Sign(negative) \o <<Piece(room, text)>>, PlainCap).text = SignOf(negative) \o text
    BY <2>1, <2>3, Alone, Zenon
  <2> QED
    BY <1>0, <2>2, <2>4, Zenon
<1> QED
  BY <1>2, <1>5, <1>6, Zenon DEF Notes

LEMMA ZerosAre ==
  ASSUME NEW n \in Nat
  PROVE  /\ Zeros(n) \in Seq(Digits) /\ Zeros(n) \in Seq(Nat) /\ Len(Zeros(n)) = n
         /\ \A i \in 1 .. Len(Zeros(n)) : Zeros(n)[i] = 0
BY DEF Zeros, Digits

\* The sizes of what is written.
LEMMA Measures ==
  ASSUME Figured
  PROVE  LET n == DecimalLen(sig)
         IN  /\ n \in Nat \ {0} /\ n <= MaxDigits /\ k \in Int /\ -MaxDigits <= k /\ k < MaxDigits
             /\ MaxDigits \in Nat /\ PlainCap \in Nat /\ 2 * MaxDigits + 4 <= PlainCap
             /\ SciCap \in Nat /\ n + 10 <= SciCap
<1> DEFINE n == DecimalLen(sig)
<1>1. n \in 1 .. MaxDigits /\ n + 10 <= SciCap /\ k \in -SmallExp10 .. LargeExp10
  BY DEF Figured
<1> HIDE DEF n
<1>2. /\ n \in Nat \ {0} /\ n <= MaxDigits /\ k \in Int /\ -MaxDigits <= k /\ k < MaxDigits
      /\ MaxDigits \in Nat /\ PlainCap \in Nat /\ 2 * MaxDigits + 4 <= PlainCap
      /\ SciCap \in Nat /\ n + 10 <= SciCap
  BY <1>1, Sizes, CapAssumption
<1> QED
  BY <1>2 DEF n

LEMMA PlainIntegral ==
  ASSUME Figured, NEW negative \in BOOLEAN, k >= 0
  PROVE  Notes(Plain(negative), negative, FALSE, PlainLen)
<1> DEFINE d == Digs
           n == DecimalLen(sig)
           z == Zeros(k)
           int == d \o z
           none == <<>>
           room == n + k + 1
<1>1. Shown(d, n)
  BY DigitsShown
<1>2. /\ n \in Nat \ {0} /\ n <= MaxDigits /\ k \in Nat /\ k < MaxDigits /\ MaxDigits \in Nat
      /\ PlainCap \in Nat /\ 2 * MaxDigits + 4 <= PlainCap
  BY Measures
<1>3. /\ z \in Seq(Digits) /\ z \in Seq(Nat) /\ Len(z) = k /\ \A i \in 1 .. Len(z) : z[i] = 0
  BY <1>2, ZerosAre
<1>4. PlainBody = Piece(Len(d) + k + 1, int)
  BY <1>2 DEF PlainBody
<1>5. PlainLen = n + k
  BY <1>2 DEF PlainLen
<1> HIDE DEF d, n, z
<1>6. /\ d \in Seq(Digits) /\ d \in Seq(Nat) /\ Len(d) = n /\ d[1] # 0 /\ ValueOf(d, 10) = sig
      /\ d[1] \in Digits
  BY <1>1 DEF Shown
<1>7. /\ int \in Seq(Digits) /\ Len(int) = n + k /\ int[1] = d[1]
  BY <1>2, <1>3, <1>6
<1>8. ValueOf(int \o none, 10) = sig * 10 ^ k
  <2>1. int \in Seq(Nat) /\ int \o none = int
    <3>1. int \in Seq(Nat)
      BY <1>3, <1>6, Joining, Zenon
    <3> HIDE DEF int
    <3> QED
      BY <3>1, ConcatEmptySeq
  <2> DEFINE ten == 10
  <2>2. ten \in Nat /\ PowersUpTo(ten, Len(z)) /\ ten ^ k \in Nat /\ ten ^ k \in Nat \ {0}
    <3>1. PowersUpTo(10, k) /\ k \in 0 .. MaxDigits
      BY <1>2, PowersAssumption DEF PowersUpTo
    <3>2. 10 ^ k \in Nat \ {0}
      BY <3>1, Tens
    <3> QED
      BY <1>3, <3>1, <3>2
  <2>3. ValueOf(d, ten) = sig
    BY <1>6
  <2> HIDE DEF ten, int
  <2>4. ValueOf(d \o z, ten) = ValueOf(d, ten) * ten ^ Len(z) + ValueOf(z, ten)
    BY <1>3, <1>6, <2>2, ValueConcat, Zenon
  <2>5. ValueOf(z, ten) = 0
    BY <1>3, <2>2, ValueZeros, Zenon
  <2>6. sig * ten ^ k \in Nat
    BY <2>2, Products DEF Figured
  <2>7. ValueOf(d \o z, ten) = sig * ten ^ k
    BY <1>3, <2>3, <2>4, <2>5, <2>6
  <2> QED
    BY <2>1, <2>7 DEF ten, int
<1>9. Nearest(ValueOf(int \o none, 10), 0) = bits
  BY <1>8, IntegralNearest
<1>10. Plainly(int, FALSE, int, none)
  <2>1. int = int \o (PointIf(FALSE) \o none)
    <3>1. PointIf(FALSE) \o none = none
      BY DEF PointIf
    <3> HIDE DEF none
    <3>2. int \o none = int
      <4> HIDE DEF int
      <4> QED
        BY <1>7, ConcatEmptySeq DEF none
    <3> QED
      BY <3>1, <3>2
  <2>2. none \in Seq(Digits) /\ Len(int) > 0 /\ int \in Seq(Digits) /\ none = <<>>
    BY <1>2, <1>7, EmptySeq
  <2> HIDE DEF int, none
  <2> QED
    BY <2>1, <2>2, Zenon DEF Plainly
<1>11. room \in Nat /\ room + 1 <= PlainCap /\ Cancels(0, Len(none)) /\ n + k = Len(int) + Len(none) + 0
  <2>1. Len(none) = 0
    OBVIOUS
  <2>2. room \in Nat /\ room + 1 <= PlainCap
    BY <1>2
  <2> DEFINE a == Len(none)
             b == Len(int)
  <2>3. a = 0 /\ b = n + k
    BY <1>7, <2>1
  <2> HIDE DEF a, b
  <2>4. a \in Int /\ b \in Int
    BY <1>2, <2>3
  <2>5. 0 + a = 0
    BY <2>3, <2>4
  <2>6. n + k = b + a + 0
    BY <1>2, <2>3, <2>4
  <2> QED
    BY <2>2, <2>5, <2>6 DEF a, b, Cancels
<1>12. PlainBody = Piece(room, int)
  BY <1>4, <1>6
<1>13. Len(int) > 1 => int[1] # 0
  BY <1>6, <1>7
<1> DEFINE flag == FALSE
           most == n + k
           low0 == 0
<1>14. flag \in BOOLEAN /\ (flag <=> none # <<>>) /\ most = Len(int) + Len(none) + (IF flag THEN 1 ELSE 0)
       /\ Plainly(int, flag, int, none) /\ Cancels(low0, Len(none)) /\ Nearest(ValueOf(int \o none, 10), low0) = bits
  BY <1>9, <1>10, <1>11
<1> HIDE DEF flag, most, low0, none, int, room
<1>15. PlainParts(room, int, flag, int, none, low0, most)
  BY <1>11, <1>12, <1>13, <1>14, Zenon DEF PlainParts
<1>16. Notes(Plain(negative), negative, FALSE, most)
  BY <1>15, PlainNotes, Zenon
<1> QED
  BY <1>5, <1>16 DEF most

LEMMA DigitsSplit ==
  ASSUME NEW w \in Seq(Digits), NEW m \in 0 .. Len(w), NEW n, n = Len(w)
  PROVE  Splits(SubSeq(w, 1, m), SubSeq(w, m + 1, n), w, m, Digits)
BY Split

LEMMA PlainMixed ==
  ASSUME Figured, NEW negative \in BOOLEAN, k < 0, DecimalLen(sig) + k > 0
  PROVE  Notes(Plain(negative), negative, FALSE, PlainLen)
<1> DEFINE d == Digs
           n == DecimalLen(sig)
           m == n + k
           int == SubSeq(d, 1, m)
           frac == SubSeq(d, m + 1, n)
           pt == <<Point>>
           text == (int \o pt) \o frac
           room == n + 2
           flag == TRUE
           most == n + 1
<1>1. Shown(d, n)
  BY DigitsShown
<1>2. /\ n \in Nat \ {0} /\ n <= MaxDigits /\ k \in Int /\ -MaxDigits <= k /\ MaxDigits \in Nat
      /\ PlainCap \in Nat /\ 2 * MaxDigits + 4 <= PlainCap /\ k < 0 /\ m > 0
  BY Measures
<1>3. PlainLen = most
  BY <1>2 DEF PlainLen
<1>4. Len(d) = n /\ d \in Seq(Digits) /\ d[1] # 0 /\ ValueOf(d, 10) = sig
  BY <1>1 DEF Shown
<1>5. PlainBody = Piece(room, text)
  <2>1. k < 0 /\ Len(d) + k > 0 /\ ~(k >= 0)
    BY <1>2, <1>4
  <2>2. PlainBody = Piece(Len(d) + 2, SubSeq(d, 1, Len(d) + k) \o <<Point>> \o SubSeq(d, (Len(d) + k) + 1, Len(d)))
    BY <2>1 DEF PlainBody
  <2> QED
    BY <1>4, <2>2
<1> HIDE DEF d, n
<1>6. m \in 0 .. Len(d) /\ m \in Nat /\ n - m = -k /\ n - m \in Nat
  BY <1>2, <1>4
<1> HIDE DEF m
<1>7. Splits(int, frac, d, m, Digits)
  BY <1>4, <1>6, DigitsSplit
<1> HIDE DEF int, frac, text, pt
<1>8. /\ int \in Seq(Digits) /\ frac \in Seq(Digits) /\ Len(int) = m /\ Len(frac) = n - m
      /\ int[1] = d[1] /\ int \o frac = d
  <2>1. 1 \in 1 .. m
    BY <1>2, <1>6
  <2> QED
    BY <1>4, <1>7, <2>1 DEF Splits
<1>9. Plainly(text, flag, int, frac)
  <2>1. int \in Seq(Nat) /\ frac \in Seq(Nat) /\ pt \in Seq(Nat)
    <3>1. Digits \subseteq Nat
      BY DEF Digits
    <3>2. int \in Seq(Nat) /\ frac \in Seq(Nat)
      BY <1>8, <3>1, SeqMonotonic
    <3>3. pt \in Seq(Nat)
      BY DEF pt, Point
    <3> QED
      BY <3>2, <3>3
  <2>2. text = int \o (pt \o frac)
    BY <2>1, Grouping, Zenon DEF text
  <2>3. PointIf(flag) = pt
    BY DEF PointIf, pt
  <2>4. Len(int) > 0
    BY <1>2, <1>6, <1>8
  <2> QED
    BY <1>8, <2>2, <2>3, <2>4, Zenon DEF Plainly
<1>10. frac # <<>> /\ Cancels(k, Len(frac))
  <2>1. Len(frac) > 0 /\ k + Len(frac) = 0
    BY <1>2, <1>6, <1>8
  <2> QED
    BY <1>2, <2>1 DEF Cancels
<1>11. Nearest(ValueOf(int \o frac, 10), k) = bits
  BY <1>4, <1>8 DEF Figured
<1>12. most = Len(int) + Len(frac) + (IF flag THEN 1 ELSE 0)
  <2>1. Len(int) + Len(frac) = n
    BY <1>2, <1>6, <1>8
  <2> QED
    BY <2>1
<1>13. room \in Nat /\ room + 1 <= PlainCap /\ flag \in BOOLEAN /\ (flag <=> frac # <<>>)
  BY <1>2, <1>10
<1>14. Len(int) > 1 => int[1] # 0
  BY <1>4, <1>8
<1> HIDE DEF flag, most, room
<1>15. PlainParts(room, text, flag, int, frac, k, most)
  BY <1>5, <1>9, <1>10, <1>11, <1>12, <1>13, <1>14, Zenon DEF PlainParts
<1>16. Notes(Plain(negative), negative, FALSE, most)
  BY <1>15, PlainNotes, Zenon
<1> QED
  BY <1>3, <1>16, Zenon

LEMMA PlainFraction ==
  ASSUME Figured, NEW negative \in BOOLEAN, k < 0, ~(DecimalLen(sig) + k > 0)
  PROVE  Notes(Plain(negative), negative, FALSE, PlainLen)
<1> DEFINE d == Digs
           n == DecimalLen(sig)
           m == -(n + k)
           z == Zeros(m)
           int == <<0>>
           pt == <<Point>>
           frac == z \o d
           both == <<0, Point>>
           text == (both \o z) \o d
           room == 3 - k
           flag == TRUE
           most == 2 - k
<1>1. Shown(d, n)
  BY DigitsShown
<1>2. /\ n \in Nat \ {0} /\ n <= MaxDigits /\ k \in Int /\ -MaxDigits <= k /\ MaxDigits \in Nat
      /\ PlainCap \in Nat /\ 2 * MaxDigits + 4 <= PlainCap /\ k < 0 /\ ~(n + k > 0)
  BY Measures
<1>3. PlainLen = most
  BY <1>2 DEF PlainLen
<1>4. Len(d) = n /\ d \in Seq(Digits) /\ d \in Seq(Nat) /\ d[1] # 0 /\ ValueOf(d, 10) = sig
  BY <1>1 DEF Shown
<1>5. m \in Nat /\ m + n = -k
  BY <1>2
<1>6. PlainBody = Piece(room, text)
  <2> DEFINE split == Len(d) + k
  <2>1. ~(k < 0 /\ split > 0) /\ ~(k >= 0)
    BY <1>2, <1>4
  <2>2. PlainBody = Piece(3 - split + Len(d), <<0, Point>> \o Zeros(-split) \o d)
    BY <2>1 DEF PlainBody
  <2>3. -split = m /\ 3 - split + Len(d) = room
    BY <1>2, <1>4
  <2> HIDE DEF split
  <2> QED
    BY <2>2, <2>3
<1> HIDE DEF d, n, m
<1>7. /\ z \in Seq(Digits) /\ z \in Seq(Nat) /\ Len(z) = m /\ \A i \in 1 .. Len(z) : z[i] = 0
  BY <1>5, ZerosAre
<1> HIDE DEF z
<1>8. frac \in Seq(Digits) /\ frac \in Seq(Nat) /\ Len(frac) = m + n
  <2>1. frac \in Seq(Digits) /\ Len(frac) = m + n
    BY <1>4, <1>5, <1>7
  <2>2. frac \in Seq(Nat)
    BY <1>4, <1>7, Joining, Zenon
  <2> QED
    BY <2>1, <2>2
<1>9. text = int \o (pt \o frac)
  <2>1. both = int \o pt /\ int \in Seq(Nat) /\ pt \in Seq(Nat)
    BY DEF Point
  <2> HIDE DEF both, int, pt
  <2>2. both \in Seq(Nat)
    BY <2>1, Joining, Zenon
  <2>3. (both \o z) \o d = both \o (z \o d)
    BY <1>4, <1>7, <2>2, Grouping, Zenon
  <2>4. (int \o pt) \o frac = int \o (pt \o frac)
    <3> HIDE DEF frac
    <3> QED
      BY <1>8, <2>1, Grouping, Zenon
  <2> QED
    BY <2>1, <2>3, <2>4, Zenon
<1>10. int \in Seq(Digits) /\ Len(int) = 1 /\ int[1] = 0
  BY DEF Digits
<1>11. ValueOf(int \o frac, 10) = sig
  <2> DEFINE ten == 10
  <2>1. ten \in Nat /\ int \in Seq(Nat) /\ \A i \in 1 .. Len(int) : int[i] = 0
    OBVIOUS
  <2>2. ValueOf(d, ten) = sig
    BY <1>4
  <2> HIDE DEF ten, int
  <2>3. ValueOf(z \o d, ten) = ValueOf(d, ten)
    BY <1>4, <1>7, <2>1, LeadingZeros, Zenon
  <2> HIDE DEF frac
  <2>4. ValueOf(int \o frac, ten) = ValueOf(frac, ten)
    BY <1>8, <2>1, LeadingZeros, Zenon
  <2> QED
    BY <2>2, <2>3, <2>4, Zenon DEF frac, ten
<1> HIDE DEF int, frac, pt
<1>12. Plainly(text, flag, int, frac)
  <2>1. PointIf(flag) = pt
    BY DEF PointIf, pt
  <2>2. Len(int) > 0
    BY <1>10
  <2> HIDE DEF text
  <2> QED
    BY <1>8, <1>9, <1>10, <2>1, <2>2, Zenon DEF Plainly
<1>13. frac # <<>> /\ Cancels(k, Len(frac))
  <2>1. Len(frac) > 0 /\ k + Len(frac) = 0
    BY <1>2, <1>5, <1>8
  <2> QED
    BY <1>2, <2>1 DEF Cancels
<1>14. Nearest(ValueOf(int \o frac, 10), k) = bits
  BY <1>11 DEF Figured
<1>15. most = Len(int) + Len(frac) + (IF flag THEN 1 ELSE 0)
  <2>1. Len(int) + Len(frac) = 1 - k
    BY <1>2, <1>5, <1>8, <1>10
  <2> QED
    BY <1>2, <2>1
<1>16. room \in Nat /\ room + 1 <= PlainCap /\ flag \in BOOLEAN /\ (flag <=> frac # <<>>)
  BY <1>2, <1>13
<1>17. Len(int) > 1 => int[1] # 0
  BY <1>10
<1> HIDE DEF flag, most, room, text
<1>18. PlainParts(room, text, flag, int, frac, k, most)
  BY <1>6, <1>12, <1>13, <1>14, <1>15, <1>16, <1>17, Zenon DEF PlainParts
<1>19. Notes(Plain(negative), negative, FALSE, most)
  BY <1>18, PlainNotes, Zenon
<1> QED
  BY <1>3, <1>19, Zenon

LEMMA PlainIs ==
  ASSUME Figured, NEW negative \in BOOLEAN
  PROVE  Notes(Plain(negative), negative, FALSE, PlainLen)
<1>1. k \in Int /\ DecimalLen(sig) \in Nat
  BY Measures
<1>2. CASE k >= 0
  BY <1>2, PlainIntegral
<1>3. CASE k < 0 /\ DecimalLen(sig) + k > 0
  BY <1>3, PlainMixed
<1>4. CASE k < 0 /\ ~(DecimalLen(sig) + k > 0)
  BY <1>4, PlainFraction
<1>5. k >= 0 \/ (k < 0 /\ DecimalLen(sig) + k > 0) \/ (k < 0 /\ ~(DecimalLen(sig) + k > 0))
  BY <1>1
<1> QED
  BY <1>2, <1>3, <1>4, <1>5, Zenon

\* An exponent is spelled in the digits it has.
Exponented(x, e, c) == /\ x \in Seq(Digits) /\ x \in Seq(Nat) /\ Len(x) = c /\ c \in Nat \ {0}
                       /\ ValueOf(x, ExpBase) = e

LEMMA ExponentSpelled ==
  ASSUME NEW e \in Nat, e <= 2 * MaxDigits
  PROVE  Exponented(Spelled(e, ExpBase, Width(e)), e, Width(e))
<1> DEFINE c == Width(e)
           x == Spelled(e, ExpBase, c)
<1>1. ExpBase \in Nat \ {0, 1} /\ ExpBase <= 10 /\ MaxExpWidth \in Nat /\ PowersUpTo(ExpBase, MaxExpWidth)
      /\ 2 * MaxDigits < ExpBase ^ MaxExpWidth /\ MaxDigits \in Nat \ {0}
  BY ExpBaseAssumption, CapAssumption, Sizes
<1>2. MaxExpWidth # 0
  <2> SUFFICES ASSUME MaxExpWidth = 0 PROVE FALSE
    OBVIOUS
  <2>1. ExpBase ^ 0 = 1
    BY <1>1 DEF PowersUpTo
  <2>2. 2 * MaxDigits < ExpBase ^ 0
    BY <1>1
  <2> QED
    BY <1>1, <2>1, <2>2
<1>3. e < ExpBase ^ MaxExpWidth
  <2>1. ExpBase ^ MaxExpWidth \in Nat
    <3>1. MaxExpWidth \in 0 .. MaxExpWidth
      BY <1>1
    <3> QED
      BY <1>1, <3>1, PowerType
  <2> QED
    BY <1>1, <2>1
<1>4. c \in 1 .. MaxExpWidth /\ e < ExpBase ^ c
  <2>1. \E j \in 1 .. MaxExpWidth : e < ExpBase ^ j /\ (j > 1 => ExpBase ^ (j - 1) <= e)
    BY <1>1, <1>2, <1>3, LeastPower
  <2> QED
    BY <2>1, Zenon DEF Width
<1> HIDE DEF c
<1>5. PowersUpTo(ExpBase, c) /\ c \in Nat \ {0} /\ c \in Nat
  BY <1>1, <1>4 DEF PowersUpTo
<1>6. ValueOf(x, ExpBase) = e
  BY <1>1, <1>4, <1>5, SpelledValue
<1>7. x \in Seq(0 .. ExpBase - 1) /\ x \in Seq(Nat) /\ Len(x) = c
  BY <1>1, <1>5, SpelledType
<1>8. x \in Seq(Digits)
  <2>1. 0 .. ExpBase - 1 \subseteq Digits
    BY <1>1 DEF Digits
  <2> HIDE DEF x
  <2> QED
    BY <1>7, <2>1, SeqMonotonic
<1> QED
  BY <1>5, <1>6, <1>7, <1>8 DEF Exponented, c

\* The first digit, and the others behind it.
Headed(w, n) == /\ Tail(w) \in Seq(Digits) /\ Tail(w) \in Seq(Nat) /\ Len(Tail(w)) = n - 1
                /\ <<w[1]>> \o Tail(w) = w

LEMMA HeadTail ==
  ASSUME NEW w \in Seq(Digits), NEW n \in Nat \ {0}, Len(w) = n
  PROVE  Headed(w, n)
<1> DEFINE a == SubSeq(w, 1, 1)
           b == SubSeq(w, 2, n)
           m == 1
<1>1. w # <<>>
  BY EmptySeq
<1>2. Tail(w) = b
  BY <1>1, TailIsSubSeq
<1>3. Splits(a, b, w, m, Digits)
  <2>1. Splits(SubSeq(w, 1, m), SubSeq(w, m + 1, n), w, m, Digits)
    <3>1. m \in 0 .. Len(w) /\ n = Len(w)
      OBVIOUS
    <3> HIDE DEF m
    <3> QED
      BY <3>1, DigitsSplit, Zenon
  <2> QED
    BY <2>1
<1> HIDE DEF a, b
<1>4. /\ a \in Seq(Digits) /\ b \in Seq(Digits) /\ Len(a) = 1 /\ Len(b) = n - 1 /\ a[1] = w[1] /\ a \o b = w
  BY <1>3 DEF Splits, m
<1>5. a = <<w[1]>>
  BY <1>4
<1>6. b \in Seq(Nat)
  <2>1. Digits \subseteq Nat
    BY DEF Digits
  <2> QED
    BY <1>4, <2>1, SeqMonotonic
<1> QED
  BY <1>2, <1>4, <1>5, <1>6 DEF Headed

LEMMA SciIs ==
  ASSUME Figured, NEW negative \in BOOLEAN
  PROVE  Notes(Sci(negative), negative, TRUE, SciLen)
<1> DEFINE d == Digs
           n == DecimalLen(sig)
           e == k + n - 1
           c == Width(Abs(e))
           x == Spelled(Abs(e), ExpBase, c)
           flag == n > 1
           pt == If(n > 1, <<Point>>)
           frac == Tail(d)
           int == <<d[1]>>
           es == If(e < 0, <<Minus>>)
           ee == <<Exp>>
           text == (int \o (pt \o frac)) \o ((ee \o es) \o x)
           room == n + 9
           most == n + (IF n > 1 THEN 1 ELSE 0) + 1 + (IF e < 0 THEN 1 ELSE 0) + c
<1>1. Shown(d, n)
  BY DigitsShown
<1>2. /\ n \in Nat \ {0} /\ n <= MaxDigits /\ k \in Int /\ -MaxDigits <= k /\ k < MaxDigits
      /\ MaxDigits \in Nat /\ SciCap \in Nat /\ n + 10 <= SciCap
  BY Measures
<1>3. /\ Len(d) = n /\ d \in Seq(Digits) /\ d \in Seq(Nat) /\ d[1] # 0 /\ d[1] \in Digits
      /\ ValueOf(d, 10) = sig
  BY <1>1 DEF Shown
<1>4. SciLen = most
  BY DEF SciLen
<1>5. Sci(negative) = Written(Sign(negative) \o <<Piece(room, text)>>, SciCap)
  <2>1. SciText = text
    BY <1>3 DEF SciText
  <2> QED
    BY <1>3, <2>1 DEF Sci
<1> HIDE DEF d, n
<1>6. Headed(d, n)
  BY <1>2, <1>3, HeadTail
<1>7. e \in Int /\ Abs(e) \in Nat /\ Abs(e) <= 2 * MaxDigits /\ Abs(e) = IF e < 0 THEN -e ELSE e
  BY <1>2 DEF Abs
<1>8. Exponented(x, Abs(e), c)
  BY <1>7, ExponentSpelled
<1>9. /\ x \in Seq(Digits) /\ x \in Seq(Nat) /\ Len(x) = c /\ c \in Nat \ {0} /\ ValueOf(x, ExpBase) = Abs(e)
  BY <1>8 DEF Exponented
<1>10. /\ frac \in Seq(Digits) /\ frac \in Seq(Nat) /\ Len(frac) = n - 1 /\ int \o frac = d
  BY <1>6 DEF Headed
<1>11. /\ int \in Seq(Digits) /\ int \in Seq(Nat) /\ Len(int) = 1 /\ int[1] = d[1]
  BY <1>3 DEF Digits
<1>12. pt = PointIf(flag) /\ pt \in Seq(Nat) /\ Len(pt) = IF n > 1 THEN 1 ELSE 0
  BY DEF If, PointIf, Point
<1>13. /\ es \in {<<>>, <<Minus>>, <<Plus>>} /\ es \in Seq(Nat) /\ Len(es) = IF e < 0 THEN 1 ELSE 0
       /\ (IF Negative(es) THEN -1 ELSE 1) = IF e < 0 THEN -1 ELSE 1
  BY DEF If, Minus, Negative
<1>14. ee \in Seq(Nat) /\ Len(ee) = 1 /\ ee = <<Exp>>
  BY DEF Exp
<1> HIDE DEF c, x, pt, frac, int, es, ee, e
<1>15. pt \o frac \in Seq(Nat) /\ Len(pt \o frac) = Len(pt) + Len(frac)
  BY <1>10, <1>12, Joining, Zenon
<1>16. int \o (pt \o frac) \in Seq(Nat) /\ Len(int \o (pt \o frac)) = Len(int) + Len(pt \o frac)
  BY <1>11, <1>15, Joining, Zenon
<1>17. es \o x \in Seq(Nat) /\ Len(es \o x) = Len(es) + Len(x)
  BY <1>9, <1>13, Joining, Zenon
<1>18. ee \o (es \o x) \in Seq(Nat) /\ Len(ee \o (es \o x)) = Len(ee) + Len(es \o x)
  BY <1>14, <1>17, Joining, Zenon
<1>19. text = (int \o (pt \o frac)) \o (ee \o (es \o x))
  <2>1. (ee \o es) \o x = ee \o (es \o x)
    BY <1>9, <1>13, <1>14, Grouping, Zenon
  <2> QED
    BY <2>1, Zenon
<1> HIDE DEF text
<1>20. text \in Seq(Nat) /\ Len(text) = most
  <2>1. text \in Seq(Nat) /\ Len(text) = Len(int \o (pt \o frac)) + Len(ee \o (es \o x))
    BY <1>16, <1>18, <1>19, Joining, Zenon
  <2>2. Len(text) = (Len(int) + (Len(pt) + Len(frac))) + (Len(ee) + (Len(es) + Len(x)))
    BY <1>15, <1>16, <1>17, <1>18, <2>1, Zenon
  <2> DEFINE l2 == Len(pt)
             l5 == Len(es)
  <2>3. Len(text) = (1 + (l2 + (n - 1))) + (1 + (l5 + c))
    BY <1>9, <1>10, <1>11, <1>14, <2>2, Zenon
  <2>4. l2 = (IF n > 1 THEN 1 ELSE 0) /\ l5 = IF e < 0 THEN 1 ELSE 0
    BY <1>12, <1>13
  <2> HIDE DEF l2, l5
  <2>5. (1 + (l2 + (n - 1))) + (1 + (l5 + c)) = most
    BY <1>2, <1>7, <1>9, <2>4
  <2> QED
    BY <2>1, <2>3, <2>5, Zenon
<1> DEFINE none == <<>>
<1>21. Parcel(text, flag, none, int, frac, es, x)
  <2>1. int \in Seq(Figures) /\ frac \in Seq(Figures)
    <3>1. Digits \subseteq Figures
      BY DEF Digits, Figures, Space, Exp, X
    <3> QED
      BY <1>10, <1>11, <3>1, SeqMonotonic
  <2>2. int[1] \in Digits /\ Len(int) > 0 /\ Len(x) > 0
    BY <1>3, <1>9, <1>11
  <2>3. ~flag => frac = <<>>
    <3>1. ~flag => Len(frac) = 0
      BY <1>2, <1>10
    <3> HIDE DEF flag
    <3> QED
      BY <1>10, <3>1, EmptySeq
  <2>4. none \o (int \o (pt \o frac)) = int \o (pt \o frac)
    <3> DEFINE w == int \o (pt \o frac)
    <3>1. w \in Seq(Nat)
      BY <1>16
    <3> HIDE DEF w
    <3>2. none \o w = w
      BY <3>1, ConcatEmptySeq
    <3> QED
      BY <3>2 DEF w
  <2>5. none \in {<<>>, <<0, X>>}
    OBVIOUS
  <2>6. text = (none \o (int \o (PointIf(flag) \o frac))) \o (<<Exp>> \o (es \o x))
    BY <1>12, <1>14, <1>19, <2>4, Zenon
  <2> HIDE DEF none, flag
  <2> QED
    BY <1>9, <1>13, <2>1, <2>2, <2>3, <2>5, <2>6, Zenon DEF Parcel
<1>22. flag \in BOOLEAN /\ (flag <=> frac # <<>>)
  <2>1. flag <=> Len(frac) # 0
    BY <1>2, <1>10
  <2>2. Len(frac) # 0 <=> frac # <<>>
    BY <1>10, EmptySeq
  <2> QED
    BY <2>1, <2>2
<1>23. Shows(text, flag, TRUE, <<>>, int, frac, es, x)
  <2> HIDE DEF flag, none
  <2>1. Shows(text, flag, TRUE, none, int, frac, es, x)
    BY <1>21, <1>22, ShowsScientific, Zenon
  <2> QED
    BY <2>1 DEF none
<1>24. Nearest(ValueOf(int \o frac, 10), ValueOf(x, ExpBase) * (IF Negative(es) THEN -1 ELSE 1) - Len(frac)) = bits
  <2> DEFINE p == ValueOf(x, ExpBase) * (IF Negative(es) THEN -1 ELSE 1) - Len(frac)
  <2>1. p = k
    <3>1. p = Abs(e) * (IF e < 0 THEN -1 ELSE 1) - (n - 1)
      BY <1>9, <1>10, <1>13
    <3>2. Abs(e) * (IF e < 0 THEN -1 ELSE 1) = e
      BY <1>7
    <3>3. e = k + n - 1
      BY DEF e
    <3> HIDE DEF p
    <3> QED
      BY <1>2, <3>1, <3>2, <3>3
  <2>2. Nearest(ValueOf(int \o frac, 10), k) = bits
    BY <1>3, <1>10 DEF Figured
  <2> HIDE DEF p
  <2>3. Nearest(ValueOf(int \o frac, 10), p) = bits
    BY <2>1, <2>2, Zenon
  <2> QED
    BY <2>3 DEF p
<1>25. x # <<>> /\ (Len(int) > 1 => int[1] # 0)
  BY <1>3, <1>9, <1>11
<1> HIDE DEF flag, room
<1>26. Spells(text, flag, TRUE, int, frac, es, x)
  <2>1. x = <<>> <=> ~TRUE
    BY <1>25
  <2> QED
    BY <1>20, <1>22, <1>23, <1>24, <1>25, <2>1, Zenon DEF Spells
<1>27. Sci(negative).status = "OK" /\ Sci(negative).text = SignOf(negative) \o text
  <2>1. room \in Nat /\ room + 1 <= SciCap
    BY <1>2 DEF room
  <2>2. /\ Written(Sign(negative) \o <<Piece(room, text)>>, SciCap).status = "OK"
        /\ Written(Sign(negative) \o <<Piece(room, text)>>, SciCap).text = SignOf(negative) \o text
    BY <1>2, <1>20, <2>1, Alone, ZenonT(60)
  <2> QED
    BY <1>5, <2>2, Zenon
<1> HIDE DEF most
<1>28. Notes(Sci(negative), negative, TRUE, most)
  BY <1>20, <1>26, <1>27, Zenon DEF Notes
<1> QED
  BY <1>4, <1>28, Zenon

---------------------------------------------------------------------------
(* What is in the buffer *)

OutInv == out # Nothing =>
  pc = "done" /\ \E negative \in BOOLEAN, cap \in Caps : out = Out(Answer(negative, cap), negative, cap)

LEMMA AnswerSame ==
  ASSUME UNCHANGED vars, NEW negative, NEW cap
  PROVE  Answer(negative, cap)' = Answer(negative, cap)
<1>1. UNCHANGED <<bits, sig, k>>
  BY DEF vars
<1>2. Digs' = Digs
  BY <1>1 DEF Digs
<1>3. PlainBody' = PlainBody /\ SciText' = SciText
  BY <1>1, <1>2 DEF PlainBody, SciText
<1>4. Plain(negative)' = Plain(negative) /\ Sci(negative)' = Sci(negative)
  BY <1>2, <1>3 DEF Plain, Sci, Sign
<1>5. Formatted(negative, cap)' = Formatted(negative, cap)
  BY <1>4 DEF Formatted
<1> QED
  BY <1>1, <1>5 DEF Answer, Sign

(***************************************************************************)
(* What is in the buffer is the answer for the digits found, in the sign   *)
(* and the buffer it was asked for; the search is over by then.            *)
(***************************************************************************)
THEOREM TextInvariance == TSpec => []OutInv
<1>1. TInit => OutInv
  BY DEF TInit, OutInv
<1>2. OutInv /\ [TNext]_<<vars, out>> => OutInv'
  <2> SUFFICES ASSUME OutInv, [TNext]_<<vars, out>> PROVE OutInv'
    OBVIOUS
  <2>1. CASE Search
    <3>1. pc # "done" /\ out' = out
      BY <2>1 DEF Search, Next, Literal, Largest, Interval, Coarse, Found
    <3> QED
      BY <3>1 DEF OutInv
  <2>2. CASE WriteOut
    <3>1. PICK negative \in BOOLEAN, cap \in Caps : out' = Out(Answer(negative, cap), negative, cap)
      BY <2>2 DEF WriteOut
    <3>2. pc = "done" /\ UNCHANGED vars /\ pc' = pc
      BY <2>2 DEF WriteOut, vars
    <3>3. Answer(negative, cap)' = Answer(negative, cap)
      BY <3>2, AnswerSame
    <3>4. out' = Out(Answer(negative, cap), negative, cap)'
      BY <3>1, <3>3 DEF Out
    <3> QED
      BY <3>2, <3>4 DEF OutInv
  <2>3. CASE UNCHANGED <<vars, out>>
    <3>1. UNCHANGED vars /\ out' = out /\ pc' = pc
      BY <2>3 DEF vars
    <3> SUFFICES ASSUME out # Nothing PROVE OutInv'
      BY <3>1 DEF OutInv, Nothing
    <3>2. PICK negative \in BOOLEAN, cap \in Caps : out = Out(Answer(negative, cap), negative, cap)
      BY DEF OutInv
    <3>3. Answer(negative, cap)' = Answer(negative, cap)
      BY <3>1, AnswerSame
    <3>4. out' = Out(Answer(negative, cap), negative, cap)'
      BY <3>1, <3>2, <3>3 DEF Out
    <3>5. pc' = "done"
      BY <3>1 DEF OutInv
    <3> QED
      BY <3>4, <3>5 DEF OutInv
  <2> QED
    BY <2>1, <2>2, <2>3 DEF TNext
<1> QED
  BY <1>1, <1>2, PTL DEF TSpec

\* The shorter notation is chosen, the plain one if both are as long.
LEMMA ShorterIs ==
  ASSUME Figured, NEW negative \in BOOLEAN
  PROVE  /\ Notes(Shorter(Plain(negative), Sci(negative)), negative, ~(PlainLen <= SciLen), LenAsked)
         /\ Plain(negative).status = "OK" /\ Sci(negative).status = "OK"
<1> DEFINE p == Plain(negative)
           s == Sci(negative)
           a == PlainLen
           b == SciLen
           g == SignOf(negative)
<1>1. Notes(p, negative, FALSE, a) /\ Notes(s, negative, TRUE, b)
  BY PlainIs, SciIs
<1>2. ASSUME NEW w, NEW h, NEW n, Notes(w, negative, h, n)
      PROVE  w.status = "OK" /\ n \in Nat /\ Len(w.text) = Len(g) + n
  <2>1. PICK text, pointed, int, frac, es, ex :
          /\ Spells(text, pointed, h, int, frac, es, ex)
          /\ w.status = "OK" /\ w.text = g \o text /\ Len(text) = n
    BY <1>2, Zenon DEF Notes
  <2>2. text \in Seq(Nat) /\ Len(text) \in Nat
    <3>1. text \in Seq(Nat)
      BY <2>1 DEF Spells
    <3> QED
      BY <3>1, LenProperties
  <2>3. g \in Seq(Nat)
    BY DEF SignOf, Minus
  <2> HIDE DEF g
  <2>4. Len(g \o text) = Len(g) + Len(text)
    BY <2>2, <2>3, Joining
  <2> QED
    BY <2>1, <2>2, <2>4
<1>3. /\ p.status = "OK" /\ a \in Nat /\ Len(p.text) = Len(g) + a
      /\ s.status = "OK" /\ b \in Nat /\ Len(s.text) = Len(g) + b
  BY <1>1, <1>2
<1>4. Len(g) \in Nat
  BY DEF SignOf
<1>5. Shorter(p, s) = (IF Len(s.text) < Len(p.text) THEN s ELSE p) /\ LenAsked = IF a <= b THEN a ELSE b
  BY DEF Shorter, LenAsked
<1> HIDE DEF p, s, a, b, g
<1>6. Len(s.text) < Len(p.text) <=> ~(a <= b)
  BY <1>3, <1>4
<1>7. CASE a <= b
  <2>1. Shorter(p, s) = p /\ LenAsked = a /\ (~(a <= b)) = FALSE
    BY <1>5, <1>6, <1>7
  <2>2. Notes(Shorter(p, s), negative, ~(a <= b), LenAsked)
    BY <1>1, <2>1, Zenon
  <2> QED
    BY <1>3, <2>2 DEF p, s, a, b
<1>8. CASE ~(a <= b)
  <2>1. Shorter(p, s) = s /\ LenAsked = b /\ (~(a <= b)) = TRUE
    BY <1>5, <1>6, <1>8
  <2>2. Notes(Shorter(p, s), negative, ~(a <= b), LenAsked)
    BY <1>1, <2>1, Zenon
  <2> QED
    BY <1>3, <2>2 DEF p, s, a, b
<1> QED
  BY <1>7, <1>8

(***************************************************************************)
(* The text that ryu64_to_shortest writes reads back as the number it was  *)
(* given, sign included, in the shorter notation and without needless      *)
(* zeros, and it is refused only where the caller's buffer has no room:    *)
(* that the two buffers inside are large enough is part of it.             *)
(***************************************************************************)
THEOREM TextReadsBackAlways == TSpec => []TextReadsBack
<1>1. IInv /\ OutInv => TextReadsBack
  <2> SUFFICES ASSUME IInv, OutInv, out # Nothing, bits \notin Literals
      PROVE LET said == ReadAs(out.text, ExpBase)
                sign == IF out.negative THEN <<Minus>> ELSE <<>>
            IN  IF Len(sign) + LenAsked + 1 > out.cap
                THEN out.status = "BUFFER_TOO_SMALL" /\ out.text = <<>>
                ELSE /\ out.status = "OK" /\ Len(out.text) = Len(sign) + LenAsked
                     /\ said.sign = sign
                     /\ Nearest(ValueOf(said.int \o said.frac, 10), said.power - Len(said.frac)) = bits
                     /\ said.exp = <<>> <=> PlainLen <= SciLen
                     /\ Len(said.int) > 1 => said.int[1] # 0
                     /\ said.pointed <=> said.frac # <<>>
    BY Zenon DEF TextReadsBack
  <2>1. PICK negative \in BOOLEAN, cap \in Caps : out = Out(Answer(negative, cap), negative, cap)
    BY DEF OutInv
  <2> DEFINE w == Shorter(Plain(negative), Sci(negative))
             g == SignOf(negative)
             l == LenAsked
             h == ~(PlainLen <= SciLen)
  <2>2. Figured
    BY Sized DEF OutInv, HasDigits
  <2>3. Notes(w, negative, h, l) /\ Plain(negative).status = "OK" /\ Sci(negative).status = "OK"
    BY <2>2, ShorterIs
  <2>4. Answer(negative, cap) = Copied(w, cap)
    <3>1. bits # 0 /\ bits # InfBits /\ bits # NanBits
      BY DEF Literals
    <3>2. Answer(negative, cap) = Formatted(negative, cap)
      BY <3>1 DEF Answer
    <3> QED
      BY <2>3, <3>2 DEF Formatted
  <2>5. out.negative = negative /\ out.cap = cap /\ out.status = Copied(w, cap).status /\ out.text = Copied(w, cap).text
    <3> HIDE DEF w
    <3> QED
      BY <2>1, <2>4 DEF Out
  <2>6. cap \in Nat
    BY CapAssumption
  <2> HIDE DEF w, l, h
  <2>7. PICK text, pointed, int, frac, es, ex :
          /\ Spells(text, pointed, h, int, frac, es, ex)
          /\ w.status = "OK" /\ w.text = g \o text /\ Len(text) = l
    BY <2>3, Zenon DEF Notes
  <2>8. /\ Shows(text, pointed, h, <<>>, int, frac, es, ex)
        /\ text \in Seq(Nat) /\ pointed \in BOOLEAN /\ (pointed <=> frac # <<>>)
        /\ Len(int) > 1 => int[1] # 0
        /\ ex = <<>> <=> ~h
        /\ Nearest(ValueOf(int \o frac, 10),
                   ValueOf(ex, ExpBase) * (IF Negative(es) THEN -1 ELSE 1) - Len(frac)) = bits
    BY <2>7, Zenon DEF Spells
  <2>9. g = (IF out.negative THEN <<Minus>> ELSE <<>>) /\ g \in Seq(Nat) /\ g \in SignTexts
    BY <2>5 DEF SignOf, Minus, SignTexts
  <2> HIDE DEF g
  <2>10. Len(w.text) = Len(g) + l /\ Len(g) + l \in Nat
    <3>1. Len(g \o text) = Len(g) + Len(text) /\ Len(g) \in Nat /\ Len(text) \in Nat
      BY <2>8, <2>9, Joining, LenProperties
    <3> QED
      BY <2>7, <3>1
  <2>11. CASE Len(g) + l + 1 > cap
    <3>1. ~(Len(w.text) + 1 <= cap)
      BY <2>6, <2>10, <2>11
    <3>2. Copied(w, cap) = Refusal
      BY <3>1, Zenon DEF Copied
    <3>3. out.status = "BUFFER_TOO_SMALL" /\ out.text = <<>>
      BY <2>5, <3>2 DEF Refusal
    <3> QED
      BY <2>5, <2>9, <2>11, <3>3, Zenon DEF l
  <2>12. CASE ~(Len(g) + l + 1 > cap)
    <3>1. Len(w.text) + 1 <= cap
      BY <2>6, <2>10, <2>12
    <3>2. Copied(w, cap) = w
      BY <3>1, Zenon DEF Copied
    <3>3. out.status = "OK" /\ out.text = g \o text /\ Len(out.text) = Len(g) + l
      BY <2>5, <2>7, <2>10, <3>2, Zenon
    <3> DEFINE said == ReadAs(out.text, ExpBase)
               p == ValueOf(ex, ExpBase) * (IF Negative(es) THEN -1 ELSE 1)
    <3>4. ReadAs(g \o text, ExpBase) = [sign |-> g, int |-> int, frac |-> frac, exp |-> ex, power |-> p,
                                        pointed |-> pointed]
      <4> DEFINE none == <<>>
      <4>1. h \in BOOLEAN /\ Shows(text, pointed, h, none, int, frac, es, ex)
        BY <2>8 DEF h
      <4> HIDE DEF none
      <4> QED
        BY <2>8, <2>9, <4>1, ShownRead
    <3> HIDE DEF p
    <3>5. said = [sign |-> g, int |-> int, frac |-> frac, exp |-> ex, power |-> p, pointed |-> pointed]
      BY <3>3, <3>4, Zenon
    <3> HIDE DEF said
    <3>6. /\ said.sign = g /\ said.int = int /\ said.frac = frac /\ said.exp = ex /\ said.power = p
          /\ said.pointed = pointed
      BY <3>5
    <3>7. Nearest(ValueOf(said.int \o said.frac, 10), said.power - Len(said.frac)) = bits
      BY <2>8, <3>6, Zenon DEF p
    <3>8. said.exp = <<>> <=> PlainLen <= SciLen
      BY <2>8, <3>6, Zenon DEF h
    <3>9. /\ Len(said.int) > 1 => said.int[1] # 0
          /\ said.pointed <=> said.frac # <<>>
      BY <2>8, <3>6, Zenon
    <3> QED
      BY <2>5, <2>9, <2>12, <3>3, <3>6, <3>7, <3>8, <3>9, Zenon DEF l, said
  <2> QED
    BY <2>11, <2>12
<1> QED
  BY <1>1, Invariance, TextInvariance, PTL
=============================================================================
