------------------------- MODULE LongDivision_proof -------------------------
(***************************************************************************)
(* LongDivision rounds to nearest for every operand, every number of       *)
(* fraction bits and every capacity of the bigint, and RatioSearch brings  *)
(* every ratio of two bigints into the range it divides.                   *)
(*                                                                         *)
(* The argument for the division is one equation, Divided: at every turn   *)
(* the quotient found so far times den, plus the remainder, is num shifted *)
(* by as many bits.  Doubling keeps it, and after the last bit it bounds   *)
(* what the rounding may change by half of den.  For the search it is a    *)
(* window, SearchInv: the power of two looked for is from q on and below   *)
(* q + Window, and every probe halves the window.                          *)
(***************************************************************************)
EXTENDS RatioSearch, Texts_proof

\* One doubling: what is below den stays below it, and the next bit is a bit.
LEMMA Doubling ==
  ASSUME NEW r \in Nat, NEW v \in Nat \ {0}, r < v,
         NEW b \in 0 .. 1, b = IF 2 * r >= v THEN 1 ELSE 0
  PROVE  2 * r - b * v \in Nat /\ 2 * r - b * v < v
<1>1. CASE b = 0
  BY <1>1
<1>2. CASE b = 1
  BY <1>2
<1> QED
  BY <1>1, <1>2

\* The equation of Divided survives a doubling: x is num * scale, u the quotient.
LEMMA NextQuotient ==
  ASSUME NEW x \in Nat, NEW u \in Nat, NEW v \in Nat, NEW r \in Nat, NEW b \in 0 .. 1,
         x = u * v + r
  PROVE  2 * x = (2 * u + b) * v + (2 * r - b * v)
<1>1. CASE b = 0
  BY <1>1
<1>2. CASE b = 1
  BY <1>2
<1> QED
  BY <1>1, <1>2

(***************************************************************************)
(* What the guard bit g, the round bit r and the remainder m say of the    *)
(* distance between z and the multiples of v around it.                    *)
(***************************************************************************)
LEMMA Rounding ==
  ASSUME NEW z \in Nat, NEW down \in Nat, NEW v \in Nat \ {0}, NEW m \in Nat, m < v,
         NEW g \in 0 .. 1, NEW r \in 0 .. 1,
         4 * z = (4 * down + 2 * g + r) * v + m,
         NEW near \in Nat,
         near = IF g = 1 /\ (r = 1 \/ m # 0 \/ down % 2 = 1) THEN down + 1 ELSE down
  PROVE  /\ 2 * (near * v) - 2 * z \in -v .. v
         /\ 2 * (near * v) - 2 * z \in {v, -v} => near % 2 = 0
         /\ (g = 1 \/ r = 1 \/ m # 0) <=> near * v # z
<1> DEFINE p == down * v
<1>1. p \in Nat /\ near * v = (IF near = down THEN p ELSE p + v)
  BY SMT
<1>2. 4 * z = 4 * p + (IF g = 1 THEN 2 * v ELSE 0) + (IF r = 1 THEN v ELSE 0) + m
  <2>1. CASE g = 0 /\ r = 0
    BY <2>1
  <2>2. CASE g = 0 /\ r = 1
    BY <2>2
  <2>3. CASE g = 1 /\ r = 0
    BY <2>3
  <2>4. CASE g = 1 /\ r = 1
    BY <2>4
  <2> QED
    BY <2>1, <2>2, <2>3, <2>4
<1> HIDE DEF p
<1> QED
  BY <1>1, <1>2

\* The division starts with nothing divided, and every turn keeps its invariant.
LEMMA DivisionInit == Init => IInv
<1> SUFFICES ASSUME Init PROVE IInv
  OBVIOUS
<1>1. TypeOK
  <2>1. num \in Nat /\ den \in Nat \ {0}
    BY OperandsAssumption DEF Init
  <2>2. i \in 0 .. FracBits /\ rem \in Nat /\ frac \in Nat /\ scale \in Nat \ {0}
    BY FracBitsAssumption DEF Init
  <2>3. guard \in 0 .. 1 /\ roundBit \in 0 .. 1 /\ mant \in Nat
    BY DEF Init
  <2> QED
    BY <2>1, <2>2, <2>3 DEF Init, TypeOK
<1>2. Divided
  BY DEF Init, Divided
<1>3. pc # "done"
  BY DEF Init
<1>4. RoundsToNearest /\ InexactIffLost /\ KeepsWidth
  BY <1>3 DEF RoundsToNearest, InexactIffLost, KeepsWidth
<1> QED
  BY <1>1, <1>2, <1>4 DEF IInv

LEMMA DivisionStep == IInv /\ [Next]_vars => IInv'
<1> SUFFICES ASSUME IInv, [Next]_vars PROVE IInv'
  OBVIOUS
<1> USE FracBitsAssumption
<1>1. CASE Subtract
  <2>1. TypeOK'
    BY <1>1 DEF Subtract, IInv, TypeOK, Divided, operands, answer
  <2>2. num * 1 = (1 + 0) * den + (num - den)
    BY DEF IInv, TypeOK
  <2>3. Divided'
    BY <1>1, <2>2 DEF Subtract, IInv, TypeOK, Divided, operands, answer
  <2> QED
    BY <1>1, <2>1, <2>3 DEF Subtract, IInv, RoundsToNearest, InexactIffLost, KeepsWidth
<1>2. CASE FracStep
  <2>1. TypeOK /\ pc = "frac" /\ pc' = "frac" /\ rem < den /\ frac < scale
    BY <1>2 DEF FracStep, IInv, Divided
  <2>2. NextBit \in 0 .. 1 /\ NextBit = IF 2 * rem >= den THEN 1 ELSE 0
    BY DEF NextBit
  <2>3. rem' \in Nat /\ rem' < den
    BY <1>2, <2>1, <2>2, Doubling DEF FracStep, DoubleRem, TypeOK
  <2>4. TypeOK' /\ frac' < scale'
    BY <1>2, <2>1, <2>2, <2>3 DEF FracStep, TypeOK, operands, answer
  <2>5. num' * scale' = (scale' + frac') * den' + rem'
    <3> DEFINE u == scale + frac
    <3>1. num * scale = u * den + rem /\ num * scale \in Nat /\ u \in Nat
      BY <2>1 DEF IInv, Divided, TypeOK
    <3>2. 2 * (num * scale) = (2 * u + NextBit) * den + (2 * rem - NextBit * den)
      BY <2>1, <2>2, <3>1, NextQuotient DEF TypeOK
    <3>3. num * (2 * scale) = 2 * (num * scale)
      BY <2>1 DEF TypeOK
    <3>4. 2 * u + NextBit = 2 * scale + (2 * frac + NextBit)
      BY <2>1, <2>2 DEF TypeOK
    <3> QED
      BY <1>2, <3>2, <3>3, <3>4 DEF FracStep, DoubleRem, operands
  <2>6. Divided'
    BY <1>2, <2>1, <2>3, <2>4, <2>5 DEF Divided, FracStep, operands
  <2> QED
    BY <2>1, <2>4, <2>6 DEF IInv, RoundsToNearest, InexactIffLost, KeepsWidth
<1>3. CASE GuardStep
  <2>1. TypeOK /\ pc = "frac" /\ pc' = "round" /\ rem < den /\ frac < scale
    BY <1>3 DEF GuardStep, IInv, Divided
  <2>2. NextBit \in 0 .. 1 /\ NextBit = IF 2 * rem >= den THEN 1 ELSE 0
    BY DEF NextBit
  <2>3. rem' \in Nat /\ rem' < den
    BY <1>3, <2>1, <2>2, Doubling DEF GuardStep, DoubleRem, TypeOK
  <2>4. TypeOK'
    BY <1>3, <2>1, <2>2, <2>3 DEF GuardStep, TypeOK, operands, answer
  <2>5. 2 * (num * scale) = (2 * (scale + frac) + NextBit) * den + (2 * rem - NextBit * den)
    <3> DEFINE u == scale + frac
    <3>1. num * scale = u * den + rem /\ num * scale \in Nat /\ u \in Nat
      BY <2>1 DEF IInv, Divided, TypeOK
    <3> QED
      BY <2>1, <2>2, <3>1, NextQuotient DEF TypeOK
  <2>6. Divided'
    BY <1>3, <2>1, <2>3, <2>5 DEF Divided, GuardStep, DoubleRem, operands
  <2> QED
    BY <2>1, <2>4, <2>6 DEF IInv, RoundsToNearest, InexactIffLost, KeepsWidth
<1>4. CASE RoundStep
  <2>1. TypeOK /\ pc = "round" /\ pc' = "finish" /\ rem < den /\ frac < scale
    BY <1>4 DEF RoundStep, IInv, Divided
  <2>2. NextBit \in 0 .. 1 /\ NextBit = IF 2 * rem >= den THEN 1 ELSE 0
    BY DEF NextBit
  <2>3. rem' \in Nat /\ rem' < den
    BY <1>4, <2>1, <2>2, Doubling DEF RoundStep, DoubleRem, TypeOK
  <2>4. TypeOK'
    BY <1>4, <2>1, <2>2, <2>3 DEF RoundStep, TypeOK, operands, answer
  <2>5. 4 * (num * scale)
          = (4 * (scale + frac) + 2 * guard + NextBit) * den + (2 * rem - NextBit * den)
    <3> DEFINE u == 2 * (scale + frac) + guard
               x == 2 * (num * scale)
    <3>1. x = u * den + rem /\ x \in Nat /\ u \in Nat
      BY <2>1 DEF IInv, Divided, TypeOK
    <3>2. 2 * x = (2 * u + NextBit) * den + (2 * rem - NextBit * den)
      BY <2>1, <2>2, <3>1, NextQuotient DEF TypeOK
    <3>3. 2 * u + NextBit = 4 * (scale + frac) + 2 * guard + NextBit
      BY <2>1, <2>2 DEF TypeOK
    <3>4. 2 * x = 4 * (num * scale)
      BY <2>1 DEF TypeOK
    <3> QED
      BY <3>2, <3>3, <3>4
  <2>6. Divided'
    BY <1>4, <2>1, <2>3, <2>5 DEF Divided, RoundStep, DoubleRem, operands
  <2> QED
    BY <2>1, <2>4, <2>6 DEF IInv, RoundsToNearest, InexactIffLost, KeepsWidth
<1>5. CASE OutOfRange
  BY <1>5 DEF OutOfRange, IInv, TypeOK, Divided, RoundsToNearest, InexactIffLost,
              KeepsWidth, operands, answer
<1>6. CASE Round
  <2> DEFINE down == scale + frac
             z == num * scale
  <2>1. TypeOK /\ pc = "finish" /\ pc' = "done" /\ rem < den /\ frac < scale
    BY <1>6 DEF Round, IInv, Divided
  <2>2. z \in Nat /\ down \in Nat /\ Near \in Nat /\ Near >= scale /\ Near <= 2 * scale
    BY <2>1 DEF TypeOK, Near
  <2>3. 4 * z = (4 * down + 2 * guard + roundBit) * den + rem
    BY <2>1 DEF IInv, Divided
  <2>4. Near = IF guard = 1 /\ (roundBit = 1 \/ rem # 0 \/ down % 2 = 1)
                 THEN down + 1 ELSE down
    BY DEF Near
  <2>5. /\ 2 * (Near * den) - 2 * z \in -den .. den
        /\ 2 * (Near * den) - 2 * z \in {den, -den} => Near % 2 = 0
        /\ (guard = 1 \/ roundBit = 1 \/ rem # 0) <=> Near * den # z
    <3> HIDE DEF down, z
    <3> QED
      BY <2>1, <2>2, <2>3, <2>4, Rounding DEF TypeOK
  <2>6. TypeOK'
    BY <1>6, <2>1, <2>2 DEF Round, TypeOK, Lost, operands
  <2>7. Rounded' = Near
    BY <1>6, <2>1, <2>2 DEF Round, Rounded, TypeOK
  <2>8. RoundsToNearest'
    BY <1>6, <2>5, <2>7 DEF Round, RoundsToNearest, operands
  <2>9. InexactIffLost'
    BY <1>6, <2>5, <2>7 DEF Round, InexactIffLost, Lost, operands
  <2>10. KeepsWidth'
    BY <1>6, <2>1, <2>2 DEF Round, KeepsWidth, TypeOK
  <2>11. Divided'
    BY <1>6, <2>1 DEF Round, Divided, operands
  <2> QED
    BY <2>6, <2>8, <2>9, <2>10, <2>11 DEF IInv
<1>7. CASE UNCHANGED vars
  BY <1>7 DEF vars, IInv, TypeOK, Divided, RoundsToNearest, InexactIffLost, KeepsWidth, Rounded
<1> QED
  BY <1>1, <1>2, <1>3, <1>4, <1>5, <1>6, <1>7 DEF Next

\* The division loop of ryu_convert_ratio_to_double keeps the quotient found so far
\* and its remainder exact, for every width and every capacity of the bigint.
THEOREM Invariance == Spec => []IInv
  BY DivisionInit, DivisionStep, PTL DEF Spec

(***************************************************************************)
(* The significand that the division yields is the correctly rounded one.  *)
(***************************************************************************)
THEOREM Correctness == Spec => []RoundsToNearest
<1>1. IInv => RoundsToNearest
  BY DEF IInv
<1> QED
  BY <1>1, Invariance, PTL

(***************************************************************************)
(* INEXACT is reported exactly when the significand is not the quotient.   *)
(***************************************************************************)
THEOREM Exactness == Spec => []InexactIffLost
<1>1. IInv => InexactIffLost
  BY DEF IInv
<1> QED
  BY <1>1, Invariance, PTL

(***************************************************************************)
(* The significand always has the width of the format.                     *)
(***************************************************************************)
THEOREM Width == Spec => []KeepsWidth
<1>1. IInv => KeepsWidth
  BY DEF IInv
<1> QED
  BY <1>1, Invariance, PTL

---------------------------------------------------------------------------
(* The search for the binary exponent.  The lengths in limbs bound it from *)
(* above, and every probe halves the window in which it is looked for.     *)

MaxShift == MaxLimbs * LimbBits
MaxExponent == 2 * MaxShift

LEMMA Shifts ==
  /\ MaxShift \in Nat \ {0} /\ MaxShift <= MaxPosQ /\ MaxShift <= MaxNegQ
  /\ MaxExponent \in Nat /\ MaxExponent = 2 * MaxShift /\ PowersUpTo(2, MaxExponent)
  /\ PowersUpTo(2, 2 * MaxShift) /\ LimbBits \in Nat \ {0}
<1>1. LimbBits # 0
  <2> SUFFICES ASSUME LimbBits = 0 PROVE FALSE
    OBVIOUS
  <2>1. 2 ^ 0 = 1
    BY PowersAssumption DEF PowersUpTo
  <2>2. LimbBase <= 2 ^ 0
    BY LimbAssumption
  <2>. QED  BY <2>1, <2>2, LimbAssumption
<1>2. MaxShift \in Nat \ {0}
  BY <1>1, LimbAssumption DEF MaxShift
<1>. QED  BY <1>1, <1>2, LimbAssumption, SearchAssumption, PowersAssumption DEF MaxShift, MaxExponent

LEMMA ShiftPositive ==
  ASSUME NEW k \in Nat, k <= 2 * MaxShift
  PROVE  2 ^ k \in Nat \ {0}
<1>1. 2 * MaxShift \in Nat /\ k \in 0 .. 2 * MaxShift
  BY Shifts
<1>. QED  BY <1>1, Shifts, PowerPositive

LEMMA ShiftNat ==
  ASSUME NEW x \in Nat, NEW k \in Nat, k <= 2 * MaxShift
  PROVE  x * 2 ^ k \in Nat
<1>1. 2 ^ k \in Nat
  BY ShiftPositive
<1>. QED  BY <1>1

LEMMA ShiftSum ==
  ASSUME NEW x \in Nat, NEW j \in Nat, NEW k \in Nat, j + k <= 2 * MaxShift
  PROVE  (x * 2 ^ j) * 2 ^ k = x * 2 ^ (j + k)
<1>1. j + k <= MaxExponent /\ 2 \in Nat
  BY Shifts
<1>2. 2 ^ (j + k) = 2 ^ j * 2 ^ k
  BY <1>1, Shifts, PowerSum
<1>3. 2 ^ j \in Nat /\ 2 ^ k \in Nat
  <2>1. j <= 2 * MaxShift /\ k <= 2 * MaxShift
    BY Shifts
  <2>. QED  BY <2>1, ShiftPositive
<1>4. \A y, z \in Nat : (x * y) * z = x * (y * z)
  OBVIOUS
<1>. QED  BY <1>2, <1>3, <1>4

LEMMA ShiftOrder ==
  ASSUME NEW x \in Nat, NEW j \in Nat, NEW k \in Nat, j <= k, k <= 2 * MaxShift
  PROVE  x * 2 ^ j <= x * 2 ^ k
<1>1. j \in 0 .. MaxExponent /\ k \in 0 .. MaxExponent /\ 2 \in Nat \ {0}
  BY Shifts
<1>2. 2 ^ j <= 2 ^ k
  BY <1>1, Shifts, PowerOrder
<1>3. 2 ^ j \in Nat /\ 2 ^ k \in Nat
  <2>1. j <= 2 * MaxShift /\ k <= 2 * MaxShift
    BY Shifts
  <2>. QED  BY <2>1, ShiftPositive
<1>4. \A y, z \in Nat : y <= z => x * y <= x * z
  OBVIOUS
<1>. QED  BY <1>2, <1>3, <1>4

\* A limb has LimbBits bits at most.
LEMMA LimbsInBits ==
  ASSUME NEW k \in 0 .. MaxLimbs
  PROVE  /\ k * LimbBits \in Nat /\ k * LimbBits <= MaxShift
         /\ LimbBase ^ k \in Nat /\ LimbBase ^ k <= 2 ^ (k * LimbBits)
<1> DEFINE S == {j \in Nat : j <= MaxLimbs => LimbBase ^ j <= 2 ^ (j * LimbBits)}
<1>0. MaxLimbs \in Nat /\ LimbBits \in Nat /\ LimbBase \in Nat
  BY LimbAssumption
<1>1. \A j \in 0 .. MaxLimbs : j * LimbBits \in Nat /\ j * LimbBits <= MaxShift
  <2> SUFFICES ASSUME NEW j \in 0 .. MaxLimbs PROVE j * LimbBits \in Nat /\ j * LimbBits <= MaxLimbs * LimbBits
    BY DEF MaxShift
  <2>1. \A x, y, z \in Nat : x <= y => x * z \in Nat /\ x * z <= y * z
    OBVIOUS
  <2>. QED  BY <1>0, <2>1
<1>2. \A j \in 0 .. MaxLimbs : LimbBase ^ j \in Nat
  BY <1>0, PowersAssumption, PowerType
<1>3. 0 \in S
  <2>1. 0 * LimbBits = 0
    BY <1>0
  <2>2. LimbBase ^ 0 = 1 /\ 2 ^ 0 = 1
    BY PowersAssumption DEF PowersUpTo
  <2>3. 2 ^ (0 * LimbBits) = 1
    BY <2>1, <2>2, Zenon
  <2>. QED  BY <2>2, <2>3
<1>4. ASSUME NEW j \in Nat, j \in S PROVE j + 1 \in S
  <2> SUFFICES ASSUME j + 1 <= MaxLimbs PROVE LimbBase ^ (j + 1) <= 2 ^ ((j + 1) * LimbBits)
    OBVIOUS
  <2>1. LimbBase ^ (j + 1) = LimbBase * LimbBase ^ j
    BY <1>0, PowersAssumption DEF PowersUpTo
  <2>2. LimbBase ^ j <= 2 ^ (j * LimbBits) /\ LimbBase <= 2 ^ LimbBits
    BY <1>4, LimbAssumption
  <2> DEFINE m == j * LimbBits
  <2>3. (j + 1) * LimbBits = LimbBits + m /\ m \in Nat /\ LimbBits + m <= MaxShift
    <3>1. (j + 1) * LimbBits = LimbBits + m /\ m \in Nat
      BY <1>0
    <3>2. j + 1 \in 0 .. MaxLimbs
      BY <1>0
    <3>3. (j + 1) * LimbBits <= MaxShift
      BY <3>2, <1>1
    <3>. QED  BY <3>1, <3>3
  <2> HIDE DEF m
  <2>4. LimbBits + m <= 2 * MaxShift /\ 2 * MaxShift \in Nat
    BY <2>3, <1>0, Shifts
  <2>5. 2 ^ (LimbBits + m) = 2 ^ LimbBits * 2 ^ m
    BY <2>3, <2>4, <1>0, Shifts, PowerSum
  <2>6. 2 ^ LimbBits \in Nat /\ 2 ^ m \in Nat
    BY <2>3, <2>4, <1>0, ShiftPositive
  <2>7. LimbBase ^ j \in Nat
    BY <1>2, <1>0
  <2>8. \A w, x, y, z \in Nat : w <= y /\ x <= z => w * x <= y * z
    <3> TAKE w, x, y, z \in Nat
    <3> HAVE w <= y /\ x <= z
    <3>1. w * x <= w * z /\ w * z <= y * z
      OBVIOUS
    <3>. QED  BY <3>1
  <2>9. LimbBase ^ j <= 2 ^ m
    BY <2>2 DEF m
  <2>. QED  BY <2>1, <2>2, <2>3, <2>5, <2>6, <2>7, <2>8, <2>9, <1>0
<1> HIDE DEF S
<1>5. Nat \subseteq S
  BY <1>3, <1>4, Induction
<1>6. k \in S
  BY <1>5
<1>. QED  BY <1>0, <1>1, <1>2, <1>6 DEF S

\* The length of a number in limbs is what it should be.
LEMMA LimbLenIs ==
  ASSUME NEW x \in Operands
  PROVE  /\ LimbLen(x) \in 1 .. MaxLimbs
         /\ x < LimbBase ^ LimbLen(x) /\ LimbBase ^ (LimbLen(x) - 1) <= x
<1> DEFINE T == {k \in 1 .. MaxLimbs : x < LimbBase ^ k}
<1>0. /\ MaxLimbs \in Nat \ {0} /\ x \in Nat \ {0} /\ SigMax \in Nat /\ x < LimbBase ^ MaxLimbs
      /\ \A k \in 0 .. MaxLimbs : LimbBase ^ k \in Nat
  <2>1. MaxLimbs \in Nat \ {0} /\ x \in 1 .. SigMax /\ SigMax \in Nat /\ SigMax < LimbBase ^ MaxLimbs
    BY LimbAssumption, NumbersAssumption, FracBitsAssumption
  <2>2. \A k \in 0 .. MaxLimbs : LimbBase ^ k \in Nat
    BY LimbsInBits
  <2>3. LimbBase ^ MaxLimbs \in Nat
    BY <2>1, <2>2
  <2>. QED  BY <2>1, <2>2, <2>3
<1>1. PICK k \in T : \A j \in T : k <= j
  <2>1. T \subseteq Nat /\ MaxLimbs \in T
    BY <1>0
  <2>. QED  BY <2>1, LeastMember
<1>2. k > 1 => LimbBase ^ (k - 1) <= x
  <2> SUFFICES ASSUME k > 1, ~(LimbBase ^ (k - 1) <= x) PROVE FALSE
    OBVIOUS
  <2>1. k - 1 \in 1 .. MaxLimbs
    BY <1>0, <1>1
  <2>2. x < LimbBase ^ (k - 1)
    BY <1>0, <2>1
  <2>. QED  BY <1>1, <2>1, <2>2
<1>3. \E j \in 1 .. MaxLimbs : x < LimbBase ^ j /\ (j > 1 => LimbBase ^ (j - 1) <= x)
  BY <1>1, <1>2
<1>4. /\ LimbLen(x) \in 1 .. MaxLimbs /\ x < LimbBase ^ LimbLen(x)
      /\ LimbLen(x) > 1 => LimbBase ^ (LimbLen(x) - 1) <= x
  BY <1>3 DEF LimbLen
<1>5. LimbBase ^ 0 = 1
  BY PowersAssumption DEF PowersUpTo
<1>6. LimbLen(x) = 1 => LimbBase ^ (LimbLen(x) - 1) <= x
  BY <1>0, <1>5
<1>. QED  BY <1>0, <1>4, <1>6

\* How much larger a number can be than another of no more limbs.
LEMMA RatioBelow ==
  ASSUME NEW x \in Operands, NEW y \in Operands, x >= y
  PROVE  LET apart == LimbLen(x) - LimbLen(y)
         IN  /\ apart \in 0 .. MaxLimbs - 1
             /\ apart * LimbBits \in Nat /\ apart * LimbBits + LimbBits <= MaxShift
             /\ x < y * 2 ^ (apart * LimbBits + LimbBits)
<1> DEFINE a == LimbLen(x)
           b == LimbLen(y)
           apart == a - b
<1>1. /\ a \in 1 .. MaxLimbs /\ x < LimbBase ^ a
      /\ b \in 1 .. MaxLimbs /\ y < LimbBase ^ b /\ LimbBase ^ (b - 1) <= y
  BY LimbLenIs
<1>2. MaxLimbs \in Nat /\ LimbBase \in Nat \ {0, 1} /\ LimbBits \in Nat /\ x \in Nat /\ y \in Nat
  <2>1. x \in 1 .. SigMax /\ y \in 1 .. SigMax /\ SigMax \in Nat
    BY NumbersAssumption, FracBitsAssumption
  <2>. QED  BY <2>1, LimbAssumption
<1> HIDE DEF a, b
<1>3. /\ LimbBase ^ a \in Nat /\ LimbBase ^ b \in Nat /\ LimbBase ^ (b - 1) \in Nat
  <2>1. a \in 0 .. MaxLimbs /\ b \in 0 .. MaxLimbs /\ b - 1 \in 0 .. MaxLimbs
    BY <1>1, <1>2
  <2>. QED  BY <2>1, LimbsInBits
<1>4. a >= b
  <2> SUFFICES ASSUME a < b PROVE FALSE
    BY <1>1, <1>2
  <2>1. a \in 0 .. MaxLimbs /\ b - 1 \in 0 .. MaxLimbs /\ a <= b - 1
    BY <1>1, <1>2
  <2>2. LimbBase ^ a <= LimbBase ^ (b - 1)
    BY <2>1, <1>2, PowersAssumption, PowerOrder
  <2>. QED  BY <2>2, <1>1, <1>2, <1>3
<1>5. apart \in 0 .. MaxLimbs - 1
  BY <1>1, <1>2, <1>4
<1> DEFINE j == b - 1
           k == apart + 1
<1>6. j \in Nat /\ k \in 0 .. MaxLimbs /\ k \in Nat /\ j + k = a /\ j + k <= MaxLimbs
  BY <1>1, <1>2, <1>4, <1>5
<1>7. LimbBase ^ a = LimbBase ^ j * LimbBase ^ k
  <2>1. LimbBase ^ (j + k) = LimbBase ^ j * LimbBase ^ k
    <3> HIDE DEF j, k
    <3>. QED  BY <1>6, <1>2, PowersAssumption, PowerSum
  <2>. QED  BY <2>1, <1>6
<1>8. k * LimbBits = apart * LimbBits + LimbBits /\ apart * LimbBits \in Nat
  BY <1>2, <1>5
<1> HIDE DEF apart, k, j
<1>9. /\ LimbBase ^ k \in Nat /\ LimbBase ^ k <= 2 ^ (k * LimbBits)
      /\ k * LimbBits \in Nat /\ k * LimbBits <= MaxShift
  BY <1>6, LimbsInBits
<1>10. 2 ^ (k * LimbBits) \in Nat
  <2>1. k * LimbBits <= 2 * MaxShift
    BY <1>9, Shifts
  <2>. QED  BY <1>9, <2>1, ShiftPositive
<1>11. \A u, v, w, z \in Nat : u <= w /\ v <= z => u * v <= w * z
  <2> TAKE u, v, w, z \in Nat
  <2> HAVE u <= w /\ v <= z
  <2>1. u * v <= u * z /\ u * z <= w * z
    OBVIOUS
  <2>. QED  BY <2>1
<1>12. LimbBase ^ j * LimbBase ^ k <= y * 2 ^ (k * LimbBits)
  BY <1>1, <1>2, <1>3, <1>9, <1>10, <1>11 DEF j
<1>13. y * 2 ^ (k * LimbBits) \in Nat
  BY <1>2, <1>10
<1>14. x < y * 2 ^ (k * LimbBits)
  BY <1>1, <1>2, <1>3, <1>7, <1>12, <1>13
<1>. QED  BY <1>5, <1>8, <1>9, <1>14 DEF apart, a, b

\* The bounds of the search are bounds, and the limits of an int do not bind.
LEMMA UpBounded ==
  ASSUME n \in Operands, d \in Operands, n >= d
  PROVE  UpBound \in 1 .. MaxShift /\ n < d * 2 ^ (UpBound + 1)
<1> DEFINE bits == (LimbLen(n) - LimbLen(d)) * LimbBits
           bound == UpBound
<1>1. bits \in Nat /\ bits + LimbBits <= MaxShift /\ n < d * 2 ^ (bits + LimbBits)
  BY RatioBelow
<1>2. LimbBits \in Nat \ {0} /\ MaxShift \in Nat \ {0} /\ MaxShift <= MaxPosQ /\ MaxPosQ \in Nat
  BY Shifts, SearchAssumption
<1>3. UpBound = Clamped(bits + LimbBits - 1, MaxPosQ)
  BY DEF UpBound
<1> HIDE DEF bits
<1>4. bound = IF bits + LimbBits - 1 < 1 THEN 1 ELSE bits + LimbBits - 1
  BY <1>1, <1>2, <1>3 DEF Clamped
<1> HIDE DEF bound
<1>5. bound \in 1 .. MaxShift /\ bits + LimbBits <= bound + 1 /\ bound + 1 <= 2 * MaxShift
  BY <1>1, <1>2, <1>4
<1>6. d \in Nat /\ n \in Nat
  BY NumbersAssumption, FracBitsAssumption
<1>7. d * 2 ^ (bits + LimbBits) <= d * 2 ^ (bound + 1)
  BY <1>1, <1>2, <1>5, <1>6, ShiftOrder
<1>8. d * 2 ^ (bits + LimbBits) \in Nat /\ d * 2 ^ (bound + 1) \in Nat
  <2>1. 2 ^ (bits + LimbBits) \in Nat
    <3>1. bits + LimbBits \in Nat /\ bits + LimbBits <= 2 * MaxShift
      BY <1>1, <1>2
    <3>. QED  BY <3>1, ShiftPositive
  <2>2. 2 ^ (bound + 1) \in Nat
    <3>1. bound + 1 \in Nat
      BY <1>5
    <3>. QED  BY <3>1, <1>5, ShiftPositive
  <2>. QED  BY <2>1, <2>2, <1>6
<1>. QED  BY <1>1, <1>5, <1>6, <1>7, <1>8 DEF bound

LEMMA DownBounded ==
  ASSUME n \in Operands, d \in Operands, n < d
  PROVE  DownBound \in 1 .. MaxShift /\ d < n * 2 ^ DownBound
<1> DEFINE bits == (LimbLen(d) - LimbLen(n)) * LimbBits
<1>0. d \in Nat /\ n \in Nat
  BY NumbersAssumption, FracBitsAssumption
<1>1. bits \in Nat /\ bits + LimbBits <= MaxShift /\ d < n * 2 ^ (bits + LimbBits)
  BY <1>0, RatioBelow
<1>2. LimbBits \in Nat \ {0} /\ MaxShift \in Nat \ {0} /\ MaxShift <= MaxNegQ /\ MaxNegQ \in Nat
  BY Shifts, SearchAssumption
<1>3. DownBound = Clamped(bits + LimbBits, MaxNegQ)
  BY DEF DownBound
<1> HIDE DEF bits
<1>4. DownBound = bits + LimbBits
  BY <1>1, <1>2, <1>3 DEF Clamped
<1>. QED  BY <1>1, <1>2, <1>4

\* step starts as the power of two that is more than half of the bound.
LEMMA FirstStepIs ==
  ASSUME NEW bound \in 1 .. MaxShift
  PROVE  /\ FirstStep(bound) \in {2 ^ k : k \in 0 .. bound}
         /\ FirstStep(bound) \in Nat
         /\ FirstStep(bound) <= bound /\ bound < 2 * FirstStep(bound)
<1>0. MaxShift \in Nat /\ bound \in Nat \ {0} /\ \A k \in 0 .. bound : 2 ^ k \in Nat \ {0}
  <2>1. MaxShift \in Nat
    BY Shifts
  <2>2. \A k \in 0 .. bound : k \in Nat /\ k <= 2 * MaxShift
    BY <2>1
  <2>. QED  BY <2>1, <2>2, ShiftPositive
<1>1. \A k \in 0 .. bound - 1 : 2 ^ (k + 1) = 2 * 2 ^ k
  <2>1. \A k \in 0 .. bound - 1 : k \in 0 .. 2 * MaxShift - 1
    BY <1>0
  <2>. QED  BY <2>1, Shifts DEF PowersUpTo
<1> DEFINE S == {k \in Nat : k <= bound => k < 2 ^ k}
<1>2. bound < 2 ^ bound
  <2>1. 0 \in S
    BY Shifts DEF PowersUpTo
  <2>2. ASSUME NEW k \in Nat, k \in S PROVE k + 1 \in S
    <3> SUFFICES ASSUME k + 1 <= bound PROVE k + 1 < 2 ^ (k + 1)
      OBVIOUS
    <3>1. k < 2 ^ k /\ 2 ^ k \in Nat /\ 2 ^ (k + 1) = 2 * 2 ^ k
      BY <2>2, <1>0, <1>1
    <3>. QED  BY <3>1
  <2> HIDE DEF S
  <2>3. Nat \subseteq S
    BY <2>1, <2>2, Induction
  <2>4. bound \in S
    BY <2>3, <1>0
  <2>. QED  BY <2>4, <1>0 DEF S
<1> DEFINE T == {k \in 0 .. bound : bound < 2 * 2 ^ k}
<1>3. PICK k \in T : \A j \in T : k <= j
  <2>1. bound \in T
    BY <1>0, <1>2
  <2>2. T \subseteq Nat
    BY <1>0
  <2>. QED  BY <2>1, <2>2, LeastMember
<1>4. 2 ^ k <= bound
  <2>1. CASE k = 0
    BY <2>1, <1>0, Shifts DEF PowersUpTo
  <2>2. CASE k # 0
    <3> SUFFICES ASSUME ~(2 ^ k <= bound) PROVE FALSE
      OBVIOUS
    <3> DEFINE j == k - 1
    <3>1. j \in 0 .. bound - 1 /\ j \in 0 .. bound /\ k = j + 1 /\ j < k
      BY <2>2, <1>0, <1>3
    <3> HIDE DEF j
    <3>2. 2 ^ k = 2 * 2 ^ j
      BY <3>1, <1>1
    <3>3. bound < 2 ^ k
      BY <1>0, <1>3
    <3>4. j \in T
      BY <3>1, <3>2, <3>3
    <3>. QED  BY <1>3, <3>1, <3>4
  <2>. QED  BY <2>1, <2>2
<1>5. \E z \in {2 ^ j : j \in 0 .. bound} : z <= bound /\ bound < 2 * z
  BY <1>3, <1>4
<1>6. /\ FirstStep(bound) \in {2 ^ j : j \in 0 .. bound}
      /\ FirstStep(bound) <= bound /\ bound < 2 * FirstStep(bound)
  BY <1>5 DEF FirstStep
<1>7. PICK j \in 0 .. bound : FirstStep(bound) = 2 ^ j
  BY <1>6
<1>. QED  BY <1>0, <1>6, <1>7

\* Half of a step is a step, and the window shrinks to the step just tried.
LEMMA HalfStep ==
  ASSUME NEW bound \in 1 .. MaxShift, step \in Steps(bound), step > 0, step' = step \div 2
  PROVE  step \in Nat \ {0} /\ step' \in Steps(bound) /\ Window' = step
<1>1. PICK k \in 0 .. bound : step = 2 ^ k
  BY DEF Steps
<1>2. MaxShift \in Nat /\ k \in Nat /\ k <= 2 * MaxShift
  BY Shifts
<1>3. step \in Nat \ {0}
  BY <1>1, <1>2, ShiftPositive
<1>4. CASE k = 0
  <2>1. step = 1
    BY <1>1, <1>4, Shifts DEF PowersUpTo
  <2>2. step' = 0
    BY <2>1
  <2>. QED  BY <2>1, <2>2 DEF Steps, Window
<1>5. CASE k # 0
  <2> DEFINE j == k - 1
  <2>1. j \in 0 .. bound /\ j \in 0 .. 2 * MaxShift - 1 /\ k = j + 1 /\ j \in Nat /\ j <= 2 * MaxShift
    BY <1>2, <1>5
  <2> HIDE DEF j
  <2>2. 2 ^ k = 2 * 2 ^ j
    BY <2>1, Shifts DEF PowersUpTo
  <2>3. 2 ^ j \in Nat \ {0}
    BY <2>1, ShiftPositive
  <2>4. step' = 2 ^ j /\ step' # 0 /\ 2 * step' = step
    BY <1>1, <2>2, <2>3
  <2>. QED  BY <1>3, <2>1, <2>4 DEF Steps, Window
<1>. QED  BY <1>4, <1>5

\* The probe's candidate is the number shifted by q + step.
LEMMA Candidate ==
  ASSUME NEW small \in Nat, NEW large, NEW bound \in 1 .. MaxShift,
         Narrowed(small, large, bound), step > 0
  PROVE  /\ q \in Nat /\ step \in Nat \ {0} /\ bound \in Nat
         /\ Window = 2 * step /\ q + 2 * step <= 2 * bound /\ q + step <= 2 * MaxShift
         /\ cur * 2 ^ step = small * 2 ^ (q + step) /\ cur * 2 ^ step \in Nat
<1>1. q \in Nat /\ bound \in Nat /\ MaxShift \in Nat /\ step \in Steps(bound)
  BY Shifts DEF Narrowed
<1>2. step \in Nat \ {0}
  <2>1. PICK k \in 0 .. bound : step = 2 ^ k
    BY <1>1 DEF Steps
  <2>2. k \in Nat /\ k <= 2 * MaxShift
    BY <1>1
  <2>. QED  BY <2>1, <2>2, ShiftPositive
<1>3. Window = 2 * step /\ q + 2 * step <= 2 * bound
  BY <1>2 DEF Window, Narrowed
<1>4. q + step <= 2 * MaxShift
  BY <1>1, <1>2, <1>3
<1>5. cur * 2 ^ step = small * 2 ^ (q + step)
  BY <1>1, <1>2, <1>4, ShiftSum DEF Narrowed
<1>6. small * 2 ^ (q + step) \in Nat
  <2>1. 2 ^ (q + step) \in Nat
    BY <1>1, <1>2, <1>4, ShiftPositive
  <2>. QED  BY <2>1
<1>. QED  BY <1>1, <1>2, <1>3, <1>4, <1>5, <1>6

LEMMA StartNarrowed ==
  ASSUME NEW small \in Nat, NEW large \in Nat, NEW bound \in 1 .. MaxShift,
         small <= large, large < small * 2 ^ (bound + 1),
         q' = 0, cur' = small, step' = FirstStep(bound)
  PROVE  /\ Narrowed(small, large, bound)' /\ large < small * 2 ^ (q' + Window')
         /\ q' + Window' \in Nat /\ q' + Window' <= 2 * MaxShift
<1> DEFINE s == FirstStep(bound)
<1>1. s \in {2 ^ k : k \in 0 .. bound} /\ s <= bound /\ bound < 2 * s
  BY FirstStepIs
<1>2. s \in Nat \ {0} /\ bound \in Nat /\ MaxShift \in Nat
  <2>1. PICK k \in 0 .. bound : s = 2 ^ k
    BY <1>1
  <2>2. bound \in Nat /\ MaxShift \in Nat
    BY Shifts
  <2>3. k \in Nat /\ k <= 2 * MaxShift
    BY <2>2
  <2>. QED  BY <2>1, <2>2, <2>3, ShiftPositive
<1> HIDE DEF s
<1>3. Window' = 2 * s /\ step' = s
  BY <1>2 DEF Window, s
<1>4. q' + Window' = 2 * s /\ bound + 1 <= 2 * s /\ 2 * s <= 2 * bound /\ 2 * s <= 2 * MaxShift
  BY <1>1, <1>2, <1>3
<1>5. small * 2 ^ (bound + 1) <= small * 2 ^ (2 * s)
  BY <1>2, <1>4, ShiftOrder
<1>6. small * 2 ^ (bound + 1) \in Nat /\ small * 2 ^ (2 * s) \in Nat
  <2>1. bound + 1 \in Nat /\ bound + 1 <= 2 * MaxShift /\ 2 * s \in Nat
    BY <1>2, <1>4
  <2>2. 2 ^ (bound + 1) \in Nat /\ 2 ^ (2 * s) \in Nat
    BY <2>1, <1>4, ShiftPositive
  <2>. QED  BY <2>2
<1>7. large < small * 2 ^ (q' + Window')
  BY <1>4, <1>5, <1>6
<1>8. small * 2 ^ q' = small
  BY Shifts DEF PowersUpTo
<1>9. q' \in 0 .. bound /\ step' \in Steps(bound) /\ q' + Window' <= 2 * bound
  BY <1>1, <1>2, <1>3, <1>4 DEF Steps
<1>. QED  BY <1>2, <1>4, <1>7, <1>8, <1>9 DEF Narrowed

\* What the operands and the bounds of a search under way are.
LEMMA SearchFacts ==
  ASSUME SearchInv
  PROVE  /\ n \in Nat \ {0} /\ d \in Nat \ {0} /\ n <= SigMax /\ d <= SigMax /\ SigMax \in Nat
         /\ n \in Operands /\ d \in Operands /\ IInv
         /\ stage = "up" => UpBound \in 1 .. MaxShift /\ n < d * 2 ^ (UpBound + 1)
         /\ stage = "down" => DownBound \in 1 .. MaxShift /\ d < n * 2 ^ DownBound
<1>1. /\ n \in Nat \ {0} /\ d \in Nat \ {0} /\ n <= SigMax /\ d <= SigMax /\ SigMax \in Nat
      /\ n \in Operands /\ d \in Operands /\ IInv
  BY NumbersAssumption, FracBitsAssumption DEF SearchInv
<1>2. stage = "up" => n >= d
  BY DEF SearchInv
<1>3. stage = "down" => n < d
  BY DEF SearchInv
<1>. QED  BY <1>1, <1>2, <1>3, UpBounded, DownBounded

\* n and d stay, and so do their bounds.
LEMMA BoundsStay ==
  ASSUME UNCHANGED <<n, d>>
  PROVE  UpBound' = UpBound /\ DownBound' = DownBound
BY DEF UpBound, DownBound

LEMMA StartStep ==
  ASSUME SearchInv, StartUp \/ StartDown
  PROVE  SearchInv'
<1>1. UNCHANGED <<n, d>> /\ UNCHANGED vars /\ stage = "start" /\ q' = 0
  BY DEF StartUp, StartDown, divider, vars, SearchInv
<1>2. IInv' /\ n' \in Operands /\ d' \in Operands
  BY <1>1, SearchFacts, DivisionStep
<1>3. num' = 1 /\ den' = 1 /\ pc' = "subtract" /\ scale' = 1 /\ frac' = 0
  BY <1>1 DEF SearchInv, vars
<1>4. CASE StartUp
  <2> DEFINE bound == UpBound
  <2>1. n >= d /\ stage' = "up" /\ cur' = d /\ step' = FirstStep(bound) /\ bound' = bound
    BY <1>1, <1>4, BoundsStay DEF StartUp
  <2>2. bound \in 1 .. MaxShift /\ n < d * 2 ^ (bound + 1) /\ n \in Nat /\ d \in Nat
    BY <2>1, SearchFacts, UpBounded
  <2>3. \A b \in 1 .. MaxShift : b = bound => Narrowed(d, n, b)' /\ n < d * 2 ^ (q' + Window')
    <3> HIDE DEF bound
    <3>. QED  BY <1>1, <2>1, <2>2, StartNarrowed DEF Narrowed
  <2>4. Narrowed(d, n, bound)' /\ n' < d' * 2 ^ (q' + Window')
    <3> HIDE DEF bound
    <3>. QED  BY <1>1, <2>1, <2>2, <2>3 DEF Narrowed, Steps
  <2>5. /\ stage' # "start" /\ stage' # "down" /\ SearchNormalizes' /\ (q + Window)' = q' + Window'
        /\ n' >= d'
    BY <1>1, <2>1 DEF SearchNormalizes
  <2>. QED  BY <1>2, <1>3, <2>1, <2>4, <2>5 DEF SearchInv
<1>5. CASE StartDown
  <2> DEFINE bound == DownBound
  <2>1. n < d /\ stage' = "down" /\ cur' = n /\ step' = FirstStep(bound) /\ bound' = bound
    BY <1>1, <1>5, BoundsStay DEF StartDown
  <2>2. bound \in 1 .. MaxShift /\ d < n * 2 ^ bound /\ n \in Nat /\ d \in Nat
    BY <2>1, SearchFacts, DownBounded
  <2>3. d < n * 2 ^ (bound + 1)
    <3> HIDE DEF bound
    <3>1. bound \in Nat /\ bound + 1 \in Nat /\ bound <= bound + 1 /\ bound + 1 <= 2 * MaxShift /\ MaxShift \in Nat
      BY <2>2, Shifts
    <3>2. n * 2 ^ bound <= n * 2 ^ (bound + 1)
      BY <2>2, <3>1, ShiftOrder
    <3>3. n * 2 ^ bound \in Nat /\ n * 2 ^ (bound + 1) \in Nat
      BY <2>2, <3>1, ShiftNat
    <3>. QED  BY <2>2, <3>2, <3>3
  <2>4. \A b \in 1 .. MaxShift : b = bound => /\ Narrowed(n, d, b)' /\ d < n * 2 ^ (q' + Window')
                                             /\ n * 2 ^ (q' + Window') \in Nat
    <3> HIDE DEF bound
    <3> TAKE b \in 1 .. MaxShift
    <3> HAVE b = bound
    <3>1. /\ Narrowed(n, d, b)' /\ d < n * 2 ^ (q' + Window')
          /\ q' + Window' \in Nat /\ q' + Window' <= 2 * MaxShift
      BY <1>1, <2>1, <2>2, <2>3, StartNarrowed
    <3>. QED  BY <2>2, <3>1, ShiftNat
  <2>5. Narrowed(n, d, bound)' /\ d' <= n' * 2 ^ (q' + Window')
    <3> HIDE DEF bound
    <3>. QED  BY <1>1, <2>1, <2>2, <2>4 DEF Narrowed, Steps
  <2>6. /\ stage' # "start" /\ stage' # "up" /\ SearchNormalizes' /\ (q + Window)' = q' + Window'
        /\ n' < d' /\ cur' < d'
    BY <1>1, <2>1 DEF SearchNormalizes
  <2>. QED  BY <1>2, <1>3, <2>1, <2>5, <2>6 DEF SearchInv
<1>. QED  BY <1>4, <1>5

\* A probe narrows the search, whichever way it ends.
LEMMA ProbeStep ==
  ASSUME SearchInv, Take \/ Pass
  PROVE  SearchInv'
<1>1. /\ UNCHANGED <<n, d>> /\ UNCHANGED vars /\ stage' = stage /\ stage \in {"up", "down"}
      /\ step > 0 /\ step' = step \div 2
  BY DEF Take, Pass, Probe, divider, vars
<1>2. IInv' /\ n' \in Operands /\ d' \in Operands
  BY <1>1, SearchFacts, DivisionStep
<1>3. num' = 1 /\ den' = 1 /\ pc' = "subtract" /\ scale' = 1 /\ frac' = 0
  BY <1>1 DEF SearchInv, vars
<1>4. SearchNormalizes' /\ (q + Window)' = q' + Window' /\ stage' # "start"
  BY <1>1 DEF SearchNormalizes
<1>5. CASE stage = "up"
  <2> DEFINE bound == UpBound
             next == cur * 2 ^ step
  <2>1. /\ n >= d /\ Narrowed(d, n, bound) /\ n < d * 2 ^ (q + Window) /\ bound \in 1 .. MaxShift
        /\ bound' = bound /\ n \in Nat /\ d \in Nat /\ n <= SigMax /\ SigMax \in Nat
        /\ n < d * 2 ^ (bound + 1)
    BY <1>1, <1>5, SearchFacts, BoundsStay DEF SearchInv
  <2>2. /\ Take => q <= bound - step /\ n >= next /\ q' = q + step /\ cur' = next
        /\ Pass => q' = q /\ cur' = cur /\ (~(next <= SigMax) \/ ~(n >= next) \/ ~(q <= bound - step))
    BY <1>5 DEF Take, Pass, Hit, UpHit, Fits
  <2> HIDE DEF bound
  <2>3. /\ q \in Nat /\ step \in Nat \ {0} /\ bound \in Nat
        /\ Window = 2 * step /\ q + 2 * step <= 2 * bound /\ q + step <= 2 * MaxShift
        /\ next = d * 2 ^ (q + step) /\ next \in Nat
    BY <1>1, <2>1, Candidate
  <2>4. step' \in Steps(bound) /\ Window' = step /\ cur \in Nat
    <3>1. cur \in Nat
      <4>1. q <= 2 * MaxShift
        BY <2>3, Shifts
      <4>. QED  BY <2>1, <2>3, <4>1, ShiftNat DEF Narrowed
    <3>. QED  BY <1>1, <2>1, <3>1, HalfStep DEF Narrowed
  <2>5. CASE Take
    <3>1. /\ q' \in 0 .. bound /\ q' + Window' = q + Window /\ q' + Window' <= 2 * bound
          /\ cur' = d * 2 ^ q' /\ cur' <= n
      BY <2>2, <2>3, <2>4, <2>5
    <3>2. Narrowed(d, n, bound)' /\ n' < d' * 2 ^ (q' + Window')
      BY <1>1, <2>1, <2>4, <3>1 DEF Narrowed, Steps
    <3>. QED  BY <1>1, <1>2, <1>3, <1>4, <1>5, <2>1, <3>2 DEF SearchInv, bound
  <2>6. CASE Pass
    <3>1. n < d * 2 ^ (q + step)
      <4>1. CASE ~(next <= SigMax) \/ ~(n >= next)
        BY <2>1, <2>3, <4>1
      <4>2. CASE ~(q <= bound - step)
        <5>1. bound + 1 <= q + step /\ bound + 1 \in Nat /\ q + step \in Nat /\ bound + 1 <= 2 * MaxShift
          BY <2>1, <2>3, <4>2, Shifts
        <5>2. d * 2 ^ (bound + 1) <= d * 2 ^ (q + step)
          BY <2>1, <2>3, <5>1, ShiftOrder
        <5>3. d * 2 ^ (bound + 1) \in Nat /\ d * 2 ^ (q + step) \in Nat
          BY <2>1, <2>3, <5>1, ShiftNat
        <5>. QED  BY <2>1, <5>2, <5>3
      <4>. QED  BY <2>2, <2>6, <4>1, <4>2
    <3>2. /\ q' \in 0 .. bound /\ q' + Window' = q + step /\ q' + Window' <= 2 * bound
          /\ cur' = d * 2 ^ q' /\ cur' <= n
      BY <2>1, <2>2, <2>3, <2>4, <2>6 DEF Narrowed
    <3>3. Narrowed(d, n, bound)' /\ n' < d' * 2 ^ (q' + Window')
      BY <1>1, <2>1, <2>4, <3>1, <3>2 DEF Narrowed, Steps
    <3>. QED  BY <1>1, <1>2, <1>3, <1>4, <1>5, <2>1, <3>3 DEF SearchInv, bound
  <2>. QED  BY <2>5, <2>6
<1>6. CASE stage = "down"
  <2> DEFINE bound == DownBound
             next == cur * 2 ^ step
  <2>1. /\ n < d /\ Narrowed(n, d, bound) /\ cur < d /\ d <= n * 2 ^ (q + Window) /\ bound \in 1 .. MaxShift
        /\ bound' = bound /\ n \in Nat /\ d \in Nat /\ d <= SigMax /\ SigMax \in Nat
        /\ d < n * 2 ^ bound
    BY <1>1, <1>6, SearchFacts, BoundsStay DEF SearchInv
  <2>2. /\ Take => q <= bound - step /\ next < d /\ q' = q + step /\ cur' = next
        /\ Pass => q' = q /\ cur' = cur /\ (~(next <= SigMax) \/ ~(next < d) \/ ~(q <= bound - step))
    BY <1>6 DEF Take, Pass, Hit, DownHit, Fits
  <2> HIDE DEF bound
  <2>3. /\ q \in Nat /\ step \in Nat \ {0} /\ bound \in Nat
        /\ Window = 2 * step /\ q + 2 * step <= 2 * bound /\ q + step <= 2 * MaxShift
        /\ next = n * 2 ^ (q + step) /\ next \in Nat
    BY <1>1, <2>1, Candidate
  <2>4. step' \in Steps(bound) /\ Window' = step /\ cur \in Nat
    <3>1. cur \in Nat
      <4>1. q <= 2 * MaxShift
        BY <2>3, Shifts
      <4>. QED  BY <2>1, <2>3, <4>1, ShiftNat DEF Narrowed
    <3>. QED  BY <1>1, <2>1, <3>1, HalfStep DEF Narrowed
  <2>5. CASE Take
    <3>1. /\ q' \in 0 .. bound /\ q' + Window' = q + Window /\ q' + Window' <= 2 * bound
          /\ cur' = n * 2 ^ q' /\ cur' <= d /\ cur' < d
      BY <2>1, <2>2, <2>3, <2>4, <2>5
    <3>2. Narrowed(n, d, bound)' /\ d' <= n' * 2 ^ (q' + Window') /\ cur' < d'
      BY <1>1, <2>1, <2>4, <3>1 DEF Narrowed, Steps
    <3>. QED  BY <1>1, <1>2, <1>3, <1>4, <1>6, <2>1, <3>2 DEF SearchInv, bound
  <2>6. CASE Pass
    <3>1. d <= n * 2 ^ (q + step)
      <4>1. CASE ~(next <= SigMax) \/ ~(next < d)
        BY <2>1, <2>3, <4>1
      <4>2. CASE ~(q <= bound - step)
        <5>1. bound <= q + step /\ bound \in Nat /\ q + step \in Nat /\ bound <= 2 * MaxShift
          BY <2>1, <2>3, <4>2, Shifts
        <5>2. n * 2 ^ bound <= n * 2 ^ (q + step)
          BY <2>1, <2>3, <5>1, ShiftOrder
        <5>3. n * 2 ^ bound \in Nat /\ n * 2 ^ (q + step) \in Nat
          BY <2>1, <2>3, <5>1, ShiftNat
        <5>. QED  BY <2>1, <5>2, <5>3
      <4>. QED  BY <2>2, <2>6, <4>1, <4>2
    <3>2. /\ q' \in 0 .. bound /\ q' + Window' = q + step /\ q' + Window' <= 2 * bound
          /\ cur' = n * 2 ^ q' /\ cur' <= d /\ cur' < d
      BY <2>1, <2>2, <2>3, <2>4, <2>6 DEF Narrowed
    <3>3. Narrowed(n, d, bound)' /\ d' <= n' * 2 ^ (q' + Window') /\ cur' < d'
      BY <1>1, <2>1, <2>4, <3>1, <3>2 DEF Narrowed, Steps
    <3>. QED  BY <1>1, <1>2, <1>3, <1>4, <1>6, <2>1, <3>3 DEF SearchInv, bound
  <2>. QED  BY <2>5, <2>6
<1>. QED  BY <1>1, <1>5, <1>6

\* Downwards it ends before its bound.
LEMMA EndBelow ==
  ASSUME SearchInv, stage = "down"
  PROVE  q \in Nat /\ q < DownBound /\ DownBound \in 1 .. MaxShift
<1> DEFINE bound == DownBound
<1>1. /\ q \in 0 .. bound /\ bound \in 1 .. MaxShift /\ n \in Nat /\ d \in Nat
      /\ n * 2 ^ q < d /\ d < n * 2 ^ bound
  BY SearchFacts DEF SearchInv, Narrowed
<1> HIDE DEF bound
<1>2. n * 2 ^ bound \in Nat
  BY <1>1, Shifts, ShiftNat
<1>3. q # bound
  <2> SUFFICES ASSUME q = bound PROVE FALSE
    OBVIOUS
  <2>1. n * 2 ^ bound < d
    BY <1>1
  <2>. QED  BY <1>1, <1>2, <2>1
<1>. QED  BY <1>1, <1>3, Shifts DEF bound

\* The search ends with the power of two just below the ratio.
LEMMA EndStep ==
  ASSUME SearchInv, SearchEnd
  PROVE  SearchInv'
<1>1. /\ UNCHANGED <<n, d>> /\ UNCHANGED vars /\ stage' = "found" /\ stage \in {"up", "down"} /\ step = 0
  BY DEF SearchEnd, divider, vars
<1>2. IInv' /\ n' \in Operands /\ d' \in Operands
  BY <1>1, SearchFacts, DivisionStep
<1>3. num' = 1 /\ den' = 1 /\ pc' = "subtract" /\ scale' = 1 /\ frac' = 0
  BY <1>1 DEF SearchInv, vars
<1>4. IsFloorLog2(q')
  <2>1. CASE stage = "up"
    <3>1. q' = q /\ Window = 1 /\ q \in Nat
      BY <1>1, <2>1 DEF SearchEnd, Window, SearchInv, Narrowed
    <3>2. d * 2 ^ q <= n /\ n < d * 2 ^ (q + 1)
      BY <2>1, <3>1 DEF SearchInv, Narrowed
    <3>. QED  BY <3>1, <3>2 DEF IsFloorLog2
  <2>2. CASE stage = "down"
    <3> DEFINE bound == DownBound
    <3>1. /\ q \in 0 .. bound /\ Window = 1 /\ bound \in 1 .. MaxShift /\ n \in Nat /\ d \in Nat
          /\ n * 2 ^ q < d /\ d <= n * 2 ^ (q + 1) /\ d < n * 2 ^ bound
      BY <1>1, <2>2, SearchFacts DEF SearchInv, Narrowed, Window
    <3> HIDE DEF bound
    <3>2. q < bound
      BY <2>2, EndBelow DEF bound
    <3>3. q' = -(q + 1) /\ q \in Nat /\ q + 1 <= 2 * MaxShift
      <4>1. q \in Nat /\ q < bound /\ bound <= MaxNegQ /\ MaxNegQ \in Nat /\ q < MaxShift
        BY <3>1, <3>2, Shifts, SearchAssumption
      <4>. QED  BY <1>1, <2>2, <4>1, Shifts DEF SearchEnd
    <3>4. n * 2 ^ (q + 1) = 2 * (n * 2 ^ q)
      <4>1. q \in 0 .. 2 * MaxShift - 1
        BY <3>3, Shifts
      <4>2. 2 ^ (q + 1) = 2 * 2 ^ q
        BY <4>1, Shifts DEF PowersUpTo
      <4>3. 2 ^ q \in Nat
        BY <3>3, <4>1, Shifts, ShiftPositive
      <4>4. \A x, y \in Nat : x * (2 * y) = 2 * (x * y)
        OBVIOUS
      <4>. QED  BY <3>1, <4>2, <4>3, <4>4
    <3>5. n * 2 ^ q \in Nat
      BY <3>1, <3>3, Shifts, ShiftNat
    <3>6. n * 2 ^ (q + 1) < 2 * d
      BY <3>1, <3>4, <3>5
    <3>7. ~(q' >= 0) /\ -q' = q + 1
      BY <3>3
    <3>. QED  BY <3>1, <3>6, <3>7 DEF IsFloorLog2
  <2>. QED  BY <1>1, <2>1, <2>2
<1>5. SearchNormalizes'
  <2>1. IsFloorLog2(q)'
    BY <1>1, <1>4 DEF IsFloorLog2
  <2>. QED  BY <1>1, <2>1 DEF SearchNormalizes
<1>6. q' \in -MaxShift .. MaxShift
  <2>1. CASE stage = "up"
    <3>1. q' = q /\ q \in 0 .. UpBound /\ UpBound \in 1 .. MaxShift
      BY <1>1, <2>1, SearchFacts DEF SearchEnd, SearchInv, Narrowed
    <3>. QED  BY <3>1, Shifts
  <2>2. CASE stage = "down"
    <3>1. q \in 0 .. DownBound /\ DownBound \in 1 .. MaxShift
      BY <1>1, <2>2, SearchFacts DEF SearchInv, Narrowed
    <3>2. q < DownBound
      BY <2>2, EndBelow
    <3>3. q < MaxShift /\ q # MaxNegQ /\ q \in Nat
      BY <3>1, <3>2, Shifts, SearchAssumption
    <3>4. q' = -(q + 1)
      BY <1>1, <2>2, <3>3 DEF SearchEnd
    <3>. QED  BY <3>3, <3>4, Shifts
  <2>. QED  BY <1>1, <2>1, <2>2
<1>. QED  BY <1>1, <1>2, <1>3, <1>5, <1>6 DEF SearchInv, MaxShift

\* The shift by q leaves a ratio in [1, 2), or does not fit.
LEMMA ShiftStep ==
  ASSUME SearchInv, Normalize \/ ShiftFails
  PROVE  SearchInv'
<1>1. /\ n \in Nat \ {0} /\ d \in Nat \ {0} /\ n <= SigMax /\ d <= SigMax /\ SigMax \in Nat
      /\ IInv /\ stage = "found" /\ IsFloorLog2(q) /\ UNCHANGED <<n, d, q>>
      /\ n \in Operands /\ d \in Operands
      /\ q \in -MaxShift .. MaxShift /\ MaxShift \in Nat \ {0}
      /\ num = 1 /\ den = 1 /\ pc = "subtract" /\ scale = 1 /\ frac = 0
  BY SearchFacts, Shifts DEF SearchInv, SearchNormalizes, Normalize, ShiftFails, MaxShift
<1>2. /\ q >= 0 => /\ d * 2 ^ q \in Nat /\ d * 2 ^ q <= n /\ n < 2 * (d * 2 ^ q)
      /\ q < 0 => n * 2 ^ (-q) \in Nat /\ d <= n * 2 ^ (-q) /\ n * 2 ^ (-q) < 2 * d
  <2>1. CASE q >= 0
    <3>1. q \in Nat /\ q <= 2 * MaxShift /\ q \in 0 .. 2 * MaxShift - 1
      BY <1>1, <2>1
    <3>2. 2 ^ (q + 1) = 2 * 2 ^ q
      BY <3>1, Shifts DEF PowersUpTo
    <3>3. 2 ^ q \in Nat
      BY <3>1, ShiftPositive
    <3>4. \A x, y \in Nat : x * (2 * y) = 2 * (x * y) /\ x * y \in Nat
      OBVIOUS
    <3>. QED  BY <1>1, <2>1, <3>2, <3>3, <3>4 DEF IsFloorLog2
  <2>2. CASE q < 0
    <3>1. -q \in Nat /\ -q <= 2 * MaxShift
      BY <1>1, <2>2
    <3>2. n * 2 ^ (-q) \in Nat
      BY <1>1, <3>1, ShiftNat
    <3>. QED  BY <1>1, <2>2, <3>2 DEF IsFloorLog2
  <2>. QED  BY <1>1, <2>1, <2>2
<1>3. IsFloorLog2(q)'
  BY <1>1 DEF IsFloorLog2
<1>4. CASE Normalize
  <2>1. /\ num' = ShiftedNum /\ den' = ShiftedDen /\ stage' = "divide" /\ ShiftedNum >= ShiftedDen
        /\ UNCHANGED <<pc, i, rem, frac, scale, guard, roundBit, answer>>
    BY <1>4 DEF Normalize, CanShift
  <2>2. num' \in Nat /\ den' \in Nat \ {0} /\ den' <= num' /\ num' < 2 * den'
    <3>1. CASE q >= 0
      BY <1>1, <1>2, <2>1, <3>1 DEF ShiftedNum, ShiftedDen
    <3>2. CASE q < 0
      BY <1>1, <1>2, <2>1, <3>2 DEF ShiftedNum, ShiftedDen
    <3>. QED  BY <1>1, <3>1, <3>2
  <2>3. IInv'
    <3>1. TypeOK'
      BY <1>1, <2>1, <2>2 DEF IInv, TypeOK, answer
    <3>2. Divided' /\ pc' # "done"
      BY <1>1, <2>1, <2>2 DEF Divided
    <3>. QED  BY <3>1, <3>2 DEF IInv, RoundsToNearest, InexactIffLost, KeepsWidth
  <2>4. SearchNormalizes'
    BY <1>3, <2>1, <2>2 DEF SearchNormalizes
  <2>. QED  BY <1>1, <2>1, <2>3, <2>4 DEF SearchInv
<1>5. CASE ShiftFails
  <2>1. stage' = "out_of_range" /\ ~CanShift /\ UNCHANGED vars
    BY <1>5 DEF ShiftFails, divider, vars
  <2>2. IInv' /\ num' = 1 /\ den' = 1 /\ pc' = "subtract" /\ scale' = 1 /\ frac' = 0
    BY <1>1, <2>1, DivisionStep DEF vars
  <2>3. q < 0 /\ n * 2 ^ (-q) > SigMax
    <3>1. CASE q >= 0
      BY <1>1, <1>2, <2>1, <3>1 DEF CanShift, ShiftedNum, ShiftedDen, Fits
    <3>2. CASE q < 0
      BY <1>1, <1>2, <2>1, <3>2 DEF CanShift, ShiftedNum, ShiftedDen, Fits
    <3>. QED  BY <1>1, <3>1, <3>2
  <2>4. SearchNormalizes'
    BY <1>1, <1>3, <2>1, <2>3 DEF SearchNormalizes
  <2>. QED  BY <1>1, <2>1, <2>2, <2>4 DEF SearchInv
<1>. QED  BY <1>4, <1>5

\* While the numbers are divided they stay what they are.
LEMMA DivideStep ==
  ASSUME SearchInv, Divide
  PROVE  SearchInv'
<1>1. stage = "divide" /\ Next /\ UNCHANGED <<n, d, stage, q, step, cur>>
  BY DEF Divide, search
<1>2. UNCHANGED <<num, den>>
  BY <1>1 DEF Next, Subtract, FracStep, GuardStep, RoundStep, OutOfRange, Round, operands
<1>3. IInv'
  BY <1>1, SearchFacts, DivisionStep
<1>4. SearchNormalizes'
  BY <1>1, <1>2 DEF SearchInv, SearchNormalizes, IsFloorLog2
<1>. QED  BY <1>1, <1>3, <1>4 DEF SearchInv

LEMMA SearchStep == SearchInv /\ [SNext]_<<search, divider>> => SearchInv'
<1> SUFFICES ASSUME SearchInv, [SNext]_<<search, divider>> PROVE SearchInv'
  OBVIOUS
<1>1. CASE StartUp \/ StartDown
  BY <1>1, StartStep
<1>2. CASE Take \/ Pass
  BY <1>2, ProbeStep
<1>3. CASE SearchEnd
  BY <1>3, EndStep
<1>4. CASE Normalize \/ ShiftFails
  BY <1>4, ShiftStep
<1>5. CASE Divide
  BY <1>5, DivideStep
<1>6. CASE UNCHANGED <<search, divider>>
  <2>1. UNCHANGED <<n, d, stage, q, step, cur>> /\ UNCHANGED vars
    BY <1>6 DEF search, divider
  <2>2. UNCHANGED <<num, den, pc, scale, frac>>
    BY <2>1 DEF vars
  <2>3. IInv'
    BY <2>1, DivisionStep DEF SearchInv
  <2>4. Window' = Window /\ UpBound' = UpBound /\ DownBound' = DownBound
    BY <2>1, BoundsStay DEF Window
  <2>5. Narrowed(d, n, UpBound)' = Narrowed(d, n, UpBound) /\ Narrowed(n, d, DownBound)' = Narrowed(n, d, DownBound)
    BY <2>1, <2>4, Zenon DEF Narrowed, Steps
  <2>6. SearchNormalizes'
    BY <2>1, <2>2 DEF SearchInv, SearchNormalizes, IsFloorLog2
  <2>7. (q + Window)' = q + Window
    BY <2>1, <2>4
  <2>. QED  BY <2>1, <2>2, <2>3, <2>5, <2>6, <2>7 DEF SearchInv
<1>. QED  BY <1>1, <1>2, <1>3, <1>4, <1>5, <1>6 DEF SNext

(***************************************************************************)
(* The invariant of the search and of the division it leads to, for every  *)
(* base, size of a bigint and width of the significand.                    *)
(***************************************************************************)
THEOREM SearchInvariance == SSpec => []SearchInv
<1>1. SInit => SearchInv
  <2> SUFFICES ASSUME SInit PROVE SearchInv
    OBVIOUS
  <2>1. IInv
    BY DivisionInit DEF SInit
  <2>2. stage = "start" /\ q = 0 /\ n \in Operands /\ d \in Operands
    BY DEF SInit
  <2>3. num = 1 /\ den = 1 /\ pc = "subtract" /\ scale = 1 /\ frac = 0
    BY DEF SInit, Init
  <2>. QED  BY <2>1, <2>2, <2>3 DEF SearchInv, SearchNormalizes
<1>. QED  BY <1>1, SearchStep, PTL DEF SSpec

(***************************************************************************)
(* ryu_floor_log2_ratio finds the largest power of two that is at most the *)
(* ratio, the shift by it leaves the division a ratio in [1, 2), and only  *)
(* a number that outgrows a bigint by that shift is refused.               *)
(***************************************************************************)
THEOREM Normalization == SSpec => []SearchNormalizes
<1>1. SearchInv => SearchNormalizes
  BY DEF SearchInv
<1>. QED  BY <1>1, SearchInvariance, PTL

(***************************************************************************)
(* Whatever the two bigints that are divided after the search: the result  *)
(* is rounded to nearest, and INEXACT says whether it had to be.           *)
(***************************************************************************)
THEOREM SearchedCorrectly == SSpec => [](RoundsToNearest /\ InexactIffLost)
<1>1. SearchInv => RoundsToNearest /\ InexactIffLost
  BY DEF SearchInv, IInv
<1>. QED  BY <1>1, SearchInvariance, PTL
=============================================================================
