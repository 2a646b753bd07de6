------------------------- MODULE BigintLimbs_proof -------------------------
(***************************************************************************)
(* The limb loops of BigintLimbs are right for every base, every number of *)
(* limbs, every size of the machine word and every sequence of calls.      *)
(*                                                                         *)
(* The argument is the same for every loop: the value of the limbs done,   *)
(* together with the carry, borrow or remainder at its weight, is what the *)
(* operation makes of the limbs it has seen.  A turn moves one limb across *)
(* that line.  The lemmas on Value say what storing a limb does to it, the *)
(* lemmas on one turn do the arithmetic, and the theorems put them         *)
(* together action by action.  At the end, the text of a number: the limbs *)
(* written one by one are the digits of the whole, and only one number of  *)
(* digits is right for it, so that both ways of writing it agree.          *)
(***************************************************************************)
EXTENDS BigintCalls, Texts_proof, FiniteSetTheorems

---------------------------------------------------------------------------
(* Division with remainder, and products. *)

LEMMA QuotientBound ==
  ASSUME NEW a \in Nat, NEW d \in Nat \ {0}, NEW c \in Nat, a < d * c
  PROVE  a \div d < c
<1>1. a = d * (a \div d) + (a % d) /\ a \div d \in Nat /\ a % d \in Nat
  BY DivMod
<1>2. SUFFICES ASSUME a \div d >= c PROVE FALSE
  BY <1>1
<1>3. d * (a \div d) >= d * c
  BY <1>1, <1>2
<1> QED
  BY <1>1, <1>3

---------------------------------------------------------------------------
(* What Value makes of an array when one limb is stored. *)

LEMMA Sizes ==
  /\ Base \in Nat /\ Base > 1 /\ MaxLimbs \in Nat \ {0}
  /\ Index = 0 .. MaxLimbs - 1
BY SizesAssumption DEF Index

LEMMA Storing ==
  /\ \A l \in Arrays, k \in Index : l[k] \in Limb
  /\ Zeros \in Arrays
  /\ Limb = 0 .. Base - 1
BY SizesAssumption DEF Limb, Arrays, Zeros, Index

LEMMA LimbPowers ==
  /\ \A k \in 0 .. MaxLimbs : Power[k] \in Nat \ {0}
  /\ Power[0] = 1
  /\ \A k \in Index : Power[k + 1] = Base * Power[k]
<1>1. \A k \in 0 .. MaxLimbs : Base ^ k \in Nat \ {0}
  BY Sizes, PowersAssumption, PowerPositive
<1>2. Base ^ 0 = 1 /\ \A k \in Index : Base ^ (k + 1) = Base * Base ^ k
  BY PowersAssumption DEF PowersUpTo, Index
<1>3. /\ 0 \in 0 .. MaxLimbs
      /\ \A k \in Index : k \in 0 .. MaxLimbs /\ k + 1 \in 0 .. MaxLimbs
  BY Sizes
<1> QED
  BY <1>1, <1>2, <1>3 DEF Power

\* The recursion of Sums has a solution: one more entry can be added to a shorter one.
LEMMA SumsExist ==
  ASSUME NEW l \in Arrays
  PROVE  \E g : g = [k \in 0 .. MaxLimbs |-> IF k = 0 THEN 0 ELSE g[k - 1] + l[k - 1] * Power[k - 1]]
<1> DEFINE Solves(g, n) == /\ g \in [0 .. n -> Int] /\ g[0] = 0
                           /\ \A k \in 0 .. n - 1 : g[k + 1] = g[k] + l[k] * Power[k]
           S == {n \in Nat : \E g \in [0 .. n -> Int] : Solves(g, n)}
<1>1. 0 \in S
  <2>1. Solves([k \in 0 .. 0 |-> 0], 0)
    OBVIOUS
  <2> QED
    BY <2>1
<1>2. ASSUME NEW n \in 0 .. MaxLimbs - 1, n \in S PROVE n + 1 \in S
  <2>1. PICK g \in [0 .. n -> Int] : Solves(g, n)
    BY <1>2
  <2> DEFINE h == [k \in 0 .. n + 1 |-> IF k = n + 1 THEN g[n] + l[n] * Power[n] ELSE g[k]]
  <2>2. n \in Nat /\ g[n] + l[n] * Power[n] \in Int
    BY LimbPowers, Storing, Sizes
  <2>3. h \in [0 .. n + 1 -> Int]
    BY <2>2
  <2>4. h[0] = 0 /\ h[n + 1] = h[n] + l[n] * Power[n]
    BY <2>1, <2>2
  <2>5. ASSUME NEW k \in 0 .. n - 1 PROVE h[k + 1] = h[k] + l[k] * Power[k]
    BY <2>1, <2>2
  <2> HIDE DEF h
  <2>6. \A k \in 0 .. (n + 1) - 1 : h[k + 1] = h[k] + l[k] * Power[k]
    <3> TAKE k \in 0 .. (n + 1) - 1
    <3>1. k = n \/ k \in 0 .. n - 1
      BY <2>2
    <3> QED
      BY <2>4, <2>5, <3>1
  <2>7. Solves(h, n + 1)
    BY <2>3, <2>4, <2>6
  <2>8. n + 1 \in Nat
    BY <2>2
  <2> QED
    BY <2>3, <2>7, <2>8, Zenon
<1>3. MaxLimbs \in S
  <2> HIDE DEF S
  <2>1. 0 .. MaxLimbs \subseteq S
    BY <1>1, <1>2, Sizes, InductionUpTo
  <2> QED
    BY <2>1, Sizes
<1>4. PICK g \in [0 .. MaxLimbs -> Int] : Solves(g, MaxLimbs)
  BY <1>3
<1>5. ASSUME NEW k \in 0 .. MaxLimbs
      PROVE  g[k] = IF k = 0 THEN 0 ELSE g[k - 1] + l[k - 1] * Power[k - 1]
  <2>1. k = 0 \/ (k - 1 \in 0 .. MaxLimbs - 1 /\ (k - 1) + 1 = k)
    BY Sizes
  <2> QED
    BY <1>4, <2>1
<1> QED
  BY <1>5

LEMMA ValueEquations ==
  ASSUME NEW l \in Arrays
  PROVE  /\ Value(l, 0) = 0
         /\ \A n \in Index : Value(l, n + 1) = Value(l, n) + l[n] * Power[n]
<1> DEFINE g == Sums(l)
<1>1. g = [k \in 0 .. MaxLimbs |-> IF k = 0 THEN 0 ELSE g[k - 1] + l[k - 1] * Power[k - 1]]
  BY SumsExist, Zenon DEF Sums
<1>2. 0 \in 0 .. MaxLimbs /\ \A n \in Index : n + 1 \in 0 .. MaxLimbs /\ n + 1 # 0 /\ (n + 1) - 1 = n
  BY Sizes
<1> HIDE DEF g
<1>3. g[0] = 0 /\ \A n \in Index : g[n + 1] = g[n] + l[n] * Power[n]
  BY <1>1, <1>2
<1> QED
  BY <1>3 DEF Value, g

LEMMA NoLimbs ==
  ASSUME NEW l \in Arrays
  PROVE  Value(l, 0) = 0
BY ValueEquations

LEMMA NextLimb ==
  ASSUME NEW l \in Arrays, NEW n \in Index
  PROVE  Value(l, n + 1) = Value(l, n) + l[n] * Power[n]
BY ValueEquations

\* n limbs are less than Power[n].
LEMMA ValueRange ==
  ASSUME NEW l \in Arrays, NEW n \in 0 .. MaxLimbs
  PROVE  Value(l, n) \in Nat /\ Value(l, n) < Power[n]
<1> DEFINE S == {k \in Nat : Value(l, k) \in Nat /\ Value(l, k) < Power[k]}
<1>1. 0 \in S
  BY NoLimbs, LimbPowers
<1>2. ASSUME NEW k \in 0 .. MaxLimbs - 1, k \in S PROVE k + 1 \in S
  <2>1. k \in Index /\ Value(l, k) \in Nat /\ Value(l, k) < Power[k] /\ k + 1 \in Nat
    BY <1>2, Sizes
  <2>2. Value(l, k + 1) = Value(l, k) + l[k] * Power[k] /\ Power[k + 1] = Base * Power[k]
    BY <2>1, NextLimb, LimbPowers
  <2>3. l[k] \in Nat /\ l[k] + 1 <= Base /\ Power[k] \in Nat \ {0} /\ Base \in Nat
    BY <2>1, Storing, LimbPowers, Sizes
  <2>4. (l[k] + 1) * Power[k] <= Base * Power[k] /\ l[k] * Power[k] \in Nat
    BY <2>3
  <2>5. (l[k] + 1) * Power[k] = l[k] * Power[k] + Power[k]
    BY <2>3
  <2>6. Base * Power[k] \in Nat
    BY <2>3
  <2> QED
    BY <2>1, <2>2, <2>3, <2>4, <2>5, <2>6
<1> HIDE DEF S
<1>3. 0 .. MaxLimbs \subseteq S
  BY <1>1, <1>2, Sizes, InductionUpTo
<1> QED
  BY <1>3 DEF S

\* Limbs that are zero are worth nothing.
LEMMA ZerosValue ==
  ASSUME NEW n \in 0 .. MaxLimbs
  PROVE  Value(Zeros, n) = 0
<1> DEFINE S == {k \in Nat : Value(Zeros, k) = 0}
<1>1. 0 \in S
  BY NoLimbs, Storing
<1>2. ASSUME NEW k \in 0 .. MaxLimbs - 1, k \in S PROVE k + 1 \in S
  <2>1. k \in Index /\ Value(Zeros, k) = 0 /\ k + 1 \in Nat
    BY <1>2, Sizes
  <2>2. Value(Zeros, k + 1) = Value(Zeros, k) + 0 * Power[k]
    BY <2>1, Storing, NextLimb DEF Zeros
  <2>3. Power[k] \in Nat
    BY <2>1, LimbPowers, Sizes
  <2> QED
    BY <2>1, <2>2, <2>3
<1> HIDE DEF S
<1>3. 0 .. MaxLimbs \subseteq S
  BY <1>1, <1>2, Sizes, InductionUpTo
<1> QED
  BY <1>3 DEF S

\* Equal runs of limbs at the same place are worth the same.
LEMMA EqualRuns ==
  ASSUME NEW l \in Arrays, NEW k \in Arrays, NEW n \in 0 .. MaxLimbs, NEW h \in n .. MaxLimbs,
         \A j \in n .. h - 1 : l[j] = k[j]
  PROVE  Value(l, h) - Value(l, n) = Value(k, h) - Value(k, n)
<1> DEFINE S == {r \in Nat : n + r <= h =>
                   Value(l, n + r) - Value(l, n) = Value(k, n + r) - Value(k, n)}
<1>1. 0 \in S
  <2>1. Value(l, n) \in Nat /\ Value(k, n) \in Nat /\ n + 0 = n
    BY ValueRange
  <2> QED
    BY <2>1
<1>2. ASSUME NEW r \in Nat, r \in S PROVE r + 1 \in S
  <2> SUFFICES ASSUME n + (r + 1) <= h
               PROVE  Value(l, n + (r + 1)) - Value(l, n) = Value(k, n + (r + 1)) - Value(k, n)
    OBVIOUS
  <2>1. n + r \in Index /\ n + r \in n .. h - 1 /\ n + r \in 0 .. MaxLimbs /\ n + (r + 1) = (n + r) + 1
    BY Sizes
  <2>2. /\ Value(l, (n + r) + 1) = Value(l, n + r) + l[n + r] * Power[n + r]
        /\ Value(k, (n + r) + 1) = Value(k, n + r) + l[n + r] * Power[n + r]
    BY <2>1, NextLimb
  <2>3. Value(l, n + r) - Value(l, n) = Value(k, n + r) - Value(k, n)
    BY <1>2, <2>1
  <2>4. /\ Value(l, n) \in Nat /\ Value(k, n) \in Nat
        /\ Value(l, n + r) \in Nat /\ Value(k, n + r) \in Nat
    BY <2>1, ValueRange
  <2>5. l[n + r] * Power[n + r] \in Nat
    BY <2>1, Storing, LimbPowers
  <2> QED
    BY <2>1, <2>2, <2>3, <2>4, <2>5
<1> HIDE DEF S
<1>3. h - n \in S
  <2>1. Nat \subseteq S
    BY <1>1, <1>2, Induction
  <2> QED
    BY <2>1
<1> QED
  BY <1>3 DEF S

\* Limbs moved down q places are worth Power[q] times less.
LEMMA MovedRun ==
  ASSUME NEW l \in Arrays, NEW k \in Arrays, NEW q \in 0 .. MaxLimbs, NEW n \in 0 .. MaxLimbs - q,
         \A j \in 0 .. n - 1 : k[j] = l[j + q]
  PROVE  Value(l, n + q) = Value(l, q) + Power[q] * Value(k, n)
<1> DEFINE S == {r \in Nat : r <= n => Value(l, r + q) = Value(l, q) + Power[q] * Value(k, r)}
<1>1. 0 \in S
  <2>1. Value(k, 0) = 0 /\ Power[q] \in Nat /\ Value(l, q) \in Nat /\ 0 + q = q
    BY NoLimbs, LimbPowers, ValueRange
  <2> QED
    BY <2>1
<1>2. ASSUME NEW r \in Nat, r \in S PROVE r + 1 \in S
  <2> SUFFICES ASSUME r + 1 <= n
               PROVE  Value(l, (r + 1) + q) = Value(l, q) + Power[q] * Value(k, r + 1)
    OBVIOUS
  <2>1. /\ r \in Index /\ r + q \in Index /\ (r + 1) + q = (r + q) + 1
        /\ r \in 0 .. n - 1 /\ r \in 0 .. MaxLimbs
    BY Sizes
  <2>2. /\ Value(l, (r + q) + 1) = Value(l, r + q) + l[r + q] * Power[r + q]
        /\ Value(k, r + 1) = Value(k, r) + l[r + q] * Power[r]
    BY <2>1, NextLimb
  <2>3. Value(l, r + q) = Value(l, q) + Power[q] * Value(k, r)
    BY <1>2, <2>1
  <2>4. Power[r + q] = Power[q] * Power[r]
    <3>1. Base ^ (r + q) = Base ^ r * Base ^ q
      BY <2>1, Sizes, PowersAssumption, PowerSum
    <3>2. Base ^ r \in Nat /\ Base ^ q \in Nat
      BY <2>1, Sizes, PowersAssumption, PowerType
    <3>3. r + q \in 0 .. MaxLimbs
      BY <2>1, Sizes
    <3> QED
      BY <2>1, <3>1, <3>2, <3>3 DEF Power
  <2>5. /\ Power[q] \in Nat /\ Power[r] \in Nat /\ l[r + q] \in Nat
        /\ Value(l, q) \in Nat /\ Value(k, r) \in Nat
    BY <2>1, Storing, LimbPowers, ValueRange
  <2>6. \A v, p, x, d, w \in Nat : (v + p * x) + d * (p * w) = v + p * (x + d * w)
    OBVIOUS
  <2> QED
    BY <2>1, <2>2, <2>3, <2>4, <2>5, <2>6
<1> HIDE DEF S
<1>3. Nat \subseteq S
  BY <1>1, <1>2, Induction
<1> QED
  BY <1>3 DEF S

LEMMA SameValue ==
  ASSUME NEW l \in Arrays, NEW k \in Arrays, NEW n \in 0 .. MaxLimbs,
         \A j \in 0 .. n - 1 : l[j] = k[j]
  PROVE  Value(l, n) = Value(k, n)
<1>1. 0 \in 0 .. MaxLimbs /\ n \in 0 .. MaxLimbs
  BY Sizes
<1>2. Value(l, n) - Value(l, 0) = Value(k, n) - Value(k, 0)
  BY <1>1, EqualRuns
<1> QED
  BY <1>2, NoLimbs, ValueRange

\* Above its length a number may be anything; read as zeros it is worth the same.
LEMMA ZeroTail ==
  ASSUME NEW l \in Arrays, NEW n \in 0 .. MaxLimbs, NEW h \in n .. MaxLimbs,
         \A j \in n .. h - 1 : l[j] = 0
  PROVE  Value(l, h) = Value(l, n)
<1>1. h \in 0 .. MaxLimbs /\ \A j \in n .. h - 1 : j \in Index
  BY Sizes
<1>2. \A j \in n .. h - 1 : l[j] = Zeros[j]
  BY <1>1 DEF Zeros
<1>3. Value(l, h) - Value(l, n) = Value(Zeros, h) - Value(Zeros, n)
  BY <1>2, Storing, EqualRuns
<1>4. Value(Zeros, h) = 0 /\ Value(Zeros, n) = 0
  BY <1>1, ZerosValue
<1> QED
  BY <1>1, <1>3, <1>4, ValueRange

\* A limb stored at k leaves what is below it and what is above it as they are.
Store(l, k, v) == [l EXCEPT ![k] = v]
LEMMA StoreLimb ==
  ASSUME NEW l \in Arrays, NEW k \in Index, NEW v \in Limb
  PROVE  /\ Store(l, k, v) \in Arrays
         /\ \A j \in Index : Store(l, k, v)[j] = IF j = k THEN v ELSE l[j]
         /\ Value(Store(l, k, v), k) = Value(l, k)
         /\ Value(Store(l, k, v), k + 1) = Value(l, k) + v * Power[k]
         /\ \A n \in k + 1 .. MaxLimbs :
              Value(Store(l, k, v), n) - Value(Store(l, k, v), k + 1) = Value(l, n) - Value(l, k + 1)
<1> DEFINE q == Store(l, k, v)
<1>1. q \in Arrays /\ \A j \in Index : q[j] = IF j = k THEN v ELSE l[j]
  BY DEF Arrays, Store
<1> HIDE DEF q
<1>2. k \in 0 .. MaxLimbs /\ k + 1 \in 0 .. MaxLimbs /\ \A j \in 0 .. k - 1 : j \in Index /\ j # k
  BY Sizes
<1>3. Value(q, k) = Value(l, k)
  <2>1. \A j \in 0 .. k - 1 : q[j] = l[j]
    BY <1>1, <1>2
  <2> QED
    BY <2>1, <1>1, <1>2, SameValue
<1>4. Value(q, k + 1) = Value(l, k) + v * Power[k]
  <2>1. q[k] = v
    BY <1>1
  <2> QED
    BY <2>1, <1>1, <1>3, NextLimb
<1>5. ASSUME NEW n \in k + 1 .. MaxLimbs
      PROVE  Value(q, n) - Value(q, k + 1) = Value(l, n) - Value(l, k + 1)
  <2>1. \A j \in k + 1 .. n - 1 : j \in Index /\ j # k
    BY Sizes
  <2>2. \A j \in k + 1 .. n - 1 : q[j] = l[j]
    BY <2>1, <1>1
  <2> QED
    BY <2>2, <1>1, <1>2, EqualRuns
<1> QED
  BY <1>1, <1>3, <1>4, <1>5 DEF q

---------------------------------------------------------------------------
(* The numbers of the program. *)

\* The limbs a loop starts from are worth the number, in any length.
LEMMA CleanedValue ==
  ASSUME limb \in Arrays, len \in 0 .. MaxLimbs
  PROVE  /\ Cleaned \in Arrays
         /\ \A j \in Index : Cleaned[j] = IF j < len THEN limb[j] ELSE 0
         /\ Value(Cleaned, len) = Number
         /\ Value(Cleaned, MaxLimbs) = Number
<1>1. Cleaned \in Arrays /\ \A j \in Index : Cleaned[j] = IF j < len THEN limb[j] ELSE 0
  BY SizesAssumption DEF Cleaned, Arrays, Limb
<1>2. len \in Nat /\ (\A j \in 0 .. len - 1 : j \in Index /\ j < len)
                  /\ (\A j \in len .. MaxLimbs - 1 : j \in Index /\ ~(j < len))
  BY Sizes
<1>3. Value(Cleaned, len) = Number
  <2>1. \A j \in 0 .. len - 1 : Cleaned[j] = limb[j]
    BY <1>1, <1>2
  <2> QED
    BY <2>1, <1>1, SameValue DEF Number
<1>4. Value(Cleaned, MaxLimbs) = Value(Cleaned, len)
  <2>1. \A j \in len .. MaxLimbs - 1 : Cleaned[j] = 0
    BY <1>1, <1>2
  <2>2. MaxLimbs \in len .. MaxLimbs
    BY Sizes
  <2> QED
    BY <2>1, <2>2, <1>1, ZeroTail
<1> QED
  BY <1>1, <1>3, <1>4

\* What a loop has not reached is worth what it was worth when the loop began.
LEMMA UntouchedValue ==
  ASSUME TypeOK, i <= len, Untouched(i)
  PROVE  /\ Value(limb, len) - Value(limb, i) = Value(old, len) - Value(old, i)
         /\ Value(old, MaxLimbs) = Value(old, len)
<1>1. limb \in Arrays /\ old \in Arrays /\ len \in 0 .. MaxLimbs /\ i \in 0 .. MaxLimbs
  BY DEF TypeOK
<1>2. (\A j \in i .. len - 1 : limb[j] = old[j]) /\ \A j \in len .. MaxLimbs - 1 : old[j] = 0
  BY <1>1, Sizes DEF Untouched
<1>3. len \in i .. MaxLimbs /\ MaxLimbs \in len .. MaxLimbs
  BY <1>1, Sizes
<1>4. Value(limb, len) - Value(limb, i) = Value(old, len) - Value(old, i)
  BY <1>1, <1>2, <1>3, EqualRuns
<1>5. Value(old, MaxLimbs) = Value(old, len)
  BY <1>1, <1>2, <1>3, ZeroTail
<1> QED
  BY <1>4, <1>5

\* A sum of limbs and a carry, split into the limb stored and the carry passed on.
LEMMA LimbSplit ==
  ASSUME NEW x \in Nat, NEW p \in Nat
  PROVE  /\ x % Base \in Limb /\ x \div Base \in Nat
         /\ x = Base * (x \div Base) + (x % Base)
         /\ (x % Base) * p + (x \div Base) * (Base * p) = x * p
         /\ x < Base => x \div Base = 0
<1>1. Base \in Nat \ {0}
  BY Sizes
<1>2. x = Base * (x \div Base) + (x % Base) /\ x % Base \in 0 .. Base - 1 /\ x \div Base \in Nat
  BY <1>1, DivMod
<1>3. ASSUME NEW r \in Nat, NEW d \in Nat, x = Base * d + r
      PROVE  r * p + d * (Base * p) = x * p
  BY <1>1, <1>3
<1>4. (x % Base) * p + (x \div Base) * (Base * p) = x * p
  BY <1>2, <1>3
<1>5. x < Base => x \div Base = 0
  <2>1. x < Base * 1 => x \div Base < 1
    BY <1>1, QuotientBound
  <2> QED
    BY <2>1, <1>1, <1>2
<1> QED
  BY <1>2, <1>4, <1>5, Storing

\* The product of a limb and a factor, and a carry less than the factor.
LEMMA ProductBound ==
  ASSUME NEW d \in 0 .. Base - 1, NEW f \in Nat, NEW c \in 0 .. f - 1
  PROVE  /\ d * f + c \in Nat /\ d * f + c < Base * f
         /\ d # 0 => d * f + c # 0
<1>1. Base \in Nat /\ Base > 1 /\ f > 0
  BY Sizes
<1>2. d * f \in Nat /\ Base * f \in Nat
  BY <1>1
<1>3. d * f <= (Base - 1) * f /\ (Base - 1) * f = Base * f - f
  BY <1>1
<1>4. d # 0 => d * f >= f
  BY <1>1
<1> QED
  BY <1>1, <1>2, <1>3, <1>4

\* One turn of a loop that carries: the limb and the carry are worth what was added at k.
Carried(l, k, x) == Store(l, k, x % Base)
LEMMA CarryOn ==
  ASSUME NEW l \in Arrays, NEW k \in Index, NEW x \in Nat
  PROVE  /\ Carried(l, k, x) \in Arrays /\ x \div Base \in Nat
         /\ \A j \in Index : Carried(l, k, x)[j] = IF j = k THEN x % Base ELSE l[j]
         /\ Value(Carried(l, k, x), k + 1) + (x \div Base) * Power[k + 1]
              = Value(l, k) + x * Power[k]
<1> USE DEF Carried
<1> DEFINE p == Power[k]
           q == Store(l, k, x % Base)
<1>1. k \in 0 .. MaxLimbs /\ p \in Nat /\ Power[k + 1] = Base * p
  BY Sizes, LimbPowers
<1>2. /\ x % Base \in Limb /\ x \div Base \in Nat
      /\ (x % Base) * p + (x \div Base) * (Base * p) = x * p
  BY <1>1, LimbSplit
<1>3. /\ q \in Arrays /\ \A j \in Index : q[j] = IF j = k THEN x % Base ELSE l[j]
      /\ Value(q, k + 1) = Value(l, k) + (x % Base) * p
  BY <1>2, StoreLimb
<1>4. Value(l, k) \in Nat
  BY <1>1, ValueRange
<1> HIDE DEF p, q
<1>5. (x % Base) * p \in Nat /\ (x \div Base) * (Base * p) \in Nat /\ x * p \in Nat
  <2>1. \A u, v \in Nat : u * v \in Nat
    OBVIOUS
  <2>2. x % Base \in Nat /\ Base \in Nat
    BY <1>2, Sizes, Storing
  <2> QED
    BY <2>1, <2>2, <1>1, <1>2
<1>6. Value(q, k + 1) + (x \div Base) * (Base * p) = Value(l, k) + x * p
  BY <1>2, <1>3, <1>4, <1>5
<1> QED
  BY <1>1, <1>2, <1>3, <1>6 DEF p, q


---------------------------------------------------------------------------
(* What the steps inside a call leave alone. *)

LEMMA TypeStep ==
  ASSUME TypeOK, UNCHANGED <<op, b, arg, table, left, shift, m, old, start, want>>,
         limb' \in Arrays, len' \in 0 .. MaxLimbs, i' \in 0 .. MaxLimbs, carry' \in Nat,
         exact' \in BOOLEAN, pc' \in Where
  PROVE  TypeOK'
BY DEF TypeOK

\* The result owed changes only with the factors of a product.
LEMMA WantStep ==
  ASSUME WantInv, pc # "factors",
         UNCHANGED <<op, b, arg, table, left, shift, m, start, want>>
  PROVE  WantInv'
BY DEF WantInv, Result

---------------------------------------------------------------------------
(* Products. *)

LEMMA MulTurnInv ==
  ASSUME LoopInv, MulTurn
  PROVE  LoopInv'
<1>1. /\ pc = "mul" /\ i < len /\ TypeOK /\ MulInv /\ WantInv
      /\ UNCHANGED <<len, op, b, arg, table, left, shift, m, exact, pc, old, start, want>>
      /\ limb' = Carried(limb, i, Product) /\ carry' = Product \div Base /\ i' = i + 1
  BY DEF LoopInv, MulTurn, call, driver, history, Store, Carried
<1>2. /\ limb \in Arrays /\ old \in Arrays /\ i \in Index /\ len \in 0 .. MaxLimbs
      /\ carry \in Nat /\ m \in Nat /\ m > 0 /\ carry < m
      /\ limb[i] \in 0 .. Base - 1 /\ limb[i] = old[i] /\ Digit \in Nat
  BY <1>1, Sizes, Storing DEF TypeOK, MulInv, Untouched, Digit
<1>3. /\ Product \in Nat /\ Product < Base * m /\ Product = limb[i] * m + carry
      /\ limb[i] # 0 => Product # 0
  BY <1>2, ProductBound DEF Product
<1>4. /\ limb' \in Arrays /\ carry' \in Nat
      /\ \A j \in Index : limb'[j] = IF j = i THEN Product % Base ELSE limb[j]
      /\ Value(limb', i + 1) + carry' * Power[i + 1] = Value(limb, i) + Product * Power[i]
  <2>1. limb \in Arrays /\ i \in Index /\ Product \in Nat
    BY <1>2, <1>3
  <2>2. /\ Carried(limb, i, Product) \in Arrays /\ Product \div Base \in Nat
        /\ \A j \in Index : Carried(limb, i, Product)[j] = IF j = i THEN Product % Base ELSE limb[j]
        /\ Value(Carried(limb, i, Product), i + 1) + (Product \div Base) * Power[i + 1]
             = Value(limb, i) + Product * Power[i]
    BY <2>1, CarryOn
  <2> QED
    BY <2>2, <1>1
<1>5. carry' < m
  <2>1. Product \in Nat /\ Base \in Nat \ {0} /\ m \in Nat /\ Product < Base * m
    BY <1>2, <1>3, Sizes
  <2> QED
    BY <2>1, <1>1, QuotientBound
<1> DEFINE p == Power[i]
<1>6. p \in Nat /\ i + 1 \in 0 .. MaxLimbs /\ i \in 0 .. MaxLimbs
  BY <1>2, LimbPowers, Sizes
<1>7. TypeOK'
  BY <1>1, <1>4, <1>6, TypeStep DEF TypeOK
<1>8. Value(limb', i + 1) + carry' * Power[i + 1] = m * Value(old, i + 1) + Digit
  <2>1. Product * p = m * (old[i] * p) + carry * p
    BY <1>2, <1>3, <1>6
  <2>2. Value(old, i + 1) = Value(old, i) + old[i] * p
    BY <1>2, NextLimb
  <2>3. Value(limb, i) + carry * p = m * Value(old, i) + Digit
    BY <1>1 DEF MulInv
  <2> QED
    BY <2>1, <2>2, <2>3, <1>2, <1>4, <1>6, ValueRange
<1>9. Untouched(i)'
  BY <1>1, <1>2, <1>4, Sizes DEF Untouched, MulInv
<1>10. old[i] # 0 => carry' # 0 \/ limb'[i] # 0
  <2>1. old[i] # 0 => Product # 0
    BY <1>2, <1>3
  <2>2. Product = Base * carry' + (Product % Base) /\ limb'[i] = Product % Base
    BY <1>1, <1>2, <1>3, <1>4, LimbSplit
  <2> QED
    BY <2>1, <2>2, Sizes
<1>11. MulInv'
  <2>1. i' \in Nat /\ i' <= len /\ i' - 1 = i
    BY <1>1, <1>2, Sizes
  <2> QED
    BY <1>1, <1>2, <1>5, <1>8, <1>9, <1>10, <2>1 DEF MulInv, Digit
<1> QED
  BY <1>1, <1>7, <1>11, WantStep DEF LoopInv, KeepsOnRefusal

LEMMA MulEndInv ==
  ASSUME LoopInv, MulEnd
  PROVE  LoopInv'
<1>1. /\ pc = "mul" /\ i >= len /\ pc' = "append" /\ TypeOK /\ MulInv /\ WantInv
      /\ UNCHANGED <<limb, len, op, b, arg, table, left, shift, m, i, carry, exact, old, start, want>>
  BY DEF LoopInv, MulEnd, number, call, driver, loop, history
<1>2. i = len /\ limb \in Arrays /\ old \in Arrays /\ len \in 1 .. MaxLimbs /\ carry \in Nat
      /\ m \in Nat /\ Digit \in Nat
  BY <1>1, Sizes DEF TypeOK, MulInv, Proper, Digit
<1>3. TypeOK'
  BY <1>1, TypeStep DEF TypeOK, Where
<1>4. Value(limb, len) + carry * Power[len] = want
  BY <1>1, <1>2 DEF MulInv
<1>5. carry # 0 \/ Proper(limb, len)
  BY <1>1, <1>2 DEF MulInv, Proper
<1>6. op = "append" => carry < Base /\ (carry # 0 => len < MaxLimbs)
  <2>1. SUFFICES ASSUME op = "append" PROVE carry < Base /\ (carry # 0 => len < MaxLimbs)
    OBVIOUS
  <2>2. carry < Base
    BY <2>1, <1>1, <1>2, SizesAssumption DEF MulInv
  <2>3. SUFFICES ASSUME carry # 0, len = MaxLimbs PROVE FALSE
    BY <2>2, <1>2, Sizes
  <2>4. want < Power[len] /\ Power[len] \in Nat /\ Value(limb, len) \in Nat
    BY <2>1, <2>3, <1>1, <1>2, LimbPowers, ValueRange DEF MulInv
  <2>5. carry * Power[len] >= Power[len]
    BY <2>3, <2>4, <1>2
  <2> QED
    BY <2>4, <2>5, <1>2, <1>4
<1>7. AppendInv'
  BY <1>1, <1>4, <1>5, <1>6 DEF AppendInv, MulInv
<1> QED
  BY <1>1, <1>3, <1>7, WantStep DEF LoopInv, KeepsOnRefusal

\* The limbs of the carry, most of all those of from_u64.
LEMMA AppendLimbInv ==
  ASSUME LoopInv, AppendLimb
  PROVE  LoopInv'
<1>1. /\ pc = "append" /\ carry # 0 /\ len < MaxLimbs /\ TypeOK /\ AppendInv /\ WantInv
      /\ UNCHANGED <<op, b, arg, table, left, shift, m, i, exact, pc, old, start, want>>
      /\ limb' = Carried(limb, len, carry) /\ carry' = carry \div Base /\ len' = len + 1
  BY DEF LoopInv, AppendLimb, call, driver, history, Store, Carried
<1>2. limb \in Arrays /\ len \in Index /\ carry \in Nat /\ len + 1 \in 1 .. MaxLimbs
  BY <1>1, Sizes DEF TypeOK
<1>3. /\ limb' \in Arrays /\ carry' \in Nat
      /\ \A j \in Index : limb'[j] = IF j = len THEN carry % Base ELSE limb[j]
      /\ Value(limb', len + 1) + carry' * Power[len + 1] = Value(limb, len) + carry * Power[len]
  <2>1. /\ Carried(limb, len, carry) \in Arrays /\ carry \div Base \in Nat
        /\ \A j \in Index : Carried(limb, len, carry)[j] = IF j = len THEN carry % Base ELSE limb[j]
        /\ Value(Carried(limb, len, carry), len + 1) + (carry \div Base) * Power[len + 1]
             = Value(limb, len) + carry * Power[len]
    BY <1>2, CarryOn
  <2> QED
    BY <2>1, <1>1
<1>4. TypeOK'
  BY <1>1, <1>2, <1>3, TypeStep DEF TypeOK
<1>5. carry = Base * carry' + (carry % Base) /\ limb'[len] = carry % Base
  BY <1>1, <1>2, <1>3, LimbSplit
<1>6. carry' # 0 \/ Proper(limb', len')
  <2>1. len' - 1 = len
    BY <1>1, <1>2, Sizes
  <2> QED
    BY <2>1, <1>1, <1>2, <1>5, Sizes DEF Proper
<1>7. carry < Base => carry' = 0
  BY <1>1, <1>2, LimbSplit
<1>8. AppendInv'
  BY <1>1, <1>2, <1>3, <1>6, <1>7, Sizes DEF AppendInv
<1> QED
  BY <1>1, <1>4, <1>8, WantStep DEF LoopInv, KeepsOnRefusal

LEMMA AppendFullInv ==
  ASSUME LoopInv, AppendFull
  PROVE  LoopInv'
<1>1. /\ pc = "append" /\ carry # 0 /\ len >= MaxLimbs /\ TypeOK /\ AppendInv /\ WantInv
      /\ UNCHANGED <<op, b, arg, table, left, shift, m, i, carry, exact, old, start, want>>
      /\ \/ pc' = "lost" /\ len' = 1 /\ limb' = Store(limb, 0, 0)
         \/ pc' = "refused" /\ UNCHANGED <<limb, len>>
  BY DEF LoopInv, AppendFull, number, call, driver, loop, history, Store
<1>2. op # "append"
  BY <1>1, Sizes DEF AppendInv, TypeOK
<1>3. limb' \in Arrays /\ len' \in 0 .. MaxLimbs
  <2>1. limb \in Arrays /\ 0 \in Index /\ 0 \in Limb /\ len \in 0 .. MaxLimbs /\ 1 \in 0 .. MaxLimbs
    BY <1>1, Sizes, Storing DEF TypeOK
  <2>2. Store(limb, 0, 0) \in Arrays
    BY <2>1, StoreLimb
  <2> QED
    BY <2>1, <2>2, <1>1
<1>4. TypeOK'
  BY <1>1, <1>3, TypeStep DEF TypeOK, Where
<1>5. WantInv'
  BY <1>1, WantStep
<1>6. op # "toU64"
  BY <1>1 DEF AppendInv
<1> QED
  BY <1>1, <1>2, <1>4, <1>5, <1>6 DEF LoopInv, KeepsOnRefusal

LEMMA AppendEndInv ==
  ASSUME LoopInv, AppendEnd
  PROVE  LoopInv'
<1>1. /\ pc = "append" /\ carry = 0 /\ TypeOK /\ AppendInv /\ WantInv
      /\ UNCHANGED <<limb, len, op, b, arg, table, left, shift, m, i, carry, exact, old, start, want>>
      /\ pc' = IF op \in {"append", "fromU64"} THEN "done" ELSE "factors"
  BY DEF LoopInv, AppendEnd, number, call, driver, loop, history
<1>2. Proper(limb, len) /\ Number = want
  <2>1. limb \in Arrays /\ len \in 0 .. MaxLimbs
    BY <1>1 DEF TypeOK
  <2>2. Power[len] \in Nat /\ Value(limb, len) \in Nat
    BY <2>1, LimbPowers, ValueRange
  <2> QED
    BY <2>2, <1>1 DEF AppendInv, Number
<1>3. TypeOK'
  BY <1>1, TypeStep DEF TypeOK, Where
<1>4. CASE op \in {"append", "fromU64"}
  <2>1. DoneInv'
    BY <1>1, <1>2, <1>4 DEF DoneInv, Number, Grows, Divides
  <2> QED
    BY <2>1, <1>1, <1>3, <1>4, WantStep DEF LoopInv, KeepsOnRefusal
<1>5. CASE op \notin {"append", "fromU64"}
  <2>1. FactorsInv'
    BY <1>1, <1>2, <1>5 DEF FactorsInv, AppendInv, Number
  <2> QED
    BY <2>1, <1>1, <1>3, <1>5, WantStep DEF LoopInv, KeepsOnRefusal
<1> QED
  BY <1>4, <1>5

---------------------------------------------------------------------------
(* The dry run before a digit is appended to a full number. *)

\* One limb more: a number of value w is w div p whole units of p, or the next one up.
LEMMA ProbeArithmetic ==
  ASSUME NEW d \in 0 .. Base - 1, NEW f \in Nat, NEW c \in 0 .. f - 1,
         NEW p \in Nat, NEW v \in Nat, NEW a \in Nat,
         c * p <= f * v + a, f * v + a < (c + 1) * p
  PROVE  /\ ((d * f + c) \div Base) * (Base * p) <= f * (v + d * p) + a
         /\ f * (v + d * p) + a < ((d * f + c) \div Base + 1) * (Base * p)
<1> DEFINE x == d * f + c
           q == x \div Base
<1>1. Base \in Nat /\ Base > 1
  BY Sizes
<1>2. x \in Nat
  BY ProductBound
<1>3. q \in Nat /\ Base * q <= x /\ x + 1 <= Base * q + Base
  <2>1. x = Base * q + (x % Base) /\ q \in Nat /\ x % Base \in 0 .. Base - 1
    BY <1>2, LimbSplit, Storing
  <2> HIDE DEF x, q
  <2> QED
    BY <2>1, <1>1, <1>2
<1>4. x * p = f * (d * p) + c * p /\ (x + 1) * p = f * (d * p) + (c + 1) * p
  OBVIOUS
<1>5. f * (v + d * p) = f * v + f * (d * p)
  OBVIOUS
<1> HIDE DEF x, q
<1>6. ASSUME NEW u \in Nat, NEW w \in Nat, u <= w PROVE u * p <= w * p
  BY <1>6
<1>7. Base * q \in Nat /\ x + 1 \in Nat /\ Base * q + Base \in Nat
  BY <1>1, <1>2, <1>3
<1>8. (Base * q) * p <= x * p /\ (x + 1) * p <= (Base * q + Base) * p
  BY <1>2, <1>3, <1>6, <1>7
<1>9. q * (Base * p) = (Base * q) * p /\ (q + 1) * (Base * p) = (Base * q + Base) * p
  BY <1>1, <1>3
<1>10. f * v \in Nat /\ f * (d * p) \in Nat /\ c * p \in Nat /\ (c + 1) * p \in Nat
  OBVIOUS
<1>11. (Base * q) * p \in Nat /\ (Base * q + Base) * p \in Nat
  BY <1>7
<1>12. q * (Base * p) <= f * (v + d * p) + a /\ f * (v + d * p) + a < (q + 1) * (Base * p)
  BY <1>4, <1>5, <1>8, <1>9, <1>10, <1>11
<1> QED
  BY <1>12 DEF x, q

LEMMA ProbeTurnInv ==
  ASSUME LoopInv, ProbeTurn
  PROVE  LoopInv'
<1>1. /\ pc = "probe" /\ i < len /\ TypeOK /\ ProbeInv /\ WantInv
      /\ UNCHANGED <<limb, len, op, b, arg, table, left, shift, m, exact, pc, old, start, want>>
      /\ carry' = (limb[i] * m + carry) \div Base /\ i' = i + 1
  BY DEF LoopInv, ProbeTurn, Product, number, call, driver, history
<1>2. limb \in Arrays /\ i \in Index /\ len \in 0 .. MaxLimbs /\ i + 1 \in 0 .. MaxLimbs
      /\ i \in 0 .. MaxLimbs
  BY <1>1, Sizes DEF TypeOK
<1>3. /\ m \in Nat /\ carry \in 0 .. m - 1 /\ limb[i] \in 0 .. Base - 1 /\ arg \in Nat
      /\ limb[i] * m + carry \in Nat /\ limb[i] * m + carry < Base * m
  <2>1. m \in Nat /\ carry \in 0 .. m - 1 /\ arg \in Nat
    BY <1>1 DEF TypeOK, ProbeInv
  <2>2. limb[i] \in 0 .. Base - 1
    BY <1>2, Storing
  <2> QED
    BY <2>1, <2>2, ProductBound
<1>4. carry' \in Nat /\ carry' < m
  <2>1. Base \in Nat \ {0}
    BY Sizes
  <2>2. (limb[i] * m + carry) \div Base < m /\ (limb[i] * m + carry) \div Base \in Nat
    BY <2>1, <1>3, QuotientBound, LimbSplit
  <2> QED
    BY <2>2, <1>1
<1>5. TypeOK'
  BY <1>1, <1>2, <1>4, TypeStep DEF TypeOK
<1>6. /\ Power[i] \in Nat /\ Power[i + 1] = Base * Power[i] /\ Value(limb, i) \in Nat
      /\ Value(limb, i + 1) = Value(limb, i) + limb[i] * Power[i]
  BY <1>2, LimbPowers, ValueRange, NextLimb
<1>7. carry * Power[i] <= m * Value(limb, i) + arg /\ m * Value(limb, i) + arg < (carry + 1) * Power[i]
  BY <1>1 DEF ProbeInv
<1>8. /\ ((limb[i] * m + carry) \div Base) * (Base * Power[i])
           <= m * (Value(limb, i) + limb[i] * Power[i]) + arg
      /\ m * (Value(limb, i) + limb[i] * Power[i]) + arg
           < ((limb[i] * m + carry) \div Base + 1) * (Base * Power[i])
  BY <1>3, <1>6, <1>7, ProbeArithmetic
<1>9. ProbeInv'
  <2>1. /\ carry' * Power[i'] <= m * Value(limb, i') + arg
        /\ m * Value(limb, i') + arg < (carry' + 1) * Power[i']
    BY <1>1, <1>6, <1>8
  <2>2. i' <= len
    BY <1>1, <1>2, Sizes
  <2> QED
    BY <2>1, <2>2, <1>1, <1>4 DEF ProbeInv
<1> QED
  BY <1>1, <1>5, <1>9, WantStep DEF LoopInv, KeepsOnRefusal

LEMMA ProbeEndInv ==
  ASSUME LoopInv, ProbeEnd
  PROVE  LoopInv'
<1>1. /\ pc = "probe" /\ i >= len /\ TypeOK /\ ProbeInv /\ WantInv
      /\ UNCHANGED <<limb, len, op, b, arg, table, left, shift, m, exact, old, start, want>>
      /\ \/ carry # 0 /\ pc' = "refused" /\ UNCHANGED <<i, carry>>
         \/ carry = 0 /\ pc' = "mul" /\ i' = 0 /\ carry' = arg
  BY DEF LoopInv, ProbeEnd, number, call, driver, loop, history
<1>2. /\ limb \in Arrays /\ len = MaxLimbs /\ i = len /\ carry \in Nat /\ m \in Nat /\ arg \in Nat
      /\ MaxLimbs \in Nat
  BY <1>1, Sizes DEF TypeOK, ProbeInv
<1>3. TypeOK'
  <2>1. 0 \in 0 .. MaxLimbs
    BY Sizes
  <2> QED
    BY <2>1, <1>1, <1>2, TypeStep DEF TypeOK, Where
<1>4. WantInv'
  BY <1>1, WantStep
<1>5. CASE pc' = "refused"
  BY <1>1, <1>3, <1>4, <1>5 DEF LoopInv, KeepsOnRefusal, ProbeInv, Number
<1>6. CASE pc' = "mul"
  <2>1. carry = 0 /\ i' = 0 /\ carry' = arg
    BY <1>1, <1>6
  <2>2. want < Power[MaxLimbs]
    <3>1. Power[MaxLimbs] \in Nat
      BY <1>2, LimbPowers
    <3> QED
      BY <3>1, <2>1, <1>1, <1>2 DEF ProbeInv
  <2>3. Value(limb, 0) = 0 /\ Value(old, 0) = 0 /\ Power[0] = 1
    BY <1>1, <1>2, NoLimbs, LimbPowers DEF ProbeInv
  <2>4. m > 0 /\ IsSmall(m) /\ arg < m
    <3>1. Base * Radix <= Base * Base
      BY SizesAssumption
    <3> QED
      BY <3>1, <1>1, <1>2, SizesAssumption DEF ProbeInv, IsSmall
  <2>5. Untouched(i)'
    BY <2>1, <1>1, <1>2 DEF Untouched, ProbeInv
  <2>6. Value(limb, 0) + arg * Power[0] = m * Value(old, 0) + arg
    BY <2>3, <1>2
  <2>7. MulInv'
    BY <2>1, <2>2, <2>4, <2>5, <2>6, <1>1, <1>2 DEF MulInv, ProbeInv, Digit
  <2> QED
    BY <2>7, <1>1, <1>3, <1>4, <1>6 DEF LoopInv, KeepsOnRefusal
<1> QED
  BY <1>1, <1>5, <1>6

---------------------------------------------------------------------------
(* Sums.  Where the number has no limb yet, a zero is appended to it. *)

\* What both loops read at i is the limb the loop began with, appended or not.
LEMMA ExtendedLimb ==
  ASSUME TypeOK, i \in Index, i <= len, Untouched(i)
  PROVE  /\ Extended = old[i] /\ Extended \in 0 .. Base - 1
         /\ Value(old, i + 1) = Value(old, i) + Extended * Power[i]
<1>1. old \in Arrays /\ old[i] \in 0 .. Base - 1
  BY Storing DEF TypeOK
<1>2. Extended = old[i]
  BY Sizes DEF Extended, Untouched
<1> QED
  BY <1>1, <1>2, NextLimb

\* What is not reached stays so when the limb at i is written and the number extended.
LEMMA UntouchedBeyond ==
  ASSUME TypeOK, i \in Index, i <= len, Untouched(i), Extend, i' = i + 1, old' = old,
         NEW v, \A j \in Index : limb'[j] = IF j = i THEN v ELSE limb[j]
  PROVE  Untouched(i)' /\ i' <= len' /\ len' \in 1 .. MaxLimbs
<1>1. len \in 0 .. MaxLimbs /\ len' \in 1 .. MaxLimbs /\ i + 1 <= len'
      /\ i \in Nat /\ (len' = len \/ (len' = i + 1 /\ len <= i))
  BY Sizes DEF TypeOK, Extend
<1>2. ASSUME NEW j \in i + 1 .. MaxLimbs - 1
      PROVE  IF j < len' THEN limb'[j] = old[j] ELSE old[j] = 0
  <2>1. j \in Index /\ j # i /\ j \in i .. MaxLimbs - 1 /\ (j < len' <=> j < len)
    BY <1>1, Sizes
  <2>2. IF j < len THEN limb[j] = old[j] ELSE old[j] = 0
    BY <2>1 DEF Untouched
  <2> QED
    BY <2>1, <2>2
<1> QED
  BY <1>1, <1>2 DEF Untouched

LEMMA SumArithmetic ==
  ASSUME NEW l \in Nat, NEW o \in Nat, NEW c \in Nat, NEW p \in Nat, NEW d \in Nat, NEW a \in Nat,
         l + c * p = o + a
  PROVE  l + (d + c) * p = (o + d * p) + a
<1>1. (d + c) * p = d * p + c * p /\ d * p \in Nat /\ c * p \in Nat
  OBVIOUS
<1> QED
  BY <1>1

LEMMA AddSmallTurnInv ==
  ASSUME LoopInv, AddSmallTurn
  PROVE  LoopInv'
<1> DEFINE x == Extended + carry
<1>1. /\ pc = "addSmall" /\ carry # 0 /\ i < MaxLimbs /\ TypeOK /\ AddSmallInv /\ WantInv
      /\ UNCHANGED <<op, b, arg, table, left, shift, m, exact, pc, old, start, want>>
      /\ limb' = Carried(limb, i, x) /\ carry' = x \div Base /\ i' = i + 1 /\ Extend
  BY DEF LoopInv, AddSmallTurn, call, driver, history, Carried, Store
<1>2. /\ limb \in Arrays /\ i \in Index /\ carry \in Nat /\ i <= len /\ len \in 0 .. MaxLimbs
      /\ Untouched(i) /\ arg \in Nat /\ i + 1 \in 0 .. MaxLimbs /\ i \in 0 .. MaxLimbs
      /\ old \in Arrays
  BY <1>1, Sizes DEF TypeOK, AddSmallInv
<1>3. /\ Extended \in 0 .. Base - 1 /\ x \in Nat /\ x # 0
      /\ Value(old, i + 1) = Value(old, i) + Extended * Power[i]
  <2>1. Extended \in 0 .. Base - 1 /\ Value(old, i + 1) = Value(old, i) + Extended * Power[i]
    BY <1>1, <1>2, ExtendedLimb
  <2> QED
    BY <2>1, <1>1, <1>2, Sizes
<1> HIDE DEF x
<1>4. /\ limb' \in Arrays /\ carry' \in Nat
      /\ \A j \in Index : limb'[j] = IF j = i THEN x % Base ELSE limb[j]
      /\ Value(limb', i + 1) + carry' * Power[i + 1] = Value(limb, i) + x * Power[i]
  <2>1. /\ Carried(limb, i, x) \in Arrays /\ x \div Base \in Nat
        /\ \A j \in Index : Carried(limb, i, x)[j] = IF j = i THEN x % Base ELSE limb[j]
        /\ Value(Carried(limb, i, x), i + 1) + (x \div Base) * Power[i + 1]
             = Value(limb, i) + x * Power[i]
    <3>1. limb \in Arrays /\ i \in Index /\ x \in Nat
      BY <1>2, <1>3
    <3> QED
      BY <3>1, CarryOn
  <2> QED
    BY <2>1, <1>1
<1>5. Untouched(i)' /\ i' <= len' /\ len' \in 1 .. MaxLimbs
  BY <1>1, <1>2, <1>4, UntouchedBeyond
<1>6. TypeOK'
  BY <1>1, <1>2, <1>4, <1>5, TypeStep, Sizes DEF TypeOK
<1>7. Value(limb', i + 1) + carry' * Power[i + 1] = Value(old, i + 1) + arg
  <2>1. /\ Value(limb, i) \in Nat /\ Value(old, i) \in Nat /\ Power[i] \in Nat /\ Extended \in Nat
        /\ Value(limb, i) + carry * Power[i] = Value(old, i) + arg
    <3>1. Value(limb, i) \in Nat /\ Value(old, i) \in Nat /\ Power[i] \in Nat
      BY <1>2, ValueRange, LimbPowers
    <3>2. Extended \in Nat
      BY <1>3, Sizes
    <3> QED
      BY <3>1, <3>2, <1>1 DEF AddSmallInv
  <2>2. Value(limb, i) + (Extended + carry) * Power[i] = (Value(old, i) + Extended * Power[i]) + arg
    BY <2>1, <1>2, SumArithmetic
  <2> QED
    BY <2>2, <1>3, <1>4 DEF x
<1>8. carry' # 0 \/ limb'[i] # 0
  <2>1. x = Base * (x \div Base) + (x % Base)
    BY <1>3, LimbSplit
  <2> QED
    BY <2>1, <1>1, <1>2, <1>3, <1>4, Sizes
<1>9. len' = 1 \/ (len' > 1 /\ limb'[len' - 1] # 0) \/ (carry' # 0 /\ i' = len')
  <2>1. CASE i + 1 < len
    <3>1. len' = len /\ len - 1 \in Index /\ len - 1 # i /\ i # len /\ len > 1
      BY <2>1, <1>1, <1>2, Sizes DEF Extend
    <3>2. limb[len - 1] # 0 /\ limb'[len - 1] = limb[len - 1]
      BY <3>1, <1>1, <1>4 DEF AddSmallInv
    <3> QED
      BY <3>1, <3>2
  <2>2. CASE i + 1 >= len
    <3>1. len' = i + 1 /\ i' = len' /\ len' - 1 = i /\ len' \in Nat /\ len' >= 1
      BY <2>2, <1>1, <1>2, Sizes DEF Extend
    <3> QED
      BY <3>1, <1>8
  <2> QED
    BY <2>1, <2>2, <1>2, Sizes
<1>10. AddSmallInv'
  BY <1>1, <1>5, <1>7, <1>9 DEF AddSmallInv
<1> QED
  BY <1>1, <1>6, <1>10, WantStep DEF LoopInv, KeepsOnRefusal

\* The second operand, like the number itself, is worth the same in any length.
Widened(x) == [k \in Index |-> IF k < x.len THEN x.limb[k] ELSE 0]
LEMMA PaddedValue ==
  ASSUME NEW x \in [limb : Arrays, len : 1 .. MaxLimbs]
  PROVE  /\ Widened(x) \in Arrays
         /\ \A k \in Index : Widened(x)[k] = IF k < x.len THEN x.limb[k] ELSE 0
         /\ \A n \in x.len .. MaxLimbs : Value(Widened(x), n) = Value(x.limb, x.len)
<1> DEFINE q == Widened(x)
<1>1. x.limb \in Arrays /\ x.len \in 1 .. MaxLimbs /\ x.len \in 0 .. MaxLimbs
  BY Sizes
<1>2. q \in Arrays /\ \A k \in Index : q[k] = IF k < x.len THEN x.limb[k] ELSE 0
  <2>1. 0 \in Limb /\ \A k \in Index : x.limb[k] \in Limb
    BY <1>1, Sizes, Storing
  <2> QED
    BY <2>1 DEF Widened, Arrays
<1> HIDE DEF q
<1>3. Value(q, x.len) = Value(x.limb, x.len)
  <2>1. \A j \in 0 .. x.len - 1 : j \in Index /\ j < x.len
    BY <1>1, Sizes
  <2>2. \A j \in 0 .. x.len - 1 : q[j] = x.limb[j]
    BY <2>1, <1>2
  <2> QED
    BY <2>2, <1>1, <1>2, SameValue
<1>4. ASSUME NEW n \in x.len .. MaxLimbs
      PROVE  Value(q, n) = Value(x.limb, x.len)
  <2>1. \A j \in x.len .. n - 1 : j \in Index /\ ~(j < x.len)
    BY <1>1, Sizes
  <2>2. \A j \in x.len .. n - 1 : q[j] = 0
    BY <2>1, <1>2
  <2>3. Value(q, n) = Value(q, x.len)
    BY <2>2, <1>1, <1>2, ZeroTail
  <2> QED
    BY <2>3, <1>3
<1> QED
  BY <1>2, <1>3, <1>4 DEF q

LEMMA OtherValue ==
  ASSUME TypeOK
  PROVE  /\ Operand \in Arrays
         /\ \A k \in Index : Operand[k] = IF k < b.len THEN b.limb[k] ELSE 0
         /\ \A n \in b.len .. MaxLimbs : Value(Operand, n) = Value(b.limb, b.len)
<1>1. b \in [limb : Arrays, len : 1 .. MaxLimbs]
  BY DEF TypeOK
<1>2. Operand = Widened(b)
  BY DEF Operand, Widened
<1> QED
  BY <1>1, <1>2, PaddedValue

LEMMA AddTurnInv ==
  ASSUME LoopInv, AddTurn
  PROVE  LoopInv'
<1> DEFINE y == Operand[i]
           x == Extended + carry + y
<1>1. /\ pc = "add" /\ i < MaxLimbs /\ TypeOK /\ AddInv /\ WantInv
      /\ UNCHANGED <<op, b, arg, table, left, shift, m, exact, pc, old, start, want>>
      /\ i' = i + 1 /\ Extend
  BY DEF LoopInv, AddTurn, call, driver, history
<1>2. /\ limb \in Arrays /\ i \in Index /\ carry \in 0 .. 1 /\ i <= len /\ len \in 0 .. MaxLimbs
      /\ Untouched(i) /\ i + 1 \in 0 .. MaxLimbs /\ i \in 0 .. MaxLimbs /\ old \in Arrays
  BY <1>1, Sizes DEF TypeOK, AddInv
<1>3. /\ Extended \in 0 .. Base - 1
      /\ Value(old, i + 1) = Value(old, i) + Extended * Power[i]
  BY <1>1, <1>2, ExtendedLimb
<1>4. /\ Operand \in Arrays /\ y \in 0 .. Base - 1
      /\ y = IF i < b.len THEN b.limb[i] ELSE 0
      /\ Value(Operand, i + 1) = Value(Operand, i) + y * Power[i]
  <2>1. Operand \in Arrays /\ \A k \in Index : Operand[k] = IF k < b.len THEN b.limb[k] ELSE 0
    BY <1>1, OtherValue
  <2> QED
    BY <2>1, <1>2, NextLimb, Storing
<1>5. \/ x >= Base /\ limb' = Store(limb, i, x - Base) /\ carry' = 1
      \/ x < Base /\ limb' = Store(limb, i, x) /\ carry' = 0
  BY <1>4 DEF AddTurn, Store
<1> HIDE DEF y
<1>6. PICK v \in Limb : limb' = Store(limb, i, v) /\ carry' \in 0 .. 1 /\ v + Base * carry' = x
  <2>1. x \in 0 .. Base + Base - 1
    BY <1>2, <1>3, <1>4, Sizes
  <2> HIDE DEF x
  <2>2. CASE x >= Base
    <3>1. x - Base \in Limb
      BY <2>1, <2>2, Sizes, Storing
    <3> QED
      BY <3>1, <2>1, <2>2, <1>5, Sizes
  <2>3. CASE x < Base
    <3>1. x \in Limb
      BY <2>1, <2>3, Sizes, Storing
    <3> QED
      BY <3>1, <2>1, <2>3, <1>5, Sizes
  <2> QED
    BY <2>1, <2>2, <2>3, Sizes
<1>7. /\ limb' \in Arrays /\ \A j \in Index : limb'[j] = IF j = i THEN v ELSE limb[j]
      /\ Value(limb', i + 1) = Value(limb, i) + v * Power[i]
  <2>1. /\ Store(limb, i, v) \in Arrays
        /\ \A j \in Index : Store(limb, i, v)[j] = IF j = i THEN v ELSE limb[j]
        /\ Value(Store(limb, i, v), i + 1) = Value(limb, i) + v * Power[i]
    BY <1>2, StoreLimb
  <2> QED
    BY <2>1, <1>6
<1>8. Untouched(i)' /\ i' <= len' /\ len' \in 1 .. MaxLimbs
  BY <1>1, <1>2, <1>7, UntouchedBeyond
<1>9. TypeOK'
  BY <1>1, <1>2, <1>6, <1>7, <1>8, TypeStep, Sizes DEF TypeOK
<1> DEFINE p == Power[i]
           c == carry'
<1>10. Value(limb', i + 1) + c * Power[i + 1] = Value(old, i + 1) + Value(Operand, i + 1)
  <2>1. /\ Value(limb, i) \in Nat /\ Value(old, i) \in Nat /\ Value(Operand, i) \in Nat /\ p \in Nat
        /\ Power[i + 1] = Base * p
    BY <1>2, <1>4, ValueRange, LimbPowers
  <2>2. Value(limb, i) + carry * p = Value(old, i) + Value(Operand, i)
    BY <1>1 DEF AddInv
  <2>3. v \in Nat /\ c \in Nat /\ Base \in Nat /\ Extended \in Nat /\ y \in Nat /\ carry \in Nat
    <3>1. Extended \in Nat /\ y \in Nat /\ Base \in Nat
      BY <1>3, <1>4, Sizes
    <3>2. v \in Nat
      BY <1>6, Storing, Sizes
    <3>3. carry \in Nat /\ c \in Nat
      BY <1>2, <1>6
    <3> QED
      BY <3>1, <3>2, <3>3
  <2>4. v + Base * c = Extended + carry + y
    BY <1>6
  <2> HIDE DEF p, c
  <2>5. v * p + c * (Base * p) = (v + Base * c) * p
    BY <2>1, <2>3
  <2>6. (Extended + carry + y) * p = Extended * p + carry * p + y * p
    BY <2>1, <2>3
  <2>7. v * p + c * (Base * p) = Extended * p + carry * p + y * p
    BY <2>4, <2>5, <2>6
  <2>8. /\ v * p \in Nat /\ c * (Base * p) \in Nat /\ Extended * p \in Nat /\ carry * p \in Nat
        /\ y * p \in Nat
    BY <2>1, <2>3
  <2>9. (Value(limb, i) + v * p) + c * (Base * p)
          = (Value(old, i) + Extended * p) + (Value(Operand, i) + y * p)
    BY <2>1, <2>2, <2>7, <2>8
  <2> QED
    BY <2>1, <2>9, <1>3, <1>4, <1>7 DEF p
<1>11. Operand' = Operand
  BY <1>1 DEF Operand
<1>12. AddInv'
  BY <1>1, <1>6, <1>8, <1>10, <1>11, Sizes DEF AddInv
<1> QED
  BY <1>1, <1>9, <1>12, WantStep DEF LoopInv, KeepsOnRefusal

LEMMA GrowFullInv ==
  ASSUME LoopInv, GrowFull
  PROVE  LoopInv'
<1>1. /\ pc \in {"add", "addSmall"} /\ pc' = "refused" /\ TypeOK /\ WantInv
      /\ pc = "add" => op = "add"
      /\ pc = "addSmall" => op = "addSmall"
      /\ UNCHANGED <<limb, len, op, b, arg, table, left, shift, m, i, carry, exact, old, start, want>>
  BY DEF LoopInv, GrowFull, AddInv, AddSmallInv, number, call, driver, loop, history
<1>2. TypeOK'
  BY <1>1, TypeStep DEF TypeOK, Where
<1>3. WantInv'
  BY <1>1, WantStep
<1> QED
  BY <1>1, <1>2, <1>3 DEF LoopInv, KeepsOnRefusal

LEMMA GrowEndInv ==
  ASSUME LoopInv, GrowEnd
  PROVE  LoopInv'
<1>1. /\ TypeOK /\ WantInv /\ carry = 0
      /\ UNCHANGED <<limb, len, op, b, arg, table, left, shift, m, i, carry, exact, old, start, want>>
      /\ \/ pc = "addSmall" /\ AddSmallInv /\ pc' = "done"
         \/ pc = "add" /\ AddInv /\ i >= MaxLen /\ pc' = "normalize"
  BY DEF LoopInv, GrowEnd, number, call, driver, loop, history
<1>2. /\ limb \in Arrays /\ old \in Arrays /\ len \in 0 .. MaxLimbs /\ i \in 0 .. MaxLimbs
      /\ i <= len /\ Untouched(i)
  BY <1>1 DEF TypeOK, AddSmallInv, AddInv
<1>3. /\ Value(limb, len) - Value(limb, i) = Value(old, len) - Value(old, i)
      /\ Value(old, MaxLimbs) = Value(old, len)
  BY <1>1, <1>2, UntouchedValue
<1>4. /\ Value(limb, len) \in Nat /\ Value(limb, i) \in Nat /\ Value(old, len) \in Nat
      /\ Value(old, i) \in Nat
  BY <1>2, ValueRange
<1>5. Power[i] \in Nat /\ carry * Power[i] = 0
  BY <1>1, <1>2, LimbPowers
<1>6. TypeOK'
  BY <1>1, TypeStep DEF TypeOK, Where
<1>7. WantInv'
  BY <1>1, WantStep
<1>8. CASE pc = "addSmall"
  <2>1. pc' = "done" /\ AddSmallInv
    BY <1>1, <1>8
  <2>2. Number = want
    <3>1. arg \in Nat
      BY <1>1 DEF TypeOK
    <3> QED
      BY <3>1, <2>1, <1>3, <1>4, <1>5 DEF Number, AddSmallInv
  <2>3. Proper(limb, len)
    BY <2>1, <1>1, <1>2 DEF AddSmallInv, Proper
  <2>4. DoneInv'
    BY <2>1, <2>2, <2>3, <1>1 DEF DoneInv, AddSmallInv, Number, Divides
  <2> QED
    BY <2>1, <2>4, <1>6, <1>7 DEF LoopInv, KeepsOnRefusal
<1>9. CASE pc = "add"
  <2>1. pc' = "normalize" /\ AddInv /\ i >= MaxLen /\ op = "add"
    BY <1>1, <1>9 DEF AddInv
  <2>2. b.len \in 1 .. MaxLimbs /\ i >= b.len /\ i = len /\ len >= 1
    BY <2>1, <1>1, <1>2 DEF MaxLen, TypeOK, AddInv
  <2>3. Value(Operand, i) = Value(Operand, MaxLimbs) /\ Operand \in Arrays
    <3>1. i \in b.len .. MaxLimbs /\ MaxLimbs \in b.len .. MaxLimbs
      BY <2>2, <1>2, Sizes
    <3> QED
      BY <3>1, <1>1, OtherValue
  <2>4. Value(Operand, i) \in Nat
    BY <2>3, <1>2, ValueRange
  <2>5. Number = want
    BY <2>1, <2>2, <2>3, <2>4, <1>3, <1>4, <1>5 DEF Number, AddInv
  <2>6. NormalizeInv'
    BY <2>1, <2>2, <2>5, <1>1 DEF NormalizeInv, Number, Divides
  <2> QED
    BY <2>1, <2>6, <1>6, <1>7 DEF LoopInv, KeepsOnRefusal
<1> QED
  BY <1>1, <1>8, <1>9

---------------------------------------------------------------------------
(* Differences. *)

LEMMA BorrowTurnInv ==
  ASSUME LoopInv, BorrowTurn
  PROVE  LoopInv'
<1> DEFINE y == IF pc = "sub" THEN Operand[i] ELSE 0
           x == carry + y
           other(n) == IF pc = "sub" THEN Value(Operand, n) ELSE arg
<1>1. /\ i < len /\ TypeOK /\ WantInv
      /\ (pc = "sub" /\ SubInv) \/ (pc = "subSmall" /\ SubSmallInv)
      /\ UNCHANGED <<len, op, b, arg, table, left, shift, m, exact, pc, old, start, want>>
      /\ i' = i + 1
  BY DEF LoopInv, BorrowTurn, call, driver, history
<1>2. /\ limb \in Arrays /\ i \in Index /\ carry \in 0 .. Base /\ i <= len /\ len \in 1 .. MaxLimbs
      /\ Untouched(i) /\ i + 1 \in 0 .. MaxLimbs /\ i \in 0 .. MaxLimbs /\ old \in Arrays
      /\ arg \in Nat
  BY <1>1, Sizes DEF TypeOK, SubInv, SubSmallInv
<1>3. /\ limb[i] = old[i] /\ limb[i] \in 0 .. Base - 1
      /\ Value(old, i + 1) = Value(old, i) + limb[i] * Power[i]
  <2>1. limb[i] = old[i]
    BY <1>1, <1>2, Sizes DEF Untouched
  <2> QED
    BY <2>1, <1>2, NextLimb, Storing
<1>4. Operand \in Arrays /\ \A k \in Index : Operand[k] = IF k < b.len THEN b.limb[k] ELSE 0
  BY <1>1, OtherValue
<1>5. /\ x \in 0 .. Base /\ y \in 0 .. Base - 1
      /\ x = carry + (IF pc = "sub" /\ i < b.len THEN b.limb[i] ELSE 0)
  <2>1. Operand[i] \in 0 .. Base - 1 /\ Operand[i] = IF i < b.len THEN b.limb[i] ELSE 0
    BY <1>2, <1>4, Storing
  <2>2. CASE pc = "sub"
    <3>1. carry \in 0 .. 1
      BY <2>2, <1>1, <1>2 DEF SubInv
    <3> QED
      BY <3>1, <2>1, <2>2, Sizes
  <2>3. CASE pc = "subSmall"
    BY <2>3, <1>2, Sizes
  <2> QED
    BY <2>2, <2>3, <1>1
<1>6. \/ limb[i] >= x /\ limb' = Store(limb, i, limb[i] - x) /\ carry' = 0
      \/ limb[i] < x /\ limb' = Store(limb, i, limb[i] + Base - x) /\ carry' = 1
  BY <1>5 DEF BorrowTurn, Store
<1> HIDE DEF y
<1>7. PICK v \in Limb : /\ limb' = Store(limb, i, v) /\ carry' \in 0 .. 1
                        /\ v + carry + y = limb[i] + Base * carry'
  <2>1. x = carry + y /\ carry \in Nat /\ y \in Nat
    BY <1>2, <1>5
  <2> HIDE DEF x
  <2>2. CASE limb[i] >= x
    <3>1. limb[i] - x \in Limb
      BY <2>2, <1>3, <1>5, Sizes, Storing
    <3> QED
      BY <3>1, <2>1, <2>2, <1>3, <1>5, <1>6, Sizes
  <2>3. CASE limb[i] < x
    <3>1. limb[i] + Base - x \in Limb
      BY <2>3, <1>3, <1>5, Sizes, Storing, SMTT(60)
    <3> QED
      BY <3>1, <2>1, <2>3, <1>3, <1>5, <1>6, Sizes, SMTT(60)
  <2> QED
    BY <2>2, <2>3, <1>3, <1>5
<1>8. /\ limb' \in Arrays /\ \A j \in Index : limb'[j] = IF j = i THEN v ELSE limb[j]
      /\ Value(limb', i + 1) = Value(limb, i) + v * Power[i]
  <2>1. /\ Store(limb, i, v) \in Arrays
        /\ \A j \in Index : Store(limb, i, v)[j] = IF j = i THEN v ELSE limb[j]
        /\ Value(Store(limb, i, v), i + 1) = Value(limb, i) + v * Power[i]
    BY <1>2, StoreLimb
  <2> QED
    BY <2>1, <1>7
<1>9. Untouched(i)' /\ i' <= len
  BY <1>1, <1>2, <1>8, Sizes DEF Untouched
<1>10. TypeOK'
  BY <1>1, <1>2, <1>7, <1>8, TypeStep, Sizes DEF TypeOK
<1>11. Value(limb', i + 1) - carry' * Power[i + 1]
         = Value(old, i + 1) - (other(i) + y * Power[i])
  <2>1. /\ Value(limb, i) \in Nat /\ Value(old, i) \in Nat /\ Power[i] \in Nat
        /\ Power[i + 1] = Base * Power[i]
    BY <1>2, ValueRange, LimbPowers
  <2>2. other(i) \in Nat
    <3>1. Value(Operand, i) \in Nat
      BY <1>2, <1>4, ValueRange
    <3> QED
      BY <3>1, <1>2
  <2>3. Value(limb, i) - carry * Power[i] = Value(old, i) - other(i)
    BY <1>1 DEF SubInv, SubSmallInv
  <2>4. carry \in Nat /\ limb[i] \in Nat /\ y \in Nat
    BY <1>2, <1>3, <1>5, Sizes
  <2>5. v \in Nat /\ carry' \in Nat
    BY <1>7, Storing, Sizes
  <2> DEFINE p == Power[i]
             c == carry'
  <2>6. v + carry + y = limb[i] + Base * c
    BY <1>7
  <2> HIDE DEF other, p, c
  <2>7. p \in Nat /\ c \in Nat /\ Base \in Nat
    BY <2>1, <2>5, Sizes DEF p, c
  <2>8. /\ (v + carry + y) * p = v * p + carry * p + y * p
        /\ (limb[i] + Base * c) * p = limb[i] * p + c * (Base * p)
    BY <2>4, <2>5, <2>7
  <2>9. v * p + carry * p + y * p = limb[i] * p + c * (Base * p)
    BY <2>6, <2>8
  <2>10. /\ v * p \in Nat /\ carry * p \in Nat /\ y * p \in Nat /\ limb[i] * p \in Nat
         /\ c * (Base * p) \in Nat
    BY <2>4, <2>5, <2>7
  <2>11. (Value(limb, i) + v * p) - c * (Base * p)
           = (Value(old, i) + limb[i] * p) - (other(i) + y * p)
    BY <2>1, <2>2, <2>3, <2>9, <2>10 DEF p
  <2> QED
    BY <2>1, <2>11, <1>3, <1>8 DEF p, c
<1>12. CASE pc = "sub"
  <2>1. Value(Operand, i + 1) = other(i) + y * Power[i] /\ Operand' = Operand
    BY <1>1, <1>2, <1>4, <1>12, NextLimb DEF y, Operand
  <2>2. SubInv'
    BY <2>1, <1>1, <1>7, <1>9, <1>11, <1>12 DEF SubInv
  <2> QED
    BY <2>2, <1>1, <1>10, <1>12, WantStep DEF LoopInv, KeepsOnRefusal
<1>13. CASE pc = "subSmall"
  <2>1. other(i) + y * Power[i] = arg
    <3>1. Power[i] \in Nat
      BY <1>2, LimbPowers
    <3> QED
      BY <3>1, <1>2, <1>13 DEF y
  <2>2. carry' <= Base
    BY <1>7, Sizes
  <2>3. SubSmallInv'
    BY <2>1, <2>2, <1>1, <1>9, <1>11, <1>13 DEF SubSmallInv
  <2> QED
    BY <2>3, <1>1, <1>10, <1>13, WantStep DEF LoopInv, KeepsOnRefusal
<1> QED
  BY <1>1, <1>12, <1>13

LEMMA BorrowEndInv ==
  ASSUME LoopInv, BorrowEnd
  PROVE  LoopInv'
<1>1. /\ TypeOK /\ WantInv
      /\ UNCHANGED <<limb, len, op, b, arg, table, left, shift, m, i, carry, exact, old, start, want>>
      /\ \/ pc = "sub" /\ SubInv /\ i >= len
         \/ pc = "subSmall" /\ SubSmallInv /\ (i >= len \/ carry = 0)
      /\ pc' = IF carry # 0 THEN "refused" ELSE "normalize"
  BY DEF LoopInv, BorrowEnd, number, call, driver, loop, history
<1>2. /\ limb \in Arrays /\ old \in Arrays /\ len \in 0 .. MaxLimbs /\ i \in 0 .. MaxLimbs
      /\ i <= len /\ len >= 1 /\ Untouched(i) /\ op \in {"sub", "subSmall"} /\ arg \in Nat
  BY <1>1 DEF TypeOK, SubInv, SubSmallInv
<1>3. TypeOK'
  BY <1>1, TypeStep DEF TypeOK, Where
<1>4. WantInv'
  BY <1>1, WantStep
<1>5. CASE carry # 0
  BY <1>1, <1>2, <1>3, <1>4, <1>5 DEF LoopInv, KeepsOnRefusal
<1>6. CASE carry = 0
  <2>1. Value(limb, len) - Value(limb, i) = Value(old, len) - Value(old, i)
    BY <1>1, <1>2, UntouchedValue
  <2>2. /\ Value(limb, len) \in Nat /\ Value(limb, i) \in Nat /\ Value(old, len) \in Nat
        /\ Value(old, i) \in Nat
    BY <1>2, ValueRange
  <2>3. Power[i] \in Nat /\ carry * Power[i] = 0
    BY <1>2, <1>6, LimbPowers
  <2>4. Operand \in Arrays /\ Value(Operand, i) \in Nat
    BY <1>1, <1>2, OtherValue, ValueRange
  <2>5. Number = want
    <3>1. CASE pc = "sub"
      <4>1. i = len
        BY <3>1, <1>1, <1>2
      <4> QED
        BY <4>1, <3>1, <2>2, <2>3, <2>4, <1>1 DEF SubInv, Number
    <3>2. CASE pc = "subSmall"
      BY <3>2, <2>1, <2>2, <2>3, <1>1, <1>2 DEF SubSmallInv, Number
    <3> QED
      BY <3>1, <3>2, <1>1
  <2>6. NormalizeInv'
    BY <2>5, <1>1, <1>2 DEF NormalizeInv, Number, Divides
  <2> QED
    BY <2>6, <1>1, <1>3, <1>4, <1>6 DEF LoopInv, KeepsOnRefusal
<1> QED
  BY <1>5, <1>6

---------------------------------------------------------------------------
(* Quotients.  The limbs are read from the top, the carry is the remainder. *)

\* A remainder and the limb below it, against the divisor.
LEMMA DividendBound ==
  ASSUME NEW d \in 0 .. Base - 1, NEW f \in Nat, NEW c \in 0 .. f - 1
  PROVE  /\ c * Base + d \in Nat /\ c * Base + d < f * Base
         /\ (c * Base + d) \div f \in Limb /\ (c * Base + d) % f \in 0 .. f - 1
         /\ f * ((c * Base + d) \div f) + ((c * Base + d) % f) = c * Base + d
<1> DEFINE x == c * Base + d
<1>1. Base \in Nat /\ f \in Nat \ {0} /\ f \in Nat /\ Limb = 0 .. Base - 1
  BY Sizes, Storing
<1>2. x \in Nat /\ x < f * Base
  <2>1. c * Base <= (f - 1) * Base /\ (f - 1) * Base = f * Base - Base
    BY <1>1
  <2>2. c * Base \in Nat /\ f * Base \in Nat
    BY <1>1
  <2> QED
    BY <2>1, <2>2, <1>1
<1> HIDE DEF x
<1>3. x \div f < Base
  BY <1>1, <1>2, QuotientBound
<1>4. x = f * (x \div f) + (x % f) /\ x \div f \in Nat /\ x % f \in 0 .. f - 1
  BY <1>1, <1>2, DivMod
<1> QED
  BY <1>1, <1>2, <1>3, <1>4 DEF x

LEMMA DivTurnInv ==
  ASSUME LoopInv, DivTurn
  PROVE  LoopInv'
<1> DEFINE k == i - 1
           x == carry * Base + limb[k]
           v == x \div m
           c == x % m
<1>1. /\ pc = "div" /\ i > 0 /\ TypeOK /\ DivInv /\ WantInv
      /\ UNCHANGED <<len, op, b, arg, table, left, shift, m, exact, pc, old, start, want>>
      /\ limb' = Store(limb, k, v) /\ carry' = c /\ i' = k
  BY DEF LoopInv, DivTurn, Dividend, call, driver, history, Store
<1>2. /\ limb \in Arrays /\ k \in Index /\ len \in k + 1 .. MaxLimbs /\ k + 1 = i /\ len \in 0 .. MaxLimbs
      /\ m \in Nat /\ carry \in 0 .. m - 1 /\ k \in 0 .. MaxLimbs /\ i \in 0 .. MaxLimbs
  BY <1>1, Sizes DEF TypeOK, DivInv
<1>3. limb[k] \in 0 .. Base - 1
  BY <1>2, Storing
<1>4. x \in Nat /\ v \in Limb /\ c \in 0 .. m - 1 /\ m * v + c = x
  BY <1>2, <1>3, DividendBound
<1> HIDE DEF v, c
<1>5. /\ limb' \in Arrays
      /\ Value(limb', k) = Value(limb, k)
      /\ Value(limb', i) = Value(limb, k) + v * Power[k]
      /\ Value(limb', len) - Value(limb', i) = Value(limb, len) - Value(limb, i)
  <2>1. /\ Store(limb, k, v) \in Arrays
        /\ Value(Store(limb, k, v), k) = Value(limb, k)
        /\ Value(Store(limb, k, v), k + 1) = Value(limb, k) + v * Power[k]
        /\ \A n \in k + 1 .. MaxLimbs :
             Value(Store(limb, k, v), n) - Value(Store(limb, k, v), k + 1)
               = Value(limb, n) - Value(limb, k + 1)
    BY <1>2, <1>4, StoreLimb
  <2> HIDE DEF k
  <2> QED
    BY <2>1, <1>1, <1>2
<1>6. TypeOK'
  BY <1>1, <1>2, <1>4, <1>5, TypeStep DEF TypeOK
<1> DEFINE p == Power[k]
<1>7. m * (Value(limb', len) - Value(limb', k)) + c * p + Value(limb', k) = want
  <2>1. /\ Value(limb, len) \in Nat /\ Value(limb, i) \in Nat /\ Value(limb, k) \in Nat
        /\ Value(limb', len) \in Nat /\ Value(limb', i) \in Nat
    BY <1>2, <1>5, ValueRange
  <2>2. p \in Nat /\ Power[i] = Base * p /\ Value(limb, i) = Value(limb, k) + limb[k] * p
    <3>1. p \in Nat /\ Power[k + 1] = Base * p /\ Value(limb, k + 1) = Value(limb, k) + limb[k] * p
      BY <1>2, LimbPowers, NextLimb
    <3> HIDE DEF k, p
    <3> QED
      BY <3>1, <1>2
  <2>3. m * (Value(limb, len) - Value(limb, i)) + carry * Power[i] + Value(limb, i) = want
    BY <1>1 DEF DivInv
  <2> DEFINE h == Value(limb, len) - Value(limb, i)
             w == Value(limb, k)
             d == limb[k]
  <2>4. h \in Int /\ w \in Nat /\ d \in Nat /\ v \in Nat /\ c \in Nat /\ carry \in Nat /\ Base \in Nat
        /\ m \in Nat
    <3>1. h \in Int /\ w \in Nat
      BY <2>1
    <3>2. v \in Nat /\ d \in Nat
      BY <1>3, <1>4, Storing, Sizes
    <3>3. c \in Nat /\ carry \in Nat /\ Base \in Nat
      BY <1>2, <1>4, Sizes
    <3> QED
      BY <3>1, <3>2, <3>3, <1>2
  <2>5. Value(limb', len) - Value(limb', k) = h + v * p /\ Value(limb', k) = w
    <3>1. v * p \in Nat
      BY <2>2, <2>4
    <3> QED
      BY <3>1, <2>1, <1>5
  <2>6. m * v + c = carry * Base + d
    BY <1>4
  <2>7. m * h + carry * (Base * p) + (w + d * p) = want
    BY <2>2, <2>3
  <2> HIDE DEF h, w, d, p
  <2>8. m * (h + v * p) + c * p = m * h + (m * v + c) * p
    BY <2>2, <2>4
  <2>9. (carry * Base + d) * p = carry * (Base * p) + d * p
    BY <2>2, <2>4
  <2>10. m * h \in Int /\ carry * (Base * p) \in Nat /\ d * p \in Nat
    BY <2>2, <2>4
  <2>11. m * (h + v * p) + c * p = m * h + (carry * (Base * p) + d * p)
    BY <2>6, <2>8, <2>9
  <2>12. m * h + (carry * (Base * p) + d * p) + w = want
    BY <2>4, <2>7, <2>10
  <2>13. m * (h + v * p) + c * p + w = want
    BY <2>11, <2>12
  <2> QED
    BY <2>5, <2>13
<1>8. DivInv'
  BY <1>1, <1>2, <1>4, <1>7 DEF DivInv
<1> QED
  BY <1>1, <1>6, <1>8, WantStep DEF LoopInv, KeepsOnRefusal

LEMMA DivEndInv ==
  ASSUME LoopInv, DivEnd
  PROVE  LoopInv'
<1>1. /\ pc = "div" /\ i = 0 /\ pc' = "normalize" /\ TypeOK /\ DivInv /\ WantInv
      /\ exact' = (exact /\ carry = 0)
      /\ UNCHANGED <<limb, len, op, b, arg, table, left, shift, m, i, carry, old, start, want>>
  BY DEF LoopInv, DivEnd, number, call, driver, loop, history
<1>2. TypeOK'
  <2>1. exact' \in BOOLEAN
    BY <1>1
  <2> QED
    BY <2>1, <1>1, TypeStep DEF TypeOK, Where
<1>3. want = m * Number + carry /\ carry < m
  <2>1. limb \in Arrays /\ len \in 0 .. MaxLimbs /\ m \in Nat /\ carry \in Nat
    BY <1>1 DEF TypeOK
  <2>2. Value(limb, 0) = 0 /\ Power[0] = 1 /\ Value(limb, len) \in Nat
    BY <2>1, NoLimbs, LimbPowers, ValueRange
  <2> QED
    BY <2>1, <2>2, <1>1 DEF DivInv, Number
<1>4. NormalizeInv'
  BY <1>1, <1>3 DEF NormalizeInv, DivInv, Number, Divides
<1> QED
  BY <1>1, <1>2, <1>4, WantStep DEF LoopInv, KeepsOnRefusal

---------------------------------------------------------------------------
(* Leading zeros, and the way back to a machine word. *)

LEMMA StripLimbInv ==
  ASSUME LoopInv, StripLimb
  PROVE  LoopInv'
<1>1. /\ pc = "normalize" /\ len > 1 /\ limb[len - 1] = 0 /\ TypeOK /\ NormalizeInv /\ WantInv
      /\ UNCHANGED <<limb, op, b, arg, table, left, shift, m, i, carry, exact, pc, old, start, want>>
      /\ len' = len - 1
  BY DEF LoopInv, StripLimb, call, driver, loop, history
<1>2. limb \in Arrays /\ len \in 0 .. MaxLimbs /\ len - 1 \in 0 .. MaxLimbs /\ len - 1 \in Index
      /\ (len - 1) + 1 = len
  BY <1>1, Sizes DEF TypeOK
<1>3. Value(limb, len) = Value(limb, len - 1)
  <2>1. Value(limb, (len - 1) + 1) = Value(limb, len - 1) + limb[len - 1] * Power[len - 1]
    BY <1>2, NextLimb
  <2>2. Power[len - 1] \in Nat /\ Value(limb, len - 1) \in Nat
    BY <1>2, LimbPowers, ValueRange
  <2>3. limb[len - 1] * Power[len - 1] = 0
    BY <2>2, <1>1
  <2> QED
    BY <2>1, <2>2, <2>3, <1>2
<1>4. TypeOK'
  BY <1>1, <1>2, TypeStep DEF TypeOK
<1>5. NormalizeInv'
  BY <1>1, <1>2, <1>3 DEF NormalizeInv, Number
<1> QED
  BY <1>1, <1>4, <1>5, WantStep DEF LoopInv, KeepsOnRefusal

LEMMA StrippedInv ==
  ASSUME LoopInv, Stripped
  PROVE  LoopInv'
<1>1. /\ pc = "normalize" /\ (len = 1 \/ limb[len - 1] # 0) /\ pc' = "done"
      /\ TypeOK /\ NormalizeInv /\ WantInv
      /\ UNCHANGED <<limb, len, op, b, arg, table, left, shift, m, i, carry, exact, old, start, want>>
  BY DEF LoopInv, Stripped, number, call, driver, loop, history
<1>2. TypeOK'
  BY <1>1, TypeStep DEF TypeOK, Where
<1>3. Proper(limb, len)
  BY <1>1 DEF Proper, TypeOK, NormalizeInv
<1>4. DoneInv'
  BY <1>1, <1>3 DEF DoneInv, NormalizeInv, Number, Grows, Divides
<1> QED
  BY <1>1, <1>2, <1>4, WantStep DEF LoopInv, KeepsOnRefusal

\* The test for a sum that wrapped around misses none: what wrapped is less than a limb,
\* and the number above it then is no less than one.
LEMMA NoSilentWrap ==
  ASSUME NEW c \in Nat, NEW d \in 0 .. Base - 1,
         c <= (Word - 1) \div Base, (c * Base + d) % Word >= c
  PROVE  (c * Base + d) % Word = c * Base + d /\ c * Base + d < Word
<1>1. Base \in Nat /\ Base > 1 /\ Word \in Nat /\ Base * Base <= Word /\ Word > 0
  <2>1. Base \in Nat /\ Base > 1 /\ Word \in Nat /\ Base * Base <= Word
    BY SizesAssumption
  <2>2. Base * Base > 0
    BY <2>1
  <2> QED
    BY <2>1, <2>2
<1> DEFINE x == c * Base + d
<1>2. x \in Nat
  BY <1>1
<1>3. c * Base <= Word - 1
  <2>1. Word - 1 = Base * ((Word - 1) \div Base) + ((Word - 1) % Base)
        /\ (Word - 1) \div Base \in Nat /\ (Word - 1) % Base \in Nat
    <3> DEFINE w == Word - 1
    <3>1. w \in Nat /\ Base \in Nat \ {0}
      BY <1>1
    <3> HIDE DEF w
    <3>2. w = Base * (w \div Base) + (w % Base) /\ w \div Base \in Nat
          /\ w % Base \in 0 .. Base - 1
      BY <3>1, DivMod
    <3> QED
      BY <3>2 DEF w
  <2>2. c * Base <= Base * ((Word - 1) \div Base)
    BY <2>1, <1>1
  <2> QED
    BY <2>1, <2>2, <1>1
<1>4. x % Word \in Nat /\ x \div Word \in Nat /\ x = Word * (x \div Word) + (x % Word)
      /\ x % Word < Word
  <2>1. Word \in Nat \ {0}
    BY <1>1
  <2> QED
    BY <2>1, <1>2, DivMod, <1>1
<1>5. x < Word
  <2>1. SUFFICES ASSUME x >= Word PROVE FALSE
    BY <1>1, <1>2
  <2>2. x < 2 * Word
    <3>1. Base <= Base * Base
      BY <1>1
    <3>2. c * Base \in Nat
      BY <1>1
    <3> QED
      BY <3>1, <3>2, <1>1, <1>3
  <2>3. x \div Word = 1
    <3> DEFINE q == x \div Word
               r == x % Word
    <3>1. q \in Nat /\ r \in Nat /\ x = Word * q + r /\ r < Word
      BY <1>4
    <3> HIDE DEF x, q, r
    <3>2. q # 0
      BY <3>1, <2>1, <1>1
    <3>3. q >= 2 => Word * q >= Word * 2
      BY <3>1, <1>1
    <3> QED
      BY <3>1, <3>2, <3>3, <2>2, <1>1 DEF q
  <2>4. x % Word = x - Word
    BY <2>3, <1>2, <1>4, <1>1
  <2>5. c >= Base
    <3>1. c * Base >= Base * Base - Base + 1
      BY <2>1, <1>1, <1>2
    <3>2. SUFFICES ASSUME c <= Base - 1 PROVE FALSE
      BY <1>1
    <3>3. c * Base <= (Base - 1) * Base
      BY <3>2, <1>1
    <3>4. (Base - 1) * Base = Base * Base - Base
      BY <1>1
    <3> QED
      BY <3>1, <3>3, <3>4, <1>1
  <2>6. x - Word >= c
    BY <2>4
  <2>7. c * Base \in Nat
    BY <1>1
  <2> QED
    BY <2>5, <2>6, <2>7, <1>1, <1>3
<1>6. x % Word = x
  <2> DEFINE q == x \div Word
             r == x % Word
  <2>1. q \in Nat /\ r \in Nat /\ x = Word * q + r /\ r < Word
    BY <1>4
  <2>2. x \in Nat /\ x < Word
    BY <1>2, <1>5
  <2> HIDE DEF x, q, r
  <2>3. q # 0 => Word * q >= Word
    BY <2>1, <1>1
  <2> QED
    BY <2>1, <2>2, <2>3, <1>1 DEF r
<1> QED
  BY <1>5, <1>6

LEMMA ToU64TurnInv ==
  ASSUME LoopInv, ToU64Turn
  PROVE  LoopInv'
<1> DEFINE k == i - 1
           x == carry * Base + limb[k]
<1>1. /\ pc = "toU64" /\ i > 0 /\ TypeOK /\ ToU64Inv /\ WantInv
      /\ UNCHANGED <<limb, len, op, b, arg, table, left, shift, m, exact, old, start, want>>
      /\ \/ pc' = "refused" /\ UNCHANGED <<i, carry>>
         \/ /\ carry <= (Word - 1) \div Base /\ x % Word >= carry
            /\ carry' = x % Word /\ i' = k /\ pc' = pc
  BY DEF LoopInv, ToU64Turn, number, call, driver, loop, history
<1>2. /\ limb \in Arrays /\ k \in Index /\ k + 1 = i /\ k \in 0 .. MaxLimbs /\ carry \in Nat
      /\ k < i /\ i \in 0 .. MaxLimbs
  BY <1>1, Sizes DEF TypeOK
<1>3. WantInv'
  BY <1>1, WantStep
<1>4. CASE pc' = "refused"
  <2>1. i' = i /\ carry' = carry
    BY <1>1, <1>4
  <2>2. TypeOK'
    BY <2>1, <1>1, <1>4, TypeStep DEF TypeOK, Where
  <2>3. Proper(limb, len) /\ Number = start
    BY <1>1 DEF ToU64Inv, WantInv, Result
  <2> QED
    BY <2>2, <2>3, <1>1, <1>3, <1>4 DEF LoopInv, KeepsOnRefusal, Number
<1>5. CASE pc' = pc
  <2>1. /\ carry <= (Word - 1) \div Base /\ x % Word >= carry
        /\ carry' = x % Word /\ i' = k
    BY <1>1, <1>5
  <2>2. limb[k] \in 0 .. Base - 1
    BY <1>2, Storing
  <2>3. carry' = x /\ x < Word
    BY <2>1, <2>2, <1>2, NoSilentWrap
  <2>4. x \in Nat
    BY <2>2, <1>2, Sizes
  <2>5. TypeOK'
    BY <2>1, <2>3, <2>4, <1>1, <1>2, <1>5, TypeStep DEF TypeOK
  <2>6. x * Power[k] + Value(limb, k) = want
    <3> DEFINE p == Power[k]
               w == Value(limb, k)
               d == limb[k]
    <3>1. p \in Nat /\ Power[k + 1] = Base * p /\ w \in Nat /\ Value(limb, k + 1) = w + d * p
      BY <1>2, LimbPowers, ValueRange, NextLimb
    <3>2. carry * Power[k + 1] + Value(limb, k + 1) = want
      <4>1. carry * Power[i] + Value(limb, i) = want
        BY <1>1 DEF ToU64Inv
      <4> HIDE DEF k
      <4> QED
        BY <4>1, <1>2
    <3>3. d \in Nat /\ Base \in Nat
      BY <2>2, Sizes
    <3> HIDE DEF p, w, d
    <3>4. (carry * Base + d) * p = carry * (Base * p) + d * p
      BY <3>1, <3>3, <1>2
    <3>5. d * p \in Nat /\ carry * (Base * p) \in Nat
      BY <3>1, <3>3, <1>2
    <3>6. (carry * Base + d) * p + w = want
      BY <3>1, <3>2, <3>4, <3>5
    <3> QED
      BY <3>6 DEF p, w, d
  <2>7. ToU64Inv'
    <3>1. k <= len
      BY <1>1, <1>2, Sizes DEF ToU64Inv, TypeOK
    <3> QED
      BY <3>1, <2>1, <2>3, <2>6, <1>1 DEF ToU64Inv, Number
  <2> QED
    BY <2>5, <2>7, <1>1, <1>3, <1>5 DEF LoopInv, KeepsOnRefusal
<1> QED
  BY <1>1, <1>4, <1>5

LEMMA ToU64EndInv ==
  ASSUME LoopInv, ToU64End
  PROVE  LoopInv'
<1>1. /\ pc = "toU64" /\ i = 0 /\ pc' = "done" /\ TypeOK /\ ToU64Inv /\ WantInv
      /\ UNCHANGED <<limb, len, op, b, arg, table, left, shift, m, i, carry, exact, old, start, want>>
  BY DEF LoopInv, ToU64End, number, call, driver, loop, history
<1>2. TypeOK'
  BY <1>1, TypeStep DEF TypeOK, Where
<1>3. carry = want
  <2>1. limb \in Arrays /\ carry \in Nat
    BY <1>1 DEF TypeOK
  <2>2. Value(limb, 0) = 0 /\ Power[0] = 1
    BY <2>1, NoLimbs, LimbPowers
  <2> QED
    BY <2>1, <2>2, <1>1 DEF ToU64Inv
<1>4. DoneInv'
  BY <1>1, <1>3 DEF DoneInv, ToU64Inv, Grows, Divides
<1> QED
  BY <1>1, <1>2, <1>4, WantStep DEF LoopInv, KeepsOnRefusal

---------------------------------------------------------------------------
(* The calls that split an exponent into products and a move. *)

LEMMA ZeroValue ==
  ASSUME NEW l \in Arrays, l[0] = 0
  PROVE  Value(l, 1) = 0
<1>1. 0 \in Index
  BY Sizes
<1>2. Value(l, 0 + 1) = Value(l, 0) + l[0] * Power[0]
  BY <1>1, NextLimb
<1> QED
  BY <1>2, NoLimbs, LimbPowers

LEMMA NextFactorInv ==
  ASSUME LoopInv, NextFactor
  PROVE  LoopInv'
<1>1. /\ pc = "factors" /\ left > 0 /\ TypeOK /\ FactorsInv /\ WantInv
      /\ UNCHANGED <<op, b, arg, table, shift, exact, start>>
      /\ left' = left - Chunk /\ want' = want * Factor /\ m' = Factor
      /\ \/ /\ Factor = 0 /\ len' = 1 /\ limb' = Store(limb, 0, 0)
            /\ UNCHANGED <<pc, i, carry, old>>
         \/ (Factor = 1 \/ IsZero) /\ UNCHANGED <<limb, len, pc, i, carry, old>>
         \/ /\ Factor > 1 /\ pc' = "mul" /\ i' = 0 /\ carry' = 0 /\ old' = Cleaned
            /\ UNCHANGED <<limb, len>>
  BY DEF LoopInv, NextFactor, number, call, loop, Store
<1>2. /\ limb \in Arrays /\ len \in 1 .. MaxLimbs /\ len \in 0 .. MaxLimbs /\ left \in Nat
      /\ table \in Seq(Nat) /\ Proper(limb, len) /\ Number = want /\ Number \in Nat
      /\ op \in {"mulSmall", "mulPower", "mulPow10"} /\ op # "append"
  <2>1. limb \in Arrays /\ len \in 0 .. MaxLimbs /\ left \in Nat /\ table \in Seq(Nat)
    BY <1>1 DEF TypeOK
  <2>2. Value(limb, len) \in Nat
    BY <2>1, ValueRange
  <2> QED
    BY <2>1, <2>2, <1>1 DEF FactorsInv, Proper, Number
<1>3. Chunk \in 1 .. Len(table) /\ Chunk <= left /\ Factor \in Nat /\ IsSmall(Factor) /\ left' \in Nat
  <2>1. Len(table) \in Nat /\ Len(table) > 0
    BY <1>1, <1>2 DEF FactorsInv
  <2>2. Chunk \in 1 .. Len(table) /\ Chunk <= left
    BY <2>1, <1>1, <1>2 DEF Chunk
  <2> QED
    BY <2>2, <1>1, <1>2 DEF Factor, FactorsInv
<1>4. want' \in Nat /\ want' = Number * Factor
  BY <1>1, <1>2, <1>3
<1>5. 0 \in Index /\ 0 \in Limb /\ 0 \in 0 .. MaxLimbs /\ 1 \in 1 .. MaxLimbs /\ 1 \in 0 .. MaxLimbs
  BY Sizes, Storing
<1>6. WantInv'
  <2>1. ASSUME op = "mulSmall"
        PROVE  table = <<arg>> /\ shift = 0 /\ left' = 0 /\ want' = start * arg
    <3>1. table = <<arg>> /\ shift = 0 /\ left = 1 /\ want = start
      BY <2>1, <1>1 DEF WantInv
    <3>2. Chunk = 1 /\ Factor = arg
      BY <3>1 DEF Chunk, Factor
    <3> QED
      BY <3>1, <3>2, <1>1
  <2> QED
    BY <2>1, <1>1, <1>2 DEF WantInv
<1>7. left' > 0 => Len(table) > 0
  BY <1>1, <1>2, <1>3 DEF FactorsInv
<1>8. CASE pc' = pc
  <2>1. limb' \in Arrays /\ len' \in 1 .. MaxLimbs /\ Proper(limb', len') /\ Value(limb', len') = want'
    <3>1. CASE Factor = 0 /\ len' = 1 /\ limb' = Store(limb, 0, 0)
      <4>1. Store(limb, 0, 0) \in Arrays /\ Store(limb, 0, 0)[0] = 0
        BY <1>2, <1>5, StoreLimb
      <4>2. Value(limb', 1) = 0
        BY <4>1, <3>1, ZeroValue
      <4>3. want' = 0
        BY <3>1, <1>2, <1>4
      <4> QED
        BY <4>1, <4>2, <4>3, <3>1, <1>5 DEF Proper
    <3>2. CASE (Factor = 1 \/ IsZero) /\ UNCHANGED <<limb, len>>
      <4>1. Number * Factor = Number
        <5>1. CASE Factor = 1
          BY <5>1, <1>2
        <5>2. CASE IsZero
          <6>1. Number = 0
            BY <5>2, <1>2, ZeroValue DEF IsZero, Number
          <6> QED
            BY <6>1, <1>3
        <5> QED
          BY <5>1, <5>2, <3>2
      <4> QED
        BY <4>1, <3>2, <1>2, <1>4 DEF Number
    <3> QED
      BY <3>1, <3>2, <1>1, <1>8
  <2>2. UNCHANGED <<i, carry, old>>
    BY <1>1, <1>8
  <2>3. TypeOK'
    BY <2>1, <2>2, <1>1, <1>3, <1>4, <1>8, Sizes DEF TypeOK
  <2>4. FactorsInv'
    BY <2>1, <1>1, <1>2, <1>7 DEF FactorsInv, Number
  <2> QED
    BY <2>3, <2>4, <1>1, <1>6, <1>8 DEF LoopInv, KeepsOnRefusal
<1>9. CASE pc' = "mul"
  <2>1. Factor > 1 /\ i' = 0 /\ carry' = 0 /\ old' = Cleaned /\ limb' = limb /\ len' = len
    BY <1>1, <1>9
  <2>2. /\ Cleaned \in Arrays
        /\ \A j \in Index : Cleaned[j] = IF j < len THEN limb[j] ELSE 0
        /\ Value(Cleaned, len) = Number
    BY <1>2, CleanedValue
  <2>3. TypeOK'
    BY <2>1, <2>2, <1>1, <1>3, <1>4, <1>5, <1>9 DEF TypeOK, Where
  <2>4. Untouched(i)'
    BY <2>1, <2>2, Sizes DEF Untouched
  <2>5. Value(limb, 0) + 0 * Power[0] = Factor * Value(old', 0) + 0
    <3>1. Value(limb, 0) = 0 /\ Value(Cleaned, 0) = 0 /\ Power[0] = 1
      BY <1>2, <2>2, NoLimbs, LimbPowers
    <3> QED
      BY <3>1, <2>1, <1>3
  <2>6. want' = Factor * Value(old', len) + 0
    BY <2>1, <2>2, <1>2, <1>3, <1>4
  <2>7. Proper(old', len)
    <3>1. len - 1 \in Index /\ len - 1 < len
      BY <1>2, Sizes
    <3> QED
      BY <3>1, <2>1, <2>2, <1>2 DEF Proper
  <2>8. Factor > 0 /\ 0 < Factor /\ 0 <= len /\ ~(0 > 0)
    BY <2>1, <1>2, <1>3
  <2>9. MulInv'
    BY <2>1, <2>4, <2>5, <2>6, <2>7, <2>8, <1>1, <1>2, <1>3, <1>7 DEF MulInv, Digit, FactorsInv
  <2> QED
    BY <2>3, <2>9, <1>1, <1>6, <1>9 DEF LoopInv, KeepsOnRefusal
<1> QED
  BY <1>1, <1>8, <1>9

\* Moved up by whole limbs, with zeros below.
LEMMA MovedUp ==
  ASSUME limb \in Arrays, len \in 1 .. MaxLimbs, shift \in Nat, len + shift <= MaxLimbs
  PROVE  /\ ShiftLimbs \in Arrays
         /\ Value(ShiftLimbs, len + shift) = Number * Power[shift]
         /\ ShiftLimbs[len + shift - 1] = limb[len - 1]
<1>1. /\ shift \in 0 .. MaxLimbs /\ len \in 0 .. MaxLimbs - shift /\ len \in 0 .. MaxLimbs
      /\ len - 1 \in Index /\ len + shift - 1 \in Index /\ (len + shift - 1) - shift = len - 1
      /\ ~(len + shift - 1 < shift) /\ len + shift - 1 < len + shift
  BY Sizes
<1>2. \A k \in Index : ShiftLimbs[k] = IF k < shift THEN 0
                                       ELSE IF k < len + shift THEN limb[k - shift] ELSE limb[k]
  BY DEF ShiftLimbs
<1>3. ShiftLimbs \in Arrays
  <2>1. 0 \in Limb /\ \A k \in Index : limb[k] \in Limb
    BY Sizes, Storing
  <2>2. \A k \in Index : ~(k < shift) => k - shift \in Index
    BY Sizes
  <2> QED
    BY <2>1, <2>2 DEF ShiftLimbs, Arrays
<1>4. Value(ShiftLimbs, shift) = 0
  <2>1. \A j \in 0 .. shift - 1 : j \in Index /\ j < shift
    BY <1>1, Sizes
  <2>2. \A j \in 0 .. shift - 1 : ShiftLimbs[j] = 0
    BY <2>1, <1>2
  <2>3. 0 \in 0 .. MaxLimbs /\ shift \in 0 .. MaxLimbs
    BY <1>1, Sizes
  <2>4. Value(ShiftLimbs, shift) = Value(ShiftLimbs, 0)
    BY <2>2, <2>3, <1>3, ZeroTail
  <2> QED
    BY <2>4, <1>3, NoLimbs
<1>5. \A j \in 0 .. len - 1 : limb[j] = ShiftLimbs[j + shift]
  <2>1. ASSUME NEW j \in 0 .. len - 1
        PROVE  j + shift \in Index /\ ~(j + shift < shift) /\ j + shift < len + shift
               /\ (j + shift) - shift = j
    BY Sizes
  <2> QED
    BY <2>1, <1>2
<1>6. Value(ShiftLimbs, len + shift) = Value(ShiftLimbs, shift) + Power[shift] * Value(limb, len)
  BY <1>1, <1>3, <1>5, MovedRun
<1>7. Value(limb, len) \in Nat /\ Power[shift] \in Nat
  BY <1>1, ValueRange, LimbPowers
<1>8. Value(ShiftLimbs, len + shift) = Number * Power[shift]
  BY <1>4, <1>6, <1>7 DEF Number
<1>9. ShiftLimbs[len + shift - 1] = limb[len - 1]
  BY <1>1, <1>2
<1> QED
  BY <1>3, <1>8, <1>9

LEMMA ShiftInv ==
  ASSUME LoopInv, Shift
  PROVE  LoopInv'
<1>1. /\ pc = "factors" /\ left = 0 /\ TypeOK /\ FactorsInv /\ WantInv
      /\ UNCHANGED <<op, b, arg, table, left, shift, m, i, carry, exact, old, start>>
      /\ \/ pc' = "done" /\ UNCHANGED <<limb, len, want>>
         \/ pc' = "refused" /\ UNCHANGED <<limb, len, want>>
         \/ /\ shift # 0 /\ ~IsZero /\ len + shift <= MaxLimbs
            /\ limb' = ShiftLimbs /\ len' = len + shift /\ want' = want * Power[shift]
            /\ pc' = "done"
  BY DEF LoopInv, Shift, number, call, driver, loop
<1>2. /\ limb \in Arrays /\ len \in 1 .. MaxLimbs /\ shift \in Nat /\ Proper(limb, len)
      /\ op \in {"mulSmall", "mulPower", "mulPow10"} /\ Number = want /\ Number \in Nat
  <2>1. limb \in Arrays /\ len \in 0 .. MaxLimbs /\ shift \in Nat
    BY <1>1 DEF TypeOK
  <2>2. Value(limb, len) \in Nat
    BY <2>1, ValueRange
  <2> QED
    BY <2>1, <2>2, <1>1 DEF FactorsInv, Proper, Number
<1>3. CASE UNCHANGED <<limb, len, want>> /\ pc' \in {"done", "refused"}
  <2>1. TypeOK'
    BY <1>1, <1>3 DEF TypeOK, Where
  <2>2. WantInv'
    BY <1>1, <1>2, <1>3 DEF WantInv
  <2>3. DoneInv'
    BY <1>1, <1>2, <1>3 DEF DoneInv, Number, Divides
  <2> QED
    BY <2>1, <2>2, <2>3, <1>1, <1>2, <1>3 DEF LoopInv, KeepsOnRefusal
<1>4. CASE /\ shift # 0 /\ ~IsZero /\ len + shift <= MaxLimbs
           /\ limb' = ShiftLimbs /\ len' = len + shift /\ want' = want * Power[shift]
           /\ pc' = "done"
  <2>1. /\ ShiftLimbs \in Arrays
        /\ Value(ShiftLimbs, len + shift) = Number * Power[shift]
        /\ ShiftLimbs[len + shift - 1] = limb[len - 1]
    BY <1>2, <1>4, MovedUp
  <2>2. len' \in 1 .. MaxLimbs /\ len' \in 0 .. MaxLimbs /\ shift \in 0 .. MaxLimbs
    BY <1>2, <1>4, Sizes
  <2>3. want' \in Nat
    BY <2>2, <1>2, <1>4, LimbPowers
  <2>4. TypeOK'
    BY <2>1, <2>2, <2>3, <1>1, <1>4 DEF TypeOK, Where
  <2>5. WantInv'
    BY <1>1, <1>2, <1>4 DEF WantInv
  <2>6. limb[len - 1] # 0
    BY <1>2, <1>4 DEF IsZero, Proper
  <2>7. Proper(limb', len') /\ Value(limb', len') = want'
    BY <2>1, <2>2, <2>6, <1>2, <1>4 DEF Proper
  <2>8. DoneInv'
    BY <2>7, <1>1, <1>2 DEF DoneInv, Number, Divides
  <2> QED
    BY <2>4, <2>5, <2>8, <1>4 DEF LoopInv, KeepsOnRefusal
<1> QED
  BY <1>1, <1>3, <1>4

---------------------------------------------------------------------------
(* The calls: where each loop starts, its statement is about no limb yet. *)

LEMMA InitInv ==
  ASSUME Init
  PROVE  LoopInv
<1>1. Garbage \in Arrays /\ Zeros \in Arrays /\ 0 \in 0 .. MaxLimbs /\ 1 \in 1 .. MaxLimbs /\ <<>> \in Seq(Nat)
  BY SizesAssumption, Storing
<1> QED
  BY <1>1 DEF Init, LoopInv, TypeOK, KeepsOnRefusal, Ops, Grows, Divides, Where

LEMMA Begun ==
  ASSUME LoopInv, pc = "idle"
  PROVE  /\ TypeOK /\ shift = 0
         /\ limb \in Arrays /\ len \in 1 .. MaxLimbs /\ len \in 0 .. MaxLimbs /\ 0 \in Index
         /\ Proper(limb, len) /\ Number \in Nat /\ Number = Value(limb, len)
         /\ Cleaned \in Arrays /\ \A j \in Index : Cleaned[j] = IF j < len THEN limb[j] ELSE 0
         /\ Value(Cleaned, len) = Number /\ Value(Cleaned, MaxLimbs) = Number
         /\ Proper(Cleaned, len)
         /\ Power[0] = 1 /\ \A l \in Arrays : Value(l, 0) = 0
<1>1. TypeOK /\ Proper(limb, len) /\ shift = 0
  BY DEF LoopInv
<1>2. limb \in Arrays /\ len \in 1 .. MaxLimbs /\ len \in 0 .. MaxLimbs /\ 0 \in Index
  BY <1>1, Sizes DEF TypeOK, Proper
<1>3. Number \in Nat /\ Number = Value(limb, len)
  BY <1>2, ValueRange DEF Number
<1>4. /\ Cleaned \in Arrays /\ \A j \in Index : Cleaned[j] = IF j < len THEN limb[j] ELSE 0
      /\ Value(Cleaned, len) = Number /\ Value(Cleaned, MaxLimbs) = Number
  BY <1>2, CleanedValue
<1>5. Proper(Cleaned, len)
  <2>1. len - 1 \in Index /\ len - 1 < len
    BY <1>2, Sizes
  <2> QED
    BY <2>1, <1>1, <1>2, <1>4 DEF Proper
<1> QED
  BY <1>1, <1>2, <1>3, <1>4, <1>5, NoLimbs, LimbPowers

\* Nothing is touched yet.
LEMMA UntouchedYet ==
  ASSUME LoopInv, pc = "idle", old' = Cleaned, i' = 0, UNCHANGED <<limb, len>>
  PROVE  Untouched(i)'
<1>1. \A j \in 0 .. MaxLimbs - 1 : j \in Index
  BY Sizes
<1>2. len \in Nat /\ \A j \in Index : Cleaned[j] = IF j < len THEN limb[j] ELSE 0
  BY Begun, Sizes
<1>3. \A j \in 0 .. MaxLimbs - 1 : IF j < len THEN limb[j] = Cleaned[j] ELSE Cleaned[j] = 0
  BY <1>1, <1>2
<1> QED
  BY <1>3 DEF Untouched

LEMMA FromU64Inv ==
  ASSUME LoopInv, NEW x \in Words, FromU64(x)
  PROVE  LoopInv'
<1>1. /\ op' = "fromU64" /\ arg' = x /\ want' = x /\ TypeOK
      /\ UNCHANGED <<b, table, left, shift, m, exact, old, start>>
      /\ \/ x = 0 /\ len' = 1 /\ limb' = Store(limb, 0, 0) /\ pc' = "done" /\ UNCHANGED <<i, carry>>
         \/ x # 0 /\ len' = 0 /\ i' = 0 /\ carry' = x /\ pc' = "append" /\ UNCHANGED limb
  BY DEF LoopInv, FromU64, driver, loop, Store
<1>2. x \in Nat /\ limb \in Arrays /\ 0 \in Index /\ 0 \in Limb /\ 0 \in 0 .. MaxLimbs /\ 1 \in 1 .. MaxLimbs
  BY <1>1, SizesAssumption, Sizes, Storing DEF TypeOK
<1>3. WantInv'
  BY <1>1 DEF WantInv, Result
<1>4. CASE x = 0 /\ len' = 1 /\ limb' = Store(limb, 0, 0) /\ pc' = "done" /\ UNCHANGED <<i, carry>>
  <2>1. Store(limb, 0, 0) \in Arrays /\ Store(limb, 0, 0)[0] = 0
    BY <1>2, StoreLimb
  <2>2. Value(limb', len') = 0
    BY <2>1, <1>4, ZeroValue
  <2>3. TypeOK'
    BY <2>1, <1>1, <1>2, <1>4 DEF TypeOK, Ops, Grows, Where
  <2>4. DoneInv'
    BY <2>2, <1>1, <1>2, <1>4 DEF DoneInv, Proper, Number, Divides
  <2> QED
    BY <2>3, <2>4, <1>3, <1>4 DEF LoopInv, KeepsOnRefusal
<1>5. CASE x # 0 /\ len' = 0 /\ i' = 0 /\ carry' = x /\ pc' = "append" /\ UNCHANGED limb
  <2>1. TypeOK'
    BY <1>1, <1>2, <1>5 DEF TypeOK, Ops, Grows, Where
  <2>2. Value(limb, 0) = 0 /\ Power[0] = 1
    BY <1>2, NoLimbs, LimbPowers
  <2>3. AppendInv'
    BY <2>2, <1>1, <1>2, <1>5 DEF AppendInv
  <2> QED
    BY <2>1, <2>3, <1>3, <1>5 DEF LoopInv, KeepsOnRefusal
<1> QED
  BY <1>1, <1>4, <1>5

LEMMA MulSmallInv ==
  ASSUME LoopInv, NEW s, IsSmall(s), MulSmall(s)
  PROVE  LoopInv'
<1>1. /\ pc = "idle" /\ op' = "mulSmall" /\ arg' = s /\ pc' = "factors" /\ old' = Cleaned
      /\ start' = Number /\ table' = <<s>> /\ left' = 1 /\ want' = Number
      /\ UNCHANGED <<limb, len, b, shift, m, i, carry, exact>>
  BY DEF MulSmall, Begin, number, loop
<1>2. /\ TypeOK /\ shift = 0 /\ Proper(limb, len) /\ Number \in Nat /\ Number = Value(limb, len)
      /\ Cleaned \in Arrays
  BY <1>1, Begun
<1>3. s \in Nat /\ IsSmall(s) /\ <<s>> \in Seq(Nat) /\ Len(<<s>>) = 1 /\ \A k \in 1 .. 1 : <<s>>[k] = s
  BY DEF IsSmall
<1>4. TypeOK'
  BY <1>1, <1>2, <1>3 DEF TypeOK, Ops, Grows, Where
<1>5. FactorsInv'
  BY <1>1, <1>2, <1>3 DEF FactorsInv, Number
<1>6. WantInv'
  BY <1>1, <1>2 DEF WantInv
<1> QED
  BY <1>1, <1>4, <1>5, <1>6 DEF LoopInv, KeepsOnRefusal

LEMMA MulPowerInv ==
  ASSUME LoopInv, NEW t \in Tables, NEW p \in Exponents, MulPower(t, p)
  PROVE  LoopInv'
<1>1. /\ pc = "idle" /\ op' = "mulPower" /\ arg' = p /\ pc' = "factors" /\ old' = Cleaned
      /\ start' = Number /\ table' = t /\ left' = p /\ want' = Number
      /\ UNCHANGED <<limb, len, b, shift, m, i, carry, exact>>
  BY DEF MulPower, Begin, number, loop
<1>2. TypeOK /\ Proper(limb, len) /\ Number \in Nat /\ Number = Value(limb, len) /\ Cleaned \in Arrays
  BY <1>1, Begun
<1>3. p \in Nat /\ t \in Seq(Nat) /\ Len(t) > 0 /\ \A k \in 1 .. Len(t) : IsSmall(t[k])
  BY SizesAssumption, SmallsAssumption
<1>4. TypeOK'
  BY <1>1, <1>2, <1>3 DEF TypeOK, Ops, Grows, Where
<1>5. FactorsInv'
  BY <1>1, <1>2, <1>3 DEF FactorsInv, Number
<1>6. WantInv'
  BY <1>1 DEF WantInv
<1> QED
  BY <1>1, <1>4, <1>5, <1>6 DEF LoopInv, KeepsOnRefusal

\* An exponent is so many whole limbs and so many digits.
LEMMA ExponentSplit ==
  ASSUME NEW p \in Exponents
  PROVE  /\ p \in 0 .. MaxExponent /\ p \in Nat /\ BaseDigits \in Nat \ {0}
         /\ p \div BaseDigits \in Nat /\ p % BaseDigits \in 0 .. BaseDigits - 1
         /\ p = BaseDigits * (p \div BaseDigits) + (p % BaseDigits)
<1>1. p \in 0 .. MaxExponent /\ p \in Nat /\ BaseDigits \in Nat \ {0}
  BY SizesAssumption
<1> QED
  BY <1>1, DivMod

LEMMA MulPow10Inv ==
  ASSUME LoopInv, NEW p \in Exponents, MulPow10(p)
  PROVE  LoopInv'
<1>1. /\ pc = "idle" /\ op' = "mulPow10" /\ arg' = p /\ pc' = "factors" /\ old' = Cleaned
      /\ start' = Number /\ table' = Pow10Small /\ left' = p % BaseDigits
      /\ shift' = p \div BaseDigits /\ want' = Number
      /\ UNCHANGED <<limb, len, b, m, i, carry, exact>>
  BY DEF MulPow10, Begin, number, loop
<1>2. TypeOK /\ Proper(limb, len) /\ Number \in Nat /\ Number = Value(limb, len) /\ Cleaned \in Arrays
  BY <1>1, Begun
<1>3. /\ Pow10Small \in Seq(Nat) /\ Len(Pow10Small) = BaseDigits - 1
      /\ \A k \in 1 .. Len(Pow10Small) : IsSmall(Pow10Small[k])
  BY SmallsAssumption
<1>4. p \div BaseDigits \in Nat /\ p % BaseDigits \in 0 .. BaseDigits - 1 /\ p \in Nat
      /\ BaseDigits \in Nat \ {0}
  BY ExponentSplit
<1>5. TypeOK'
  BY <1>1, <1>2, <1>3, <1>4 DEF TypeOK, Ops, Grows, Where
<1>6. left' > 0 => Len(table') > 0
  BY <1>1, <1>3, <1>4
<1>7. FactorsInv'
  BY <1>1, <1>2, <1>3, <1>6 DEF FactorsInv, Number
<1>8. WantInv'
  BY <1>1 DEF WantInv
<1> QED
  BY <1>1, <1>5, <1>7, <1>8 DEF LoopInv, KeepsOnRefusal

LEMMA RadixIsSmall ==
  /\ Radix \in Nat /\ Radix > 1 /\ Radix <= Base /\ IsSmall(Radix)
  /\ \A d \in AppendedDigits : d \in Nat /\ d < Radix
<1>1. /\ Radix \in 2 .. Base /\ Base \in Nat /\ Base * Base <= Word /\ Word \in Nat
      /\ AppendedDigits \subseteq 0 .. Radix - 1
  BY SizesAssumption
<1>2. Base * Radix <= Base * Base /\ Base * Radix \in Nat /\ Base * Base \in Nat
  BY <1>1
<1> QED
  BY <1>1, <1>2 DEF IsSmall

LEMMA AppendDigitInv ==
  ASSUME LoopInv, NEW d \in AppendedDigits, AppendDigit(d)
  PROVE  LoopInv'
<1>1. /\ pc = "idle" /\ op' = "append" /\ arg' = d /\ old' = Cleaned /\ start' = Number
      /\ pc' = IF len = MaxLimbs THEN "probe" ELSE "mul"
      /\ m' = Radix /\ i' = 0 /\ carry' = d /\ want' = Number * Radix + d
      /\ UNCHANGED <<limb, len, b, table, left, shift, exact>>
  BY DEF AppendDigit, Begin, number, driver
<1>2. /\ TypeOK /\ limb \in Arrays /\ len \in 1 .. MaxLimbs
      /\ Proper(limb, len) /\ Number \in Nat /\ Number = Value(limb, len)
      /\ Cleaned \in Arrays /\ (\A j \in Index : Cleaned[j] = IF j < len THEN limb[j] ELSE 0)
      /\ Value(Cleaned, len) = Number /\ Proper(Cleaned, len) /\ Power[0] = 1
      /\ Value(Cleaned, 0) = 0 /\ Value(limb, 0) = 0
  BY <1>1, Begun
<1>3. Radix \in Nat /\ Radix > 1 /\ IsSmall(Radix) /\ d \in Nat /\ d < Radix
  BY RadixIsSmall
<1>4. want' \in Nat /\ Number * Radix = Radix * Number
  BY <1>1, <1>2, <1>3
<1>5. TypeOK'
  BY <1>1, <1>2, <1>3, <1>4, Sizes DEF TypeOK, Ops, Grows, Where
<1>6. WantInv'
  BY <1>1 DEF WantInv, Result
<1>7. Untouched(i)'
  BY <1>1, UntouchedYet
<1>8. CASE len = MaxLimbs
  <2>1. limb = Cleaned
    <3>1. \A j \in Index : j < len
      BY <1>8, Sizes
    <3>2. \A j \in Index : limb[j] = Cleaned[j]
      BY <3>1, <1>2
    <3> QED
      BY <3>2, <1>2 DEF Arrays
  <2>2. d * 1 <= Radix * 0 + d /\ Radix * 0 + d < (d + 1) * 1
    BY <1>3
  <2>3. ProbeInv'
    BY <2>1, <2>2, <1>1, <1>2, <1>3, <1>4, <1>8 DEF ProbeInv
  <2> QED
    BY <2>3, <1>1, <1>5, <1>6, <1>8 DEF LoopInv, KeepsOnRefusal
<1>9. CASE len # MaxLimbs
  <2>1. 0 + d * 1 = Radix * 0 + d
    BY <1>3
  <2>2. ~(0 > 0) /\ 0 <= len /\ Radix > 0
    BY <1>2, <1>3
  <2>3. MulInv'
    BY <2>1, <2>2, <1>1, <1>2, <1>3, <1>4, <1>7, <1>9 DEF MulInv, Digit
  <2> QED
    BY <2>3, <1>1, <1>5, <1>6, <1>9 DEF LoopInv, KeepsOnRefusal
<1> QED
  BY <1>8, <1>9

LEMMA CallAddSmallInv ==
  ASSUME LoopInv, NEW s \in Smalls, AddSmall(s)
  PROVE  LoopInv'
<1>1. /\ pc = "idle" /\ op' = "addSmall" /\ arg' = s /\ old' = Cleaned /\ start' = Number
      /\ pc' = "addSmall" /\ i' = 0 /\ carry' = s /\ want' = Number + s
      /\ UNCHANGED <<limb, len, b, table, left, shift, m, exact>>
  BY DEF AddSmall, Begin, number, driver
<1>2. /\ TypeOK /\ len \in 1 .. MaxLimbs /\ Proper(limb, len) /\ Number \in Nat
      /\ limb \in Arrays /\ Cleaned \in Arrays /\ Value(Cleaned, MaxLimbs) = Number /\ Power[0] = 1
      /\ Value(Cleaned, 0) = 0 /\ Value(limb, 0) = 0
  BY <1>1, Begun
<1>3. s \in Nat
  BY SmallsAssumption DEF IsSmall
<1>4. TypeOK'
  BY <1>1, <1>2, <1>3, Sizes DEF TypeOK, Ops, Grows, Where
<1>5. WantInv'
  BY <1>1 DEF WantInv, Result
<1>6. Untouched(i)'
  BY <1>1, UntouchedYet
<1>7. 0 + s * 1 = 0 + s /\ 0 <= len
  BY <1>2, <1>3
<1>8. len = 1 \/ (len > 1 /\ limb[len - 1] # 0)
  BY <1>2 DEF Proper
<1>9. AddSmallInv'
  BY <1>1, <1>2, <1>6, <1>7, <1>8 DEF AddSmallInv
<1> QED
  BY <1>1, <1>4, <1>5, <1>9 DEF LoopInv, KeepsOnRefusal

LEMMA CallAddInv ==
  ASSUME LoopInv, NEW x \in [limb : Arrays, len : 1 .. MaxLimbs], Add(x)
  PROVE  LoopInv'
<1>1. /\ pc = "idle" /\ op' = "add" /\ arg' = 0 /\ old' = Cleaned /\ start' = Number
      /\ pc' \in {"refused", "add"} /\ b' = x /\ i' = 0 /\ carry' = 0
      /\ want' = Number + Value(x.limb, x.len)
      /\ UNCHANGED <<limb, len, table, left, shift, m, exact>>
  BY DEF Add, Begin, number, driver
<1>2. /\ TypeOK /\ len \in 1 .. MaxLimbs /\ Number \in Nat
      /\ limb \in Arrays /\ Cleaned \in Arrays /\ Value(Cleaned, MaxLimbs) = Number /\ Power[0] = 1
      /\ \A l \in Arrays : Value(l, 0) = 0
  BY <1>1, Begun
<1>3. x \in [limb : Arrays, len : 1 .. MaxLimbs] /\ Value(x.limb, x.len) \in Nat
  <2>1. x.limb \in Arrays /\ x.len \in 0 .. MaxLimbs
    BY Sizes
  <2> QED
    BY <2>1, ValueRange
<1>4. TypeOK'
  BY <1>1, <1>2, <1>3, Sizes DEF TypeOK, Ops, Grows, Where
<1>5. WantInv'
  BY <1>1 DEF WantInv, Result
<1>6. Untouched(i)'
  BY <1>1, UntouchedYet
<1>7. Operand' \in Arrays /\ Value(Operand', MaxLimbs) = Value(x.limb, x.len)
  <2>1. /\ Widened(x) \in Arrays
        /\ \A n \in x.len .. MaxLimbs : Value(Widened(x), n) = Value(x.limb, x.len)
    BY <1>3, PaddedValue
  <2>2. MaxLimbs \in x.len .. MaxLimbs
    BY <1>3, Sizes
  <2>3. Operand' = Widened(x)
    BY <1>1 DEF Operand, Widened
  <2> QED
    BY <2>1, <2>2, <2>3
<1>8. 0 + 0 * 1 = 0 + 0 /\ 0 <= len /\ len >= 1 /\ 0 <= 1
  BY <1>2
<1>9. AddInv'
  BY <1>1, <1>2, <1>6, <1>7, <1>8 DEF AddInv
<1> QED
  BY <1>1, <1>4, <1>5, <1>9 DEF LoopInv, KeepsOnRefusal

LEMMA CallSubInv ==
  ASSUME LoopInv, NEW x \in Operands, Sub(x)
  PROVE  LoopInv'
<1>1. /\ pc = "idle" /\ op' = "sub" /\ arg' = 0 /\ old' = Cleaned /\ start' = Number
      /\ pc' = (IF LessThan(x) THEN "refused" ELSE "sub") /\ b' = x /\ i' = 0 /\ carry' = 0
      /\ want' = Number - Value(x.limb, x.len)
      /\ UNCHANGED <<limb, len, table, left, shift, m, exact>>
  BY DEF Sub, Begin, number, driver
<1>2. /\ TypeOK /\ len \in 1 .. MaxLimbs /\ Number \in Nat
      /\ limb \in Arrays /\ Cleaned \in Arrays /\ Value(Cleaned, len) = Number /\ Power[0] = 1
      /\ \A l \in Arrays : Value(l, 0) = 0
  BY <1>1, Begun
<1>3. x \in [limb : Arrays, len : 1 .. MaxLimbs] /\ Value(x.limb, x.len) \in Nat
  <2>1. x \in [limb : Arrays, len : 1 .. MaxLimbs]
    BY OperandsAssumption
  <2>2. x.limb \in Arrays /\ x.len \in 0 .. MaxLimbs
    BY <2>1, Sizes
  <2> QED
    BY <2>1, <2>2, ValueRange
<1>4. TypeOK'
  BY <1>1, <1>2, <1>3, Sizes DEF TypeOK, Ops, Where
<1>5. WantInv'
  BY <1>1 DEF WantInv, Result
<1>6. Untouched(i)'
  BY <1>1, UntouchedYet
<1>7. ASSUME ~LessThan(x)
      PROVE  SubInv'
  <2>1. x.len <= len
    BY <1>2, <1>3, <1>7 DEF LessThan
  <2>2. Operand' \in Arrays /\ Value(Operand', len) = Value(x.limb, x.len)
    <3>1. /\ Widened(x) \in Arrays
          /\ \A n \in x.len .. MaxLimbs : Value(Widened(x), n) = Value(x.limb, x.len)
      BY <1>3, PaddedValue
    <3>2. len \in x.len .. MaxLimbs
      BY <2>1, <1>2, <1>3, Sizes
    <3>3. Operand' = Widened(x)
      BY <1>1 DEF Operand, Widened
    <3> QED
      BY <3>1, <3>2, <3>3
  <2>3. 0 - 0 * 1 = 0 - 0 /\ 0 <= len /\ len >= 1 /\ 0 <= 1
    BY <1>2
  <2> QED
    BY <2>1, <2>2, <2>3, <1>1, <1>2, <1>6 DEF SubInv
<1> QED
  BY <1>1, <1>4, <1>5, <1>7 DEF LoopInv, KeepsOnRefusal

LEMMA CallSubSmallInv ==
  ASSUME LoopInv, NEW s \in Smalls, SubSmall(s)
  PROVE  LoopInv'
<1>1. /\ pc = "idle" /\ op' = "subSmall" /\ arg' = s /\ old' = Cleaned /\ start' = Number
      /\ pc' = "subSmall" /\ i' = 0 /\ carry' = s /\ want' = Number - s /\ s <= Base
      /\ UNCHANGED <<limb, len, b, table, left, shift, m, exact>>
  BY DEF SubSmall, Begin, number, driver
<1>2. /\ TypeOK /\ len \in 1 .. MaxLimbs /\ Number \in Nat
      /\ limb \in Arrays /\ Cleaned \in Arrays /\ Value(Cleaned, len) = Number /\ Power[0] = 1
      /\ Value(Cleaned, 0) = 0 /\ Value(limb, 0) = 0
  BY <1>1, Begun
<1>3. s \in Nat
  BY SmallsAssumption DEF IsSmall
<1>4. TypeOK'
  BY <1>1, <1>2, <1>3, Sizes DEF TypeOK, Ops, Where
<1>5. WantInv'
  BY <1>1 DEF WantInv, Result
<1>6. Untouched(i)'
  BY <1>1, UntouchedYet
<1>7. 0 - s * 1 = 0 - s /\ 0 <= len /\ len >= 1
  BY <1>2, <1>3
<1>8. SubSmallInv'
  BY <1>1, <1>2, <1>6, <1>7 DEF SubSmallInv
<1> QED
  BY <1>1, <1>4, <1>5, <1>8 DEF LoopInv, KeepsOnRefusal

\* Before the first limb the whole number is left to divide.
LEMMA NothingDivided ==
  ASSUME NEW v \in Nat, NEW p \in Nat, NEW d \in Nat
  PROVE  d * (v - v) + 0 * p + v = v
<1>1. v - v = 0 /\ d * 0 = 0 /\ 0 * p = 0
  OBVIOUS
<1> QED
  BY <1>1

LEMMA DivSmallInv ==
  ASSUME LoopInv, NEW d \in Smalls, DivSmall(d)
  PROVE  LoopInv'
<1>1. /\ pc = "idle" /\ op' = "divSmall" /\ arg' = d /\ old' = Cleaned /\ start' = Number
      /\ pc' = (IF d < 2 THEN "refused" ELSE "div")
      /\ m' = d /\ i' = len /\ carry' = 0 /\ exact' = TRUE /\ want' = Number
      /\ UNCHANGED <<limb, len, b, table, left, shift>>
  BY DEF DivSmall, Begin, number, driver
<1>2. /\ TypeOK /\ len \in 1 .. MaxLimbs /\ len \in 0 .. MaxLimbs /\ Number \in Nat
      /\ Number = Value(limb, len) /\ limb \in Arrays /\ Cleaned \in Arrays
  BY <1>1, Begun
<1>3. d \in Nat /\ IsSmall(d)
  BY SmallsAssumption DEF IsSmall
<1>4. TypeOK'
  BY <1>1, <1>2, <1>3 DEF TypeOK, Ops, Divides, Where
<1>5. WantInv'
  BY <1>1 DEF WantInv
<1>6. ASSUME d > 1
      PROVE  DivInv'
  <2>1. Power[len] \in Nat
    BY <1>2, LimbPowers
  <2>2. d * (Number - Number) + 0 * Power[len] + Number = Number
    BY <2>1, <1>2, <1>3, NothingDivided
  <2>3. len <= len /\ len >= 1 /\ 0 < d
    BY <1>2, <1>3, <1>6
  <2> QED
    BY <2>2, <2>3, <1>1, <1>2, <1>3, <1>6 DEF DivInv, Divides
<1> QED
  BY <1>1, <1>3, <1>4, <1>5, <1>6 DEF LoopInv, KeepsOnRefusal

LEMMA DivPow10Inv ==
  ASSUME LoopInv, NEW p \in Exponents, DivPow10(p)
  PROVE  LoopInv'
<1> DEFINE q == p \div BaseDigits
           r == p % BaseDigits
<1>1. /\ pc = "idle" /\ op' = "divPow10" /\ arg' = p /\ old' = Cleaned /\ start' = Number
      /\ pc' = (IF q < len /\ r # 0 THEN "div" ELSE "normalize")
      /\ \/ /\ q >= len /\ len' = 1 /\ limb' = Store(limb, 0, 0)
            /\ exact' = IsZero
         \/ /\ q < len /\ len' = len - q /\ limb' = DropLimbs(q)
            /\ exact' = \A k \in 0 .. q - 1 : limb[k] = 0
      /\ m' = (IF r # 0 THEN Pow10Small[r] ELSE 1)
      /\ i' = len' /\ carry' = 0 /\ want' = Value(limb', len')
      /\ UNCHANGED <<b, table, left, shift>>
  BY DEF DivPow10, Begin, driver, Store
<1>2. /\ TypeOK /\ len \in 1 .. MaxLimbs /\ limb \in Arrays /\ Cleaned \in Arrays /\ 0 \in Index
      /\ Number \in Nat
  BY <1>1, Begun
<1>3. p \in Nat /\ q \in Nat /\ r \in 0 .. BaseDigits - 1 /\ BaseDigits \in Nat \ {0}
  BY ExponentSplit
<1> HIDE DEF q, r
<1>4. m' \in Nat /\ m' > 0 /\ IsSmall(m') /\ (r # 0 => m' > 1)
  <2>1. CASE r # 0
    <3>1. Pow10Small \in Seq(Nat) /\ r \in 1 .. Len(Pow10Small)
      BY <2>1, <1>3, SmallsAssumption
    <3>2. Pow10Small[r] \in Nat /\ Pow10Small[r] > 1 /\ IsSmall(Pow10Small[r])
      BY <3>1, SmallsAssumption
    <3> QED
      BY <3>2, <2>1, <1>1
  <2>2. CASE r = 0
    <3>1. Base * 1 <= Word
      <4>1. Base \in Nat /\ Base > 1 /\ Base * Base <= Word /\ Word \in Nat
        BY SizesAssumption
      <4>2. Base * 1 <= Base * Base /\ Base * Base \in Nat
        BY <4>1
      <4> QED
        BY <4>1, <4>2
    <3> QED
      BY <3>1, <2>2, <1>1 DEF IsSmall
  <2> QED
    BY <2>1, <2>2
<1>5. limb' \in Arrays /\ len' \in 1 .. MaxLimbs /\ exact' \in BOOLEAN /\ (q >= len => Value(limb', len') = 0)
  <2>1. CASE q >= len
    <3>1. len' = 1 /\ limb' = Store(limb, 0, 0) /\ exact' = IsZero
      <4>1. ~(q < len)
        BY <2>1, <1>2, <1>3, Sizes
      <4> QED
        BY <4>1, <1>1
    <3>2. Store(limb, 0, 0) \in Arrays /\ Store(limb, 0, 0)[0] = 0
      BY <1>2, StoreLimb, Storing, Sizes
    <3> QED
      BY <3>1, <3>2, ZeroValue, Sizes DEF IsZero
  <2>2. CASE q < len
    <3>1. /\ len' = len - q /\ limb' = DropLimbs(q)
          /\ exact' = \A k \in 0 .. q - 1 : limb[k] = 0
      <4>1. ~(q >= len)
        BY <2>2, <1>2, <1>3, Sizes
      <4> QED
        BY <4>1, <1>1
    <3>2. \A k \in Index : k + q < len => k + q \in Index
      BY <1>2, <1>3, Sizes
    <3>3. DropLimbs(q) \in Arrays
      BY <3>2, <1>2, Storing DEF DropLimbs, Arrays
    <3>4. len - q \in 1 .. MaxLimbs /\ ~(q >= len)
      BY <2>2, <1>2, <1>3, Sizes
    <3>5. exact' \in BOOLEAN
      BY <3>1
    <3> QED
      BY <3>1, <3>3, <3>4, <3>5
  <2> QED
    BY <2>1, <2>2, <1>2, <1>3
<1>6. len' \in 0 .. MaxLimbs /\ want' \in Nat /\ Power[len'] \in Nat
  BY <1>1, <1>5, ValueRange, LimbPowers
<1>7. TypeOK'
  BY <1>1, <1>2, <1>3, <1>4, <1>5, <1>6 DEF TypeOK, Ops, Divides, Where
<1>8. WantInv'
  BY <1>1 DEF WantInv
<1>9. CASE q < len /\ r # 0
  <2>1. m' * (want' - want') + 0 * Power[len'] + want' = want'
    BY <1>4, <1>6, NothingDivided
  <2>2. len' <= len' /\ len' >= 1 /\ 0 < m' /\ m' > 1
    BY <1>4, <1>5, <1>9
  <2>3. DivInv'
    BY <2>1, <2>2, <1>1, <1>4 DEF DivInv, Divides
  <2> QED
    BY <2>3, <1>1, <1>7, <1>8, <1>9 DEF LoopInv, KeepsOnRefusal
<1>10. CASE ~(q < len /\ r # 0)
  <2>1. want' = m' * want' + 0
    <3>1. CASE q >= len
      BY <3>1, <1>1, <1>4, <1>5
    <3>2. CASE r = 0
      BY <3>2, <1>1, <1>6
    <3> QED
      BY <3>1, <3>2, <1>2, <1>3, <1>10
  <2>2. NormalizeInv'
    BY <2>1, <1>1, <1>4, <1>5 DEF NormalizeInv, Number, Divides
  <2> QED
    BY <2>2, <1>1, <1>7, <1>8, <1>10 DEF LoopInv, KeepsOnRefusal
<1> QED
  BY <1>9, <1>10

LEMMA CallToU64Inv ==
  ASSUME LoopInv, ToU64
  PROVE  LoopInv'
<1>1. /\ pc = "idle" /\ op' = "toU64" /\ arg' = 0 /\ old' = Cleaned /\ start' = Number
      /\ pc' = "toU64" /\ i' = len /\ carry' = 0 /\ want' = Number
      /\ UNCHANGED <<limb, len, b, table, left, shift, m, exact>>
  BY DEF ToU64, Begin, number, driver
<1>2. /\ TypeOK /\ len \in 1 .. MaxLimbs /\ len \in 0 .. MaxLimbs /\ Number \in Nat
      /\ Number = Value(limb, len) /\ limb \in Arrays /\ Cleaned \in Arrays /\ Proper(limb, len)
  BY <1>1, Begun
<1>3. Word > 0 /\ Power[len] \in Nat
  <2>1. Base \in Nat /\ Base > 1 /\ Word \in Nat /\ Base * Base <= Word
    BY SizesAssumption
  <2>2. Base * Base > 0 /\ Base * Base \in Nat
    BY <2>1
  <2> QED
    BY <2>1, <2>2, <1>2, LimbPowers
<1>4. TypeOK'
  BY <1>1, <1>2 DEF TypeOK, Ops, Where
<1>5. WantInv'
  BY <1>1 DEF WantInv, Result
<1>6. 0 * Power[len] + Number = Number /\ len <= len
  BY <1>2, <1>3
<1>7. ToU64Inv'
  BY <1>1, <1>2, <1>3, <1>6 DEF ToU64Inv, Number
<1> QED
  BY <1>1, <1>4, <1>5, <1>7 DEF LoopInv, KeepsOnRefusal

LEMMA ReturnInv ==
  ASSUME LoopInv, Return
  PROVE  LoopInv'
<1>1. /\ pc = "done" \/ (pc = "refused" /\ op \in {"append", "toU64"})
      /\ pc' = "idle" /\ op' = "none" /\ b' = [limb |-> Zeros, len |-> 1] /\ arg' = 0
      /\ table' = <<>> /\ left' = 0 /\ shift' = 0 /\ m' = 0 /\ i' = 0 /\ carry' = 0 /\ exact' = TRUE
      /\ old' = Zeros /\ start' = 0 /\ want' = 0
      /\ UNCHANGED <<limb, len>>
  BY DEF Return, number
<1>2. Proper(limb, len)
  BY <1>1 DEF LoopInv, DoneInv, KeepsOnRefusal
<1>3. Zeros \in Arrays /\ 1 \in 1 .. MaxLimbs /\ 0 \in 0 .. MaxLimbs /\ <<>> \in Seq(Nat)
  BY Sizes, Storing
<1>4. TypeOK /\ TypeOK'
  BY <1>1, <1>3 DEF LoopInv, TypeOK, Ops, Where
<1> QED
  BY <1>1, <1>2, <1>4 DEF LoopInv, KeepsOnRefusal

---------------------------------------------------------------------------
(* Every call and every turn together. *)

LEMMA CallInv ==
  ASSUME LoopInv, Call
  PROVE  LoopInv'
<1>1. ASSUME NEW s \in Smalls, MulSmall(s) PROVE LoopInv'
  <2>1. IsSmall(s)
    BY SmallsAssumption
  <2> QED
    BY <1>1, <2>1, MulSmallInv
<1>2. ASSUME NEW x \in Operands, Add(x) PROVE LoopInv'
  <2>1. x \in [limb : Arrays, len : 1 .. MaxLimbs]
    BY OperandsAssumption
  <2> QED
    BY <1>2, <2>1, CallAddInv
<1> QED
  BY <1>1, <1>2, FromU64Inv, MulPowerInv, MulPow10Inv, AppendDigitInv, CallAddSmallInv,
     CallSubInv, CallSubSmallInv, DivSmallInv, DivPow10Inv, CallToU64Inv DEF Call

LEMMA StepInv ==
  ASSUME LoopInv, [Next]_vars
  PROVE  LoopInv'
<1>1. CASE Call
  BY <1>1, CallInv
<1>2. CASE NextFactor \/ Shift
  BY <1>2, NextFactorInv, ShiftInv
<1>3. CASE MulTurn \/ MulEnd \/ AppendLimb \/ AppendFull \/ AppendEnd
  BY <1>3, MulTurnInv, MulEndInv, AppendLimbInv, AppendFullInv, AppendEndInv
<1>4. CASE ProbeTurn \/ ProbeEnd
  BY <1>4, ProbeTurnInv, ProbeEndInv
<1>5. CASE AddSmallTurn \/ AddTurn \/ GrowFull \/ GrowEnd
  BY <1>5, AddSmallTurnInv, AddTurnInv, GrowFullInv, GrowEndInv
<1>6. CASE BorrowTurn \/ BorrowEnd
  BY <1>6, BorrowTurnInv, BorrowEndInv
<1>7. CASE DivTurn \/ DivEnd \/ StripLimb \/ Stripped
  BY <1>7, DivTurnInv, DivEndInv, StripLimbInv, StrippedInv
<1>8. CASE ToU64Turn \/ ToU64End
  BY <1>8, ToU64TurnInv, ToU64EndInv
<1>9. CASE Return
  BY <1>9, ReturnInv
<1>10. CASE UNCHANGED vars
  <2>1. UNCHANGED <<limb, len, op, b, arg, table, left, shift, m, i, carry, exact, pc, old, start, want>>
    BY <1>10 DEF vars
  <2>2. UNCHANGED <<Number, Result, Operand, Digit>> /\ (Untouched(i) <=> Untouched(i)')
    BY <2>1 DEF Number, Result, Operand, Digit, Untouched
  <2>3. TypeOK' /\ WantInv' = WantInv
    BY <2>1, <2>2 DEF LoopInv, TypeOK, WantInv
  <2>4. /\ FactorsInv' = FactorsInv /\ AppendInv' = AppendInv /\ ProbeInv' = ProbeInv
        /\ DivInv' = DivInv /\ NormalizeInv' = NormalizeInv /\ ToU64Inv' = ToU64Inv
        /\ DoneInv' = DoneInv /\ KeepsOnRefusal' = KeepsOnRefusal
    BY <2>1, <2>2 DEF FactorsInv, AppendInv, ProbeInv, DivInv, NormalizeInv, ToU64Inv, DoneInv,
                      KeepsOnRefusal
  <2>5. /\ MulInv' = MulInv /\ AddSmallInv' = AddSmallInv /\ AddInv' = AddInv
        /\ SubInv' = SubInv /\ SubSmallInv' = SubSmallInv
    BY <2>1, <2>2 DEF MulInv, AddSmallInv, AddInv, SubInv, SubSmallInv
  <2> QED
    BY <2>1, <2>3, <2>4, <2>5 DEF LoopInv
<1> QED
  BY <1>1, <1>2, <1>3, <1>4, <1>5, <1>6, <1>7, <1>8, <1>9, <1>10 DEF Next

---------------------------------------------------------------------------
(* Powers: what a product by one owes its factors, and a floor its digits. *)

LEMMA PowersOfRadix ==
  /\ Radix \in Nat \ {0} /\ MaxExponent \in Nat /\ BaseDigits \in Nat \ {0}
  /\ PowersUpTo(Radix, MaxExponent)
  /\ \A k \in 0 .. MaxExponent : Radix ^ k \in Nat \ {0}
<1>1. Radix \in Nat \ {0} /\ MaxExponent \in Nat /\ BaseDigits \in Nat \ {0}
  BY SizesAssumption
<1>2. PowersUpTo(Radix, MaxExponent)
  BY PowersAssumption
<1> QED
  BY <1>1, <1>2, PowerPositive

\* A whole limb is worth a whole number of digits.
LEMMA LimbUnit ==
  ASSUME NEW q \in 0 .. MaxLimbs
  PROVE  BaseDigits * q \in 0 .. MaxExponent /\ Power[q] = Radix ^ (BaseDigits * q)
<1>1. \A k \in 0 .. MaxLimbs : BaseDigits * k \in 0 .. MaxExponent
  <2>1. BaseDigits \in Nat /\ MaxLimbs \in Nat /\ BaseDigits * MaxLimbs <= MaxExponent /\ MaxExponent \in Nat
    BY SizesAssumption
  <2> TAKE k \in 0 .. MaxLimbs
  <2>2. BaseDigits * k \in Nat /\ BaseDigits * k <= BaseDigits * MaxLimbs
    BY <2>1
  <2> QED
    BY <2>1, <2>2
<1> DEFINE S == {k \in Nat : Base ^ k = Radix ^ (BaseDigits * k)}
<1>2. 0 \in S
  <2>1. BaseDigits * 0 = 0
    BY PowersOfRadix
  <2> QED
    BY <2>1, PowersAssumption DEF PowersUpTo
<1>3. ASSUME NEW k \in 0 .. MaxLimbs - 1, k \in S PROVE k + 1 \in S
  <2>1. k \in 0 .. MaxLimbs /\ k + 1 \in 0 .. MaxLimbs /\ k \in Nat /\ k + 1 \in Nat
    BY Sizes
  <2>2. Base ^ (k + 1) = Base * Base ^ k /\ Base ^ k = Radix ^ (BaseDigits * k)
    BY <1>3, PowersAssumption DEF PowersUpTo
  <2>3. BaseDigits * (k + 1) = BaseDigits + BaseDigits * k
    BY <2>1, PowersOfRadix
  <2> DEFINE d == BaseDigits
             e == BaseDigits * k
  <2>4. d \in Nat /\ e \in Nat /\ d + e <= MaxExponent
    BY <1>1, <2>1, <2>3, PowersOfRadix
  <2>5. Radix ^ (d + e) = Radix ^ d * Radix ^ e
    <3> HIDE DEF d, e
    <3> QED
      BY <2>4, PowersOfRadix, PowerSum
  <2>6. Base = Radix ^ BaseDigits
    BY SizesAssumption
  <2> QED
    BY <2>1, <2>2, <2>3, <2>5, <2>6
<1> HIDE DEF S
<1>4. 0 .. MaxLimbs \subseteq S
  BY <1>2, <1>3, Sizes, InductionUpTo
<1>5. Base ^ q = Radix ^ (BaseDigits * q)
  BY <1>4 DEF S
<1> QED
  BY <1>1, <1>5 DEF Power

\* The value of limbs is 0 only if all of them are.
LEMMA ZeroLimbs ==
  ASSUME NEW l \in Arrays, NEW q \in 0 .. MaxLimbs
  PROVE  Value(l, q) = 0 <=> \A k \in 0 .. q - 1 : l[k] = 0
<1>1. ASSUME \A k \in 0 .. q - 1 : l[k] = 0
      PROVE  Value(l, q) = 0
  <2>1. 0 \in 0 .. MaxLimbs /\ q \in 0 .. MaxLimbs
    BY Sizes
  <2> QED
    BY <1>1, <2>1, ZeroTail, NoLimbs
<1>2. ASSUME NEW k \in 0 .. q - 1, l[k] # 0
      PROVE  Value(l, q) # 0
  <2>1. k \in Index /\ k + 1 \in 0 .. MaxLimbs /\ k \in 0 .. MaxLimbs /\ k + 1 \in Nat
    BY Sizes
  <2> DEFINE S == {r \in Nat : k + 1 + r <= q => Value(l, k + 1 + r) > 0}
  <2>2. 0 \in S
    <3>1. Value(l, k + 1) = Value(l, k) + l[k] * Power[k]
      BY <2>1, NextLimb
    <3>2. Value(l, k) \in Nat /\ l[k] \in Nat \ {0} /\ Power[k] \in Nat \ {0}
      BY <1>2, <2>1, ValueRange, Storing, LimbPowers
    <3>3. l[k] * Power[k] > 0 /\ l[k] * Power[k] \in Nat
      BY <3>2
    <3> QED
      BY <3>1, <3>2, <3>3, <2>1
  <2>3. ASSUME NEW r \in Nat, r \in S PROVE r + 1 \in S
    <3> SUFFICES ASSUME k + 1 + (r + 1) <= q PROVE Value(l, k + 1 + (r + 1)) > 0
      OBVIOUS
    <3>1. k + 1 + r \in Index /\ k + 1 + r \in 0 .. MaxLimbs /\ k + 1 + (r + 1) = (k + 1 + r) + 1
      BY Sizes
    <3>2. Value(l, (k + 1 + r) + 1) = Value(l, k + 1 + r) + l[k + 1 + r] * Power[k + 1 + r]
      BY <3>1, NextLimb
    <3>3. Value(l, k + 1 + r) > 0 /\ Value(l, k + 1 + r) \in Nat
      BY <2>3, <3>1, ValueRange
    <3>4. l[k + 1 + r] * Power[k + 1 + r] \in Nat
      BY <3>1, Storing, LimbPowers
    <3> QED
      BY <3>1, <3>2, <3>3, <3>4
  <2> HIDE DEF S
  <2>4. q - (k + 1) \in S
    <3>1. Nat \subseteq S
      BY <2>2, <2>3, Induction
    <3>2. q - (k + 1) \in Nat
      BY Sizes
    <3> QED
      BY <3>1, <3>2
  <2>5. k + 1 + (q - (k + 1)) = q
    BY Sizes
  <2>6. Value(l, q) > 0
    BY <2>4, <2>5 DEF S
  <2> QED
    BY <2>6, ValueRange
<1> QED
  BY <1>1, <1>2

\* A number without leading zeros is at least the weight of its highest limb.
LEMMA ProperWeight ==
  ASSUME NEW l \in Arrays, NEW n \in 2 .. MaxLimbs, l[n - 1] # 0
  PROVE  Value(l, n) >= Power[n - 1] /\ n - 1 \in 0 .. MaxLimbs
<1>1. n - 1 \in Index /\ (n - 1) + 1 = n /\ n - 1 \in 0 .. MaxLimbs
  BY Sizes
<1>2. Value(l, n) = Value(l, n - 1) + l[n - 1] * Power[n - 1]
  BY <1>1, NextLimb
<1>3. Value(l, n - 1) \in Nat /\ l[n - 1] \in Nat \ {0} /\ Power[n - 1] \in Nat \ {0}
  BY <1>1, ValueRange, Storing, LimbPowers
<1>4. l[n - 1] * Power[n - 1] >= Power[n - 1]
  BY <1>3
<1> QED
  BY <1>1, <1>2, <1>3, <1>4

\* The root of a product by a power, its powers, and the powers its table holds.
LEMMA RootPowers ==
  ASSUME TypeOK, PowersInv, op \in {"mulPower", "mulPow10"}
  PROVE  /\ Root \in Nat \ {0} /\ PowersUpTo(Root, MaxExponent)
         /\ \A k \in 1 .. Len(table) : table[k] = Root ^ k
         /\ Result = start * Root ^ arg
<1>1. CASE op = "mulPower"
  <2>1. table \in Tables /\ Root = table[1]
    BY <1>1 DEF PowersInv, Root
  <2>2. table[1] \in Nat \ {0}
    BY <2>1, SmallsAssumption
  <2> QED
    BY <1>1, <2>1, <2>2, PowersAssumption DEF Result
<1>2. CASE op = "mulPow10"
  <2>1. table = Pow10Small /\ Root = Radix
    BY <1>2 DEF PowersInv, Root
  <2> QED
    BY <1>2, <2>1, PowersAssumption, PowersOfRadix DEF Result
<1> QED
  BY <1>1, <1>2

\* A step that works only on the limbs.
LEMMA PowersStep ==
  ASSUME PowersInv, UNCHANGED <<op, arg, table, left, shift, m, start, want>>,
         pc # "done" /\ (op \in {"mulPower", "mulPow10"} => pc' # "done"),
         op = "divPow10" => /\ exact' = exact
                            /\ \/ pc = "div" /\ pc' = "div"
                               \/ pc # "div" /\ pc' # "div" /\ carry' = carry
  PROVE  PowersInv'
<1>1. UNCHANGED <<Root, Result, DroppedUnit, DroppedValue>> \/ op \notin {"mulPower", "mulPow10", "divPow10"}
  BY DEF Root, Result, DroppedUnit, DroppedValue
<1>2. op \in {"mulPower", "mulPow10"} => ToCome' = ToCome
  BY DEF ToCome
<1>3. op = "divPow10" => (exact <=> DroppedValue = 0 /\ (pc # "div" => carry = 0))
                         = (exact' <=> DroppedValue = 0 /\ (pc' # "div" => carry' = 0))
  OBVIOUS
<1> QED
  BY <1>1, <1>2, <1>3 DEF PowersInv

LEMMA NextFactorPowers ==
  ASSUME LoopInv, PowersInv, NextFactor
  PROVE  PowersInv'
<1>1. /\ pc = "factors" /\ left > 0 /\ TypeOK /\ FactorsInv
      /\ UNCHANGED <<op, b, arg, table, shift, exact, start>>
      /\ left' = left - Chunk /\ want' = want * Factor /\ pc' \in {"factors", "mul"}
  BY DEF LoopInv, NextFactor, number, call, loop
<1>2. CASE op \notin {"mulPower", "mulPow10"}
  <2>1. op = "mulSmall"
    BY <1>1, <1>2 DEF FactorsInv
  <2> QED
    BY <2>1, <1>1 DEF PowersInv
<1>3. CASE op \in {"mulPower", "mulPow10"}
  <2>1. Chunk \in 1 .. Len(table) /\ Chunk <= left /\ left \in Nat /\ shift \in Nat
    <3>1. Len(table) \in Nat /\ Len(table) > 0 /\ left \in Nat /\ shift \in Nat
      BY <1>1 DEF TypeOK, FactorsInv
    <3> QED
      BY <3>1, <1>1 DEF Chunk
  <2>2. /\ Root \in Nat \ {0} /\ PowersUpTo(Root, MaxExponent) /\ Factor = Root ^ Chunk
    BY <1>1, <1>3, <2>1, RootPowers DEF Factor
  <2>3. ToCome = left + BaseDigits * shift /\ ToCome' = left' + BaseDigits * shift
    BY <1>1 DEF ToCome
  <2>4. ToCome' \in Nat /\ ToCome = Chunk + ToCome' /\ ToCome <= MaxExponent /\ ToCome' <= arg
    <3>1. BaseDigits * shift \in Nat /\ arg \in Nat /\ MaxExponent \in Nat
      BY <1>1, <2>1, PowersOfRadix DEF TypeOK
    <3>2. arg <= MaxExponent /\ ToCome <= arg
      BY <1>3 DEF PowersInv
    <3> QED
      BY <3>1, <3>2, <2>1, <2>3, <1>1
  <2>5. Root ^ ToCome = Root ^ Chunk * Root ^ (ToCome')
    <3> DEFINE c == Chunk
               t == ToCome'
               r == Root
    <3>1. c \in Nat /\ t \in Nat /\ c + t <= MaxExponent /\ r \in Nat /\ PowersUpTo(r, MaxExponent)
      BY <2>1, <2>2, <2>4
    <3> HIDE DEF c, t, r
    <3>2. r ^ (c + t) = r ^ c * r ^ t
      BY <3>1, PowersOfRadix, PowerSum
    <3> QED
      BY <3>2, <2>4 DEF c, t, r
  <2>6. Root ^ Chunk \in Nat /\ Root ^ (ToCome') \in Nat
    <3> DEFINE c == Chunk
               t == ToCome'
               r == Root
    <3>1. c \in Nat /\ t \in Nat /\ c + t <= MaxExponent /\ r \in Nat /\ PowersUpTo(r, MaxExponent)
      BY <2>1, <2>2, <2>4
    <3> HIDE DEF c, t, r
    <3>2. MaxExponent \in Nat /\ c \in 0 .. MaxExponent /\ t \in 0 .. MaxExponent
      BY <3>1, PowersOfRadix
    <3>3. r ^ c \in Nat /\ r ^ t \in Nat
      BY <3>1, <3>2, PowerType
    <3> QED
      BY <3>3 DEF c, t, r
  <2>7. want \in Int
    BY <1>1 DEF TypeOK
  <2>8. want' * Root ^ (ToCome') = want * Root ^ ToCome
    BY <1>1, <2>2, <2>5, <2>6, <2>7
  <2>9. UNCHANGED <<Root, Result>>
    BY <1>1, <1>3 DEF Root, Result
  <2> QED
    BY <1>1, <1>3, <2>4, <2>8, <2>9 DEF PowersInv
<1> QED
  BY <1>2, <1>3

LEMMA ShiftPowers ==
  ASSUME LoopInv, PowersInv, Shift
  PROVE  PowersInv'
<1>1. /\ pc = "factors" /\ left = 0 /\ TypeOK /\ FactorsInv
      /\ UNCHANGED <<op, b, arg, table, left, shift, m, i, carry, exact, old, start>>
      /\ \/ pc' = "done" /\ UNCHANGED want /\ (shift = 0 \/ IsZero)
         \/ pc' = "refused" /\ UNCHANGED want
         \/ /\ shift # 0 /\ len + shift <= MaxLimbs /\ want' = want * Power[shift] /\ pc' = "done"
  BY DEF LoopInv, Shift, number, call, driver, loop
<1>2. CASE op \notin {"mulPower", "mulPow10"}
  <2>1. op = "mulSmall"
    BY <1>1, <1>2 DEF FactorsInv
  <2> QED
    BY <2>1, <1>1 DEF PowersInv
<1>3. CASE op \in {"mulPower", "mulPow10"} /\ pc' = "refused"
  BY <1>1, <1>3, PowersStep
<1>4. CASE op \in {"mulPower", "mulPow10"} /\ pc' = "done"
  <2>1. /\ Root \in Nat \ {0} /\ PowersUpTo(Root, MaxExponent) /\ Root ^ 0 = 1
    BY <1>1, <1>4, RootPowers DEF PowersUpTo
  <2>2. /\ want \in Nat /\ shift \in Nat /\ want = Number /\ limb \in Arrays /\ len \in 0 .. MaxLimbs
        /\ arg \in Nat
    <3>1. Number = want /\ limb \in Arrays /\ len \in 0 .. MaxLimbs /\ shift \in Nat /\ arg \in Nat
      BY <1>1 DEF TypeOK, FactorsInv
    <3> QED
      BY <3>1, ValueRange DEF Number
  <2>3. ToCome = BaseDigits * shift /\ ToCome' = 0 /\ ToCome <= MaxExponent /\ ToCome \in Nat
    <3>1. BaseDigits * shift \in Nat
      BY <2>2, PowersOfRadix
    <3> QED
      BY <3>1, <1>1, <1>4, <2>2, PowersOfRadix DEF ToCome, PowersInv
  <2>4. want' \in Nat /\ want' = want * Root ^ ToCome
    <3>1. CASE UNCHANGED want /\ shift = 0
      BY <3>1, <2>1, <2>2, <2>3, PowersOfRadix
    <3>2. CASE UNCHANGED want /\ IsZero
      <4>1. want = 0
        BY <3>2, <2>2, ZeroValue DEF IsZero, Number
      <4>2. Root ^ ToCome \in Nat
        BY <2>1, <2>3, PowersOfRadix, PowerType
      <4> QED
        BY <3>2, <4>1, <4>2
    <3>3. CASE shift # 0 /\ len + shift <= MaxLimbs /\ want' = want * Power[shift]
      <4>1. Root = Radix
        BY <3>3, <1>4 DEF PowersInv, Root
      <4>2. shift \in 0 .. MaxLimbs
        BY <3>3, <2>2, Sizes
      <4>3. Power[shift] = Radix ^ (BaseDigits * shift) /\ Power[shift] \in Nat
        BY <4>2, LimbUnit, LimbPowers
      <4> QED
        BY <3>3, <4>1, <4>3, <2>2, <2>3
    <3> QED
      BY <3>1, <3>2, <3>3, <1>1, <1>4
  <2>5. UNCHANGED <<Root, Result>>
    BY <1>1, <1>4 DEF Root, Result
  <2>6. want' * Root ^ (ToCome') = Result
    BY <2>1, <2>3, <2>4, <1>4 DEF PowersInv
  <2> QED
    BY <1>1, <1>4, <2>2, <2>3, <2>5, <2>6 DEF PowersInv
<1> QED
  BY <1>1, <1>2, <1>3, <1>4

LEMMA MulPowerPowers ==
  ASSUME LoopInv, NEW t \in Tables, NEW p \in Exponents, MulPower(t, p)
  PROVE  PowersInv'
<1>1. /\ pc = "idle" /\ op' = "mulPower" /\ arg' = p /\ pc' = "factors" /\ start' = Number
      /\ table' = t /\ left' = p /\ want' = Number /\ shift' = shift
  BY DEF MulPower, Begin
<1>2. shift = 0 /\ Number \in Nat
  BY <1>1, Begun
<1>3. p \in Nat /\ p <= MaxExponent /\ BaseDigits * 0 = 0
  BY SizesAssumption, PowersOfRadix
<1>4. ToCome' = p
  BY <1>1, <1>2, <1>3 DEF ToCome
<1>5. Root' = t[1] /\ Result' = Number * t[1] ^ p
  BY <1>1 DEF Root, Result
<1> QED
  BY <1>1, <1>2, <1>3, <1>4, <1>5 DEF PowersInv

LEMMA MulPow10Powers ==
  ASSUME LoopInv, NEW p \in Exponents, MulPow10(p)
  PROVE  PowersInv'
<1>1. /\ pc = "idle" /\ op' = "mulPow10" /\ arg' = p /\ pc' = "factors" /\ start' = Number
      /\ table' = Pow10Small /\ left' = p % BaseDigits /\ shift' = p \div BaseDigits
      /\ want' = Number
  BY DEF MulPow10, Begin
<1>2. p \in 0 .. MaxExponent /\ p = BaseDigits * (p \div BaseDigits) + (p % BaseDigits)
      /\ p % BaseDigits \in Nat /\ BaseDigits * (p \div BaseDigits) \in Nat
  BY ExponentSplit
<1>3. ToCome' = p
  BY <1>1, <1>2 DEF ToCome
<1>4. Root' = Radix /\ Result' = Number * Radix ^ p
  BY <1>1 DEF Root, Result
<1> QED
  BY <1>1, <1>2, <1>3, <1>4 DEF PowersInv

LEMMA DivPow10Powers ==
  ASSUME LoopInv, NEW p \in Exponents, DivPow10(p)
  PROVE  PowersInv'
<1> DEFINE q == p \div BaseDigits
           r == p % BaseDigits
<1>1. /\ pc = "idle" /\ op' = "divPow10" /\ arg' = p /\ start' = Number
      /\ \/ /\ q >= len /\ len' = 1 /\ limb' = Store(limb, 0, 0)
            /\ exact' = IsZero
         \/ /\ q < len /\ len' = len - q /\ limb' = DropLimbs(q)
            /\ exact' = \A k \in 0 .. q - 1 : limb[k] = 0
      /\ m' = (IF r # 0 THEN Pow10Small[r] ELSE 1)
      /\ carry' = 0 /\ want' = Value(limb', len')
  BY DEF DivPow10, Begin, Store
<1>2. /\ TypeOK /\ len \in 1 .. MaxLimbs /\ limb \in Arrays /\ 0 \in Index
      /\ Number \in Nat /\ Number = Value(limb, len) /\ Proper(limb, len) /\ len \in 0 .. MaxLimbs
  BY <1>1, Begun
<1>3. /\ p \in 0 .. MaxExponent /\ q \in Nat /\ r \in 0 .. BaseDigits - 1 /\ p = BaseDigits * q + r
      /\ BaseDigits * q \in 0 .. MaxExponent /\ BaseDigits \in Nat \ {0}
  <2>1. /\ p \in 0 .. MaxExponent /\ q \in Nat /\ r \in 0 .. BaseDigits - 1 /\ p = BaseDigits * q + r
        /\ BaseDigits \in Nat \ {0}
    BY ExponentSplit
  <2> HIDE DEF q, r
  <2>2. BaseDigits * q \in Nat /\ MaxExponent \in Nat /\ r \in Nat
    BY <2>1, PowersOfRadix
  <2>3. BaseDigits * q \in 0 .. MaxExponent
    BY <2>1, <2>2
  <2> QED
    BY <2>1, <2>3
<1> DEFINE unit == Radix ^ (BaseDigits * q)
<1>4. unit \in Nat \ {0}
  BY <1>3, PowersOfRadix
<1>5. m' = Radix ^ r
  <2>1. CASE r = 0
    BY <2>1, <1>1, PowersOfRadix DEF PowersUpTo
  <2>2. CASE r # 0
    <3>1. r \in 1 .. Len(Pow10Small)
      BY <2>2, <1>3, SmallsAssumption
    <3> QED
      BY <3>1, <2>2, <1>1, PowersAssumption
  <2> QED
    BY <2>1, <2>2
<1>6. DroppedUnit' = unit /\ DroppedValue' = Number - want' * unit
  BY <1>1 DEF DroppedUnit, DroppedValue
<1>7. Number - want' * unit \in 0 .. unit - 1 /\ (exact' <=> Number - want' * unit = 0)
  <2> HIDE DEF q, r
  <2>1. CASE q >= len
    <3>1. len' = 1 /\ limb' = Store(limb, 0, 0) /\ exact' = IsZero
      <4>1. ~(q < len)
        BY <2>1, <1>2, <1>3, Sizes
      <4> QED
        BY <4>1, <1>1
    <3>2. Store(limb, 0, 0) \in Arrays /\ Store(limb, 0, 0)[0] = 0
      BY <1>2, StoreLimb, Storing, Sizes
    <3>3. want' = 0
      BY <3>1, <3>2, <1>1, ZeroValue, Sizes
    <3>4. Number < unit
      <4>1. Number < Power[len] /\ Power[len] = Radix ^ (BaseDigits * len)
            /\ BaseDigits * len \in 0 .. MaxExponent
        BY <1>2, ValueRange, LimbUnit
      <4> DEFINE d == BaseDigits * len
                 e == BaseDigits * q
      <4>2. d \in 0 .. MaxExponent /\ e \in 0 .. MaxExponent /\ d <= e
        <5>1. BaseDigits * len <= BaseDigits * q
          BY <2>1, <1>2, <1>3
        <5> QED
          BY <5>1, <4>1, <1>3
      <4>3. Radix ^ d <= Radix ^ e
        <5> HIDE DEF d, e
        <5> QED
          BY <4>2, PowersOfRadix, PowerOrder
      <4>4. Radix ^ d \in Nat /\ Radix ^ e \in Nat
        BY <4>2, PowersOfRadix
      <4> QED
        BY <4>1, <4>3, <4>4, <1>2
    <3>5. IsZero <=> Number = 0
      <4>1. CASE len = 1
        <5>1. Number = 0 <=> \A k \in 0 .. 0 : limb[k] = 0
          BY <4>1, <1>2, ZeroLimbs
        <5> QED
          BY <5>1, <4>1 DEF IsZero
      <4>2. CASE len # 1
        <5>1. len \in 2 .. MaxLimbs /\ limb[len - 1] # 0
          BY <4>2, <1>2, Sizes DEF Proper
        <5>2. Value(limb, len) >= Power[len - 1] /\ Power[len - 1] \in Nat \ {0}
          BY <5>1, <1>2, ProperWeight, LimbPowers
        <5> QED
          BY <5>2, <4>2, <1>2 DEF IsZero
      <4> QED
        BY <4>1, <4>2
    <3> HIDE DEF unit
    <3>6. Number - want' * unit = Number
      BY <3>3, <1>2, <1>4
    <3> QED
      BY <3>1, <3>4, <3>5, <3>6, <1>2, <1>4
  <2>2. CASE q < len
    <3>1. /\ len' = len - q /\ limb' = DropLimbs(q)
          /\ exact' = \A k \in 0 .. q - 1 : limb[k] = 0
      <4>1. ~(q >= len)
        BY <2>2, <1>2, <1>3, Sizes
      <4> QED
        BY <4>1, <1>1
    <3>2. /\ q \in 0 .. MaxLimbs /\ len - q \in 0 .. MaxLimbs - q /\ (len - q) + q = len
          /\ len - q \in 0 .. MaxLimbs
      BY <2>2, <1>2, <1>3, Sizes
    <3>3. DropLimbs(q) \in Arrays
      <4>1. \A k \in Index : k + q < len => k + q \in Index
        BY <1>2, <1>3, Sizes
      <4> QED
        BY <4>1, <1>2, Storing DEF DropLimbs, Arrays
    <3>4. \A j \in 0 .. (len - q) - 1 : DropLimbs(q)[j] = limb[j + q]
      <4>1. ASSUME NEW j \in 0 .. (len - q) - 1 PROVE j \in Index /\ j + q < len
        BY <1>2, <1>3, Sizes
      <4> QED
        BY <4>1 DEF DropLimbs
    <3> DEFINE n == len - q
               v == Value(limb, q)
    <3>5. Value(limb, n + q) = v + Power[q] * Value(DropLimbs(q), n)
      <4> HIDE DEF n
      <4> QED
        BY <3>2, <3>3, <3>4, <1>2, MovedRun DEF n
    <3>6. Power[q] = unit /\ v \in Nat /\ v < Power[q] /\ Value(DropLimbs(q), n) \in Nat
          /\ want' = Value(DropLimbs(q), n) /\ Number = Value(limb, n + q)
      BY <3>1, <3>2, <3>3, <1>1, <1>2, LimbUnit, ValueRange
    <3>7. exact' <=> v = 0
      BY <3>1, <3>2, <1>2, ZeroLimbs
    <3> HIDE DEF unit, v, n
    <3>8. Number = v + unit * want' /\ want' \in Nat
      BY <3>5, <3>6
    <3>9. unit * want' = want' * unit /\ unit * want' \in Nat
      <4>1. \A x, y \in Nat : x * y = y * x /\ x * y \in Nat
        OBVIOUS
      <4> QED
        BY <4>1, <3>8, <1>4
    <3> QED
      BY <3>6, <3>7, <3>8, <3>9, <1>4
  <2> QED
    BY <2>1, <2>2, <1>2, <1>3, Sizes
<1>8. arg' = p /\ m' = Radix ^ (arg' % BaseDigits)
  BY <1>1, <1>5
<1> HIDE DEF unit, q, r
<1> QED
  BY <1>1, <1>6, <1>7, <1>8 DEF PowersInv

LEMMA DivPowers ==
  ASSUME LoopInv, PowersInv, DivTurn \/ DivEnd \/ StripLimb \/ Stripped
  PROVE  PowersInv'
<1>1. UNCHANGED <<op, arg, table, left, shift, m, start, want>>
  BY DEF DivTurn, DivEnd, StripLimb, Stripped, number, call, driver, history
<1>2. op \notin {"mulPower", "mulPow10"}
  BY DEF DivTurn, DivEnd, StripLimb, Stripped, LoopInv, DivInv, NormalizeInv, Divides
<1>3. CASE ~DivEnd
  <2>1. /\ pc # "done" /\ exact' = exact
        /\ \/ pc = "div" /\ pc' = "div"
           \/ pc # "div" /\ pc' # "div" /\ carry' = carry
    BY <1>3 DEF DivTurn, StripLimb, Stripped, loop
  <2> QED
    BY <2>1, <1>1, <1>2, PowersStep
<1>4. CASE DivEnd
  <2>1. pc = "div" /\ pc' = "normalize" /\ exact' = (exact /\ carry = 0) /\ carry' = carry
    BY <1>4 DEF DivEnd, loop
  <2>2. op = "divPow10" => UNCHANGED <<DroppedUnit, DroppedValue>>
    BY <1>1 DEF DroppedUnit, DroppedValue
  <2> QED
    BY <2>1, <2>2, <1>1, <1>2 DEF PowersInv
<1> QED
  BY <1>3, <1>4

LEMMA PowersKept ==
  ASSUME LoopInv, PowersInv, [Next]_vars
  PROVE  PowersInv'
<1>1. CASE Call
  <2>1. CASE \E t \in Tables, p \in Exponents : MulPower(t, p)
    BY <2>1, MulPowerPowers
  <2>2. CASE \E p \in Exponents : MulPow10(p) \/ DivPow10(p)
    BY <2>2, MulPow10Powers, DivPow10Powers
  <2>3. CASE op' \notin {"mulPower", "mulPow10", "divPow10"}
    BY <2>3 DEF PowersInv
  <2> QED
    BY <1>1, <2>1, <2>2, <2>3
    DEF Call, Begin, FromU64, MulSmall, AddSmall, SubSmall, DivSmall, AppendDigit, Add, Sub, ToU64
<1>2. CASE NextFactor \/ Shift
  BY <1>2, NextFactorPowers, ShiftPowers
<1>3. CASE MulTurn \/ MulEnd \/ AppendLimb \/ AppendFull \/ AppendEnd
  <2>1. /\ op # "divPow10" /\ pc # "done" /\ (op \in {"mulPower", "mulPow10"} => pc' # "done")
        /\ UNCHANGED <<op, arg, table, left, shift, m, start, want>>
    BY <1>3 DEF MulTurn, MulEnd, AppendLimb, AppendFull, AppendEnd, LoopInv, MulInv, AppendInv,
                call, driver, history
  <2> QED
    BY <2>1, PowersStep
<1>4. CASE ProbeTurn \/ ProbeEnd \/ AddSmallTurn \/ AddTurn \/ GrowFull \/ GrowEnd
           \/ BorrowTurn \/ BorrowEnd \/ ToU64Turn \/ ToU64End
  <2>1. UNCHANGED op
    BY <1>4 DEF ProbeTurn, ProbeEnd, AddSmallTurn, AddTurn, GrowFull, GrowEnd,
                BorrowTurn, BorrowEnd, ToU64Turn, ToU64End, call
  <2>2. op \in {"append", "addSmall", "add", "sub", "subSmall", "toU64"}
    BY <1>4 DEF ProbeTurn, ProbeEnd, AddSmallTurn, AddTurn, GrowFull, GrowEnd,
                BorrowTurn, BorrowEnd, ToU64Turn, ToU64End, LoopInv, ProbeInv, AddSmallInv, AddInv,
                SubInv, SubSmallInv, ToU64Inv
  <2> QED
    BY <2>1, <2>2 DEF PowersInv
<1>5. CASE DivTurn \/ DivEnd \/ StripLimb \/ Stripped
  BY <1>5, DivPowers
<1>6. CASE Return
  BY <1>6 DEF Return, PowersInv
<1>7. CASE UNCHANGED vars
  <2>1. UNCHANGED <<op, b, arg, table, left, shift, m, carry, exact, pc, start, want>>
    BY <1>7 DEF vars
  <2> QED
    BY <2>1 DEF PowersInv, Root, Result, ToCome, DroppedUnit, DroppedValue
<1> QED
  BY <1>1, <1>2, <1>3, <1>4, <1>5, <1>6, <1>7 DEF Next

---------------------------------------------------------------------------
(* Refusals. *)

\* Of two numbers of one length the one with the smaller limb at the highest difference
\* is the smaller, and of two proper numbers the shorter one.
LEMMA LessThanValue ==
  ASSUME limb \in Arrays, len \in 1 .. MaxLimbs, Proper(limb, len),
         NEW x \in Operands, LessThan(x)
  PROVE  Value(limb, len) < Value(x.limb, x.len)
<1>1. x.limb \in Arrays /\ x.len \in 1 .. MaxLimbs /\ Proper(x.limb, x.len) /\ x.len \in 0 .. MaxLimbs
      /\ len \in 0 .. MaxLimbs
  BY OperandsAssumption, Sizes
<1>2. /\ Value(limb, len) \in Nat /\ Value(x.limb, x.len) \in Nat /\ Value(limb, len) < Power[len]
  BY <1>1, ValueRange
<1>3. CASE len < x.len
  <2>1. x.len \in 2 .. MaxLimbs /\ x.limb[x.len - 1] # 0
    BY <1>1, <1>3, Sizes DEF Proper
  <2>2. Value(x.limb, x.len) >= Power[x.len - 1] /\ x.len - 1 \in 0 .. MaxLimbs
    BY <2>1, <1>1, ProperWeight
  <2>3. Power[len] <= Power[x.len - 1]
    <3> DEFINE n == len
               k == x.len - 1
    <3>1. n \in 0 .. MaxLimbs /\ k \in 0 .. MaxLimbs /\ n <= k
      BY <1>1, <1>3, <2>2
    <3> HIDE DEF n, k
    <3>2. Base ^ n <= Base ^ k
      BY <3>1, Sizes, PowersAssumption, PowerOrder
    <3> QED
      BY <3>1, <3>2 DEF n, k, Power
  <2>4. Power[len] \in Nat /\ Power[x.len - 1] \in Nat
    BY <1>1, <2>2, LimbPowers
  <2> QED
    BY <1>2, <2>2, <2>3, <2>4
<1>4. CASE len = x.len /\ \E k \in 0 .. len - 1 :
             limb[k] < x.limb[k] /\ \A j \in k + 1 .. len - 1 : limb[j] = x.limb[j]
  <2>1. PICK k \in 0 .. len - 1 :
          limb[k] < x.limb[k] /\ \A j \in k + 1 .. len - 1 : limb[j] = x.limb[j]
    BY <1>4
  <2>2. /\ k \in Index /\ k \in 0 .. MaxLimbs /\ k + 1 \in 0 .. MaxLimbs
        /\ len \in k + 1 .. MaxLimbs
    BY <1>1, Sizes
  <2>3. Value(limb, len) - Value(limb, k + 1) = Value(x.limb, len) - Value(x.limb, k + 1)
    BY <1>1, <2>1, <2>2, EqualRuns
  <2>4. /\ Value(limb, k + 1) = Value(limb, k) + limb[k] * Power[k]
        /\ Value(x.limb, k + 1) = Value(x.limb, k) + x.limb[k] * Power[k]
    BY <1>1, <2>2, NextLimb
  <2>5. /\ Value(limb, k) \in Nat /\ Value(limb, k) < Power[k] /\ Value(x.limb, k) \in Nat
        /\ Value(limb, k + 1) \in Nat /\ Value(x.limb, k + 1) \in Nat
    BY <1>1, <2>2, ValueRange
  <2>6. limb[k] \in Nat /\ x.limb[k] \in Nat /\ Power[k] \in Nat
    BY <1>1, <2>2, Storing, LimbPowers
  <2>7. limb[k] * Power[k] + Power[k] <= x.limb[k] * Power[k]
    <3>1. \A u, v, w \in Nat : u < v => u * w + w <= v * w
      <4> SUFFICES ASSUME NEW u \in Nat, NEW v \in Nat, NEW w \in Nat, u < v
                   PROVE  u * w + w <= v * w
        OBVIOUS
      <4>1. (u + 1) * w <= v * w
        OBVIOUS
      <4>2. (u + 1) * w = u * w + w
        OBVIOUS
      <4> QED
        BY <4>1, <4>2
    <3> QED
      BY <3>1, <2>1, <2>6
  <2>8. limb[k] * Power[k] \in Nat /\ x.limb[k] * Power[k] \in Nat
    BY <2>6
  <2>9. Value(limb, k + 1) < Value(x.limb, k + 1)
    BY <2>4, <2>5, <2>6, <2>7, <2>8
  <2> QED
    BY <2>3, <2>5, <2>9, <1>1, <1>2, <1>4
<1> QED
  BY <1>3, <1>4 DEF LessThan

\* What is carried out of a full array is a number too large for it.
LEMMA CarriedOut ==
  ASSUME NEW c \in Nat \ {0}, NEW v \in Nat
  PROVE  v + c * Power[MaxLimbs] >= Power[MaxLimbs]
<1>1. Power[MaxLimbs] \in Nat
  BY Sizes, LimbPowers
<1>2. c * Power[MaxLimbs] >= Power[MaxLimbs] /\ c * Power[MaxLimbs] \in Nat
  BY <1>1
<1> QED
  BY <1>1, <1>2

\* A refusal in the middle of a call, by what the call has to answer.
LEMMA RefusedHere ==
  ASSUME UNCHANGED <<len, op, b, arg, table, start>>,
         CASE op \in {"sub", "subSmall"} -> Result < 0
           [] op = "divSmall" -> arg < 2
           [] op = "toU64" -> start >= Word
           [] op = "add" -> len = MaxLimbs \/ b.len = MaxLimbs
           [] OTHER -> Result >= Power[MaxLimbs]
  PROVE  RefusesOnlyTooLarge'
<1>1. Result' = Result
  BY DEF Result
<1> QED
  BY <1>1 DEF RefusesOnlyTooLarge

LEMMA AppendFullRefuses ==
  ASSUME LoopInv, PowersInv, AppendFull
  PROVE  RefusesOnlyTooLarge'
<1>1. /\ pc = "append" /\ carry # 0 /\ len >= MaxLimbs /\ TypeOK /\ AppendInv /\ WantInv
      /\ UNCHANGED <<op, b, arg, table, start>>
  BY DEF LoopInv, AppendFull, call, driver, history
<1>2. len = MaxLimbs /\ limb \in Arrays /\ carry \in Nat \ {0} /\ Value(limb, len) \in Nat
  <2>1. len = MaxLimbs /\ limb \in Arrays /\ carry \in Nat \ {0} /\ len \in 0 .. MaxLimbs
    BY <1>1, Sizes DEF TypeOK
  <2> QED
    BY <2>1, ValueRange
<1>3. want >= Power[MaxLimbs] /\ Power[MaxLimbs] \in Nat /\ want \in Nat
  <2>1. Value(limb, len) + carry * Power[MaxLimbs] = want
    BY <1>1, <1>2 DEF AppendInv
  <2>2. Power[MaxLimbs] \in Nat /\ carry * Power[MaxLimbs] \in Nat
    BY <1>2, Sizes, LimbPowers
  <2> QED
    BY <2>1, <2>2, <1>2, CarriedOut
<1>4. op \in {"fromU64", "mulSmall", "mulPower", "mulPow10"}
  BY <1>1, <1>2, Sizes DEF AppendInv
<1>5. Result >= Power[MaxLimbs]
  <2>1. CASE op = "fromU64"
    BY <2>1, <1>1, <1>3 DEF WantInv
  <2>2. CASE op = "mulSmall"
    BY <2>2, <1>1, <1>3 DEF WantInv, Result
  <2>3. CASE op \in {"mulPower", "mulPow10"}
    <3>1. Root \in Nat \ {0} /\ PowersUpTo(Root, MaxExponent)
      BY <2>3, <1>1, RootPowers
    <3>2. ToCome \in 0 .. MaxExponent
      <4>1. ToCome <= arg /\ arg <= MaxExponent /\ arg \in Nat
        BY <2>3, <1>1 DEF PowersInv, TypeOK
      <4>2. ToCome \in Nat
        <5>1. left \in Nat /\ BaseDigits * shift \in Nat
          BY <1>1, PowersOfRadix DEF TypeOK
        <5> QED
          BY <5>1 DEF ToCome
      <4> QED
        BY <4>1, <4>2, PowersOfRadix
    <3>3. Root ^ ToCome \in Nat \ {0}
      BY <3>1, <3>2, PowersOfRadix, PowerPositive
    <3>4. want * Root ^ ToCome >= want
      <4>1. \A u \in Nat, v \in Nat \ {0} : u * v >= u
        OBVIOUS
      <4> QED
        BY <4>1, <3>3, <1>3
    <3>5. want * Root ^ ToCome = Result /\ want * Root ^ ToCome \in Nat
      BY <2>3, <3>3, <1>3 DEF PowersInv
    <3> QED
      BY <3>4, <3>5, <1>3
  <2> QED
    BY <2>1, <2>2, <2>3, <1>4
<1>6. Result' = Result
  BY <1>1 DEF Result
<1> QED
  BY <1>1, <1>4, <1>5, <1>6 DEF RefusesOnlyTooLarge

LEMMA ShiftRefuses ==
  ASSUME LoopInv, PowersInv, Shift
  PROVE  RefusesOnlyTooLarge'
<1>1. /\ pc = "factors" /\ left = 0 /\ TypeOK /\ FactorsInv
      /\ UNCHANGED <<op, b, arg, table, start>>
      /\ \/ pc' = "done"
         \/ /\ pc' = "refused" /\ len' = len
            /\ shift # 0 /\ ~IsZero /\ len + shift > MaxLimbs
  BY DEF LoopInv, Shift, number, call, driver, loop
<1>2. SUFFICES ASSUME pc' = "refused" PROVE RefusesOnlyTooLarge'
  BY <1>1 DEF RefusesOnlyTooLarge
<1>3. /\ op \in {"mulSmall", "mulPower", "mulPow10"} /\ len \in 1 .. MaxLimbs /\ shift \in Nat \ {0}
      /\ limb \in Arrays /\ Proper(limb, len) /\ Number = want /\ Number = Value(limb, len)
  BY <1>1, <1>2 DEF TypeOK, FactorsInv, Proper, Number
<1>4. op = "mulPow10"
  BY <1>1, <1>3 DEF LoopInv, WantInv, PowersInv
<1> DEFINE s == MaxLimbs - (len - 1)
           c == len - 1
<1>5. s \in 0 .. MaxLimbs /\ s <= shift /\ c \in 0 .. MaxLimbs /\ c + s = MaxLimbs /\ s \in Nat /\ c \in Nat
  BY <1>1, <1>2, <1>3, Sizes
<1>6. want >= Power[c] /\ want \in Nat
  <2>1. Value(limb, len) \in Nat
    BY <1>3, Sizes, ValueRange
  <2>2. CASE len = 1
    <3>1. limb[0] # 0 /\ limb[0] \in Nat /\ Value(limb, 1) = limb[0]
      <4>1. 0 \in Index /\ Value(limb, 0) = 0 /\ Power[0] = 1 /\ 0 + 1 = 1
        BY <1>3, NoLimbs, LimbPowers, Sizes
      <4>2. Value(limb, 0 + 1) = Value(limb, 0) + limb[0] * Power[0]
        BY <4>1, <1>3, NextLimb
      <4>3. limb[0] \in Nat
        BY <4>1, <1>3, Storing
      <4> QED
        BY <4>1, <4>2, <4>3, <2>2, <1>1, <1>2 DEF IsZero
    <3> QED
      BY <3>1, <2>2, <1>3, LimbPowers
  <2>3. CASE len # 1
    <3>1. len \in 2 .. MaxLimbs /\ limb[len - 1] # 0
      BY <2>3, <1>3, Sizes DEF Proper
    <3> QED
      BY <3>1, <1>3, <2>1, ProperWeight
  <2> QED
    BY <2>2, <2>3
<1>7. ToCome = BaseDigits * shift /\ ToCome \in 0 .. MaxExponent /\ want * Radix ^ ToCome = Result
  <2>1. ToCome <= arg /\ arg <= MaxExponent /\ want * Root ^ ToCome = Result /\ Root = Radix
    BY <1>4 DEF PowersInv, Root
  <2>2. BaseDigits * shift \in Nat /\ left = 0 /\ arg \in Nat
    BY <1>1, <1>3, PowersOfRadix DEF TypeOK
  <2>3. ToCome = BaseDigits * shift
    BY <2>2, <1>1 DEF ToCome
  <2>4. ToCome \in 0 .. MaxExponent
    BY <2>1, <2>2, <2>3, PowersOfRadix
  <2> QED
    BY <2>1, <2>3, <2>4
<1> HIDE DEF s, c
<1>8. Power[s] <= Radix ^ ToCome /\ Power[s] \in Nat /\ Radix ^ ToCome \in Nat
  <2> DEFINE d == BaseDigits * s
             e == BaseDigits * shift
  <2>1. d \in 0 .. MaxExponent /\ e \in 0 .. MaxExponent /\ d <= e /\ Power[s] = Radix ^ d
    <3>1. BaseDigits * s \in 0 .. MaxExponent /\ Power[s] = Radix ^ (BaseDigits * s)
      BY <1>5, LimbUnit
    <3>2. BaseDigits * s <= BaseDigits * shift
      BY <1>3, <1>5, PowersOfRadix
    <3> QED
      BY <3>1, <3>2, <1>7
  <2> HIDE DEF d
  <2>2. Radix ^ d <= Radix ^ ToCome
    BY <2>1, <1>7, PowersOfRadix, PowerOrder
  <2> QED
    BY <2>1, <2>2, <1>5, <1>7, PowersOfRadix, LimbPowers
<1>9. Power[MaxLimbs] = Power[c] * Power[s] /\ Power[c] \in Nat
  <2>1. Base ^ (c + s) = Base ^ c * Base ^ s
    BY <1>5, Sizes, PowersAssumption, PowerSum
  <2>2. Base ^ (c + s) = Power[MaxLimbs] /\ Base ^ c = Power[c] /\ Base ^ s = Power[s]
    BY <1>5, Sizes DEF Power
  <2> QED
    BY <2>1, <2>2, <1>5, LimbPowers
<1>10. Result >= Power[MaxLimbs]
  <2>1. \A x, y, u, v \in Nat : x <= u /\ y <= v => x * y <= u * v
    <3> SUFFICES ASSUME NEW x \in Nat, NEW y \in Nat, NEW u \in Nat, NEW v \in Nat, x <= u, y <= v
                 PROVE  x * y <= u * v
      OBVIOUS
    <3>1. x * y <= u * y /\ u * y <= u * v /\ x * y \in Nat /\ u * y \in Nat /\ u * v \in Nat
      OBVIOUS
    <3> QED
      BY <3>1
  <2>2. Power[c] * Power[s] <= want * Radix ^ ToCome
    BY <2>1, <1>6, <1>8, <1>9
  <2> QED
    BY <2>2, <1>7, <1>9
<1> QED
  BY <1>1, <1>2, <1>4, <1>10, RefusedHere

LEMMA ProbeEndRefuses ==
  ASSUME LoopInv, ProbeEnd
  PROVE  RefusesOnlyTooLarge'
<1>1. /\ pc = "probe" /\ i >= len /\ TypeOK /\ ProbeInv /\ WantInv
      /\ UNCHANGED <<len, op, b, arg, table, start>>
      /\ pc' = "mul" \/ (pc' = "refused" /\ carry # 0)
  BY DEF LoopInv, ProbeEnd, number, call, driver, history
<1>2. SUFFICES ASSUME carry # 0 PROVE RefusesOnlyTooLarge'
  BY <1>1 DEF RefusesOnlyTooLarge
<1>3. /\ i = MaxLimbs /\ len = MaxLimbs /\ op = "append" /\ carry \in Nat \ {0}
      /\ carry * Power[MaxLimbs] <= want /\ want = Result /\ want \in Int
  <2>1. i = MaxLimbs /\ len = MaxLimbs /\ op = "append" /\ carry \in Nat \ {0} /\ want \in Int
    BY <1>1, <1>2, Sizes DEF ProbeInv, TypeOK
  <2> QED
    BY <2>1, <1>1 DEF ProbeInv, WantInv
<1>4. Power[MaxLimbs] \in Nat /\ carry * Power[MaxLimbs] \in Nat /\ carry * Power[MaxLimbs] >= Power[MaxLimbs]
  <2>1. Power[MaxLimbs] \in Nat
    BY Sizes, LimbPowers
  <2> QED
    BY <2>1, <1>3
<1>5. Result >= Power[MaxLimbs]
  BY <1>3, <1>4
<1> QED
  BY <1>1, <1>3, <1>5, RefusedHere

LEMMA GrowFullRefuses ==
  ASSUME LoopInv, GrowFull
  PROVE  RefusesOnlyTooLarge'
<1>1. /\ pc \in {"add", "addSmall"} /\ carry # 0 /\ i >= MaxLimbs /\ TypeOK /\ WantInv
      /\ pc = "add" => AddInv
      /\ pc = "addSmall" => AddSmallInv
      /\ UNCHANGED <<len, op, b, arg, table, start>>
  BY DEF LoopInv, GrowFull, number, call, driver, history
<1>2. i = MaxLimbs /\ len = MaxLimbs
  BY <1>1, Sizes DEF TypeOK, AddInv, AddSmallInv
<1>3. CASE pc = "add"
  BY <1>1, <1>2, <1>3, RefusedHere DEF AddInv
<1>4. CASE pc = "addSmall"
  <2>1. /\ Value(limb, MaxLimbs) + carry * Power[MaxLimbs] = want /\ op = "addSmall" /\ want = Result
    BY <1>1, <1>2, <1>4 DEF AddSmallInv, WantInv
  <2>2. carry \in Nat \ {0} /\ Value(limb, MaxLimbs) \in Nat
    BY <1>1, Sizes, ValueRange DEF TypeOK
  <2>3. Result >= Power[MaxLimbs]
    BY <2>1, <2>2, CarriedOut
  <2> QED
    BY <2>1, <2>3, <1>1, RefusedHere
<1> QED
  BY <1>1, <1>3, <1>4

LEMMA BorrowEndRefuses ==
  ASSUME LoopInv, BorrowEnd
  PROVE  RefusesOnlyTooLarge'
<1>1. /\ TypeOK /\ WantInv
      /\ UNCHANGED <<len, op, b, arg, table, start>>
      /\ \/ pc = "sub" /\ SubInv /\ i >= len
         \/ pc = "subSmall" /\ SubSmallInv /\ (i >= len \/ carry = 0)
      /\ pc' = IF carry # 0 THEN "refused" ELSE "normalize"
  BY DEF LoopInv, BorrowEnd, number, call, driver, history
<1>2. SUFFICES ASSUME carry # 0 PROVE RefusesOnlyTooLarge'
  BY <1>1 DEF RefusesOnlyTooLarge
<1>3. i = len /\ op \in {"sub", "subSmall"} /\ len \in 0 .. MaxLimbs /\ limb \in Arrays /\ carry \in Nat \ {0}
  BY <1>1, <1>2 DEF SubInv, SubSmallInv, TypeOK
<1>4. Value(limb, len) - carry * Power[len] = want /\ want = Result
  BY <1>1, <1>3 DEF SubInv, SubSmallInv, WantInv
<1>5. Value(limb, len) \in Nat /\ Value(limb, len) < Power[len] /\ Power[len] \in Nat
  BY <1>3, ValueRange, LimbPowers
<1>6. carry * Power[len] >= Power[len] /\ carry * Power[len] \in Nat
  BY <1>3, <1>5
<1>7. Result < 0
  BY <1>4, <1>5, <1>6
<1> QED
  BY <1>1, <1>3, <1>7, RefusedHere

\* A dividend that does not fit the word, or wraps around in it, is at least the word.
LEMMA TooLargeForWord ==
  ASSUME NEW c \in Nat, NEW d \in Nat, c > (Word - 1) \div Base \/ (c * Base + d) % Word < c
  PROVE  c * Base + d >= Word
<1>1. Base \in Nat \ {0} /\ Word \in Nat \ {0}
  <2>1. Base \in Nat /\ Base > 1 /\ Word \in Nat /\ Base * Base <= Word
    BY SizesAssumption
  <2>2. Base * Base > 0
    BY <2>1
  <2> QED
    BY <2>1, <2>2
<1>2. c * Base \in Nat /\ c <= c * Base
  BY <1>1
<1>3. CASE c > (Word - 1) \div Base
  <2> DEFINE w == Word - 1
             p == w \div Base
             r == w % Base
  <2>1. w \in Nat
    BY <1>1
  <2> HIDE DEF w
  <2>2. p \in Nat /\ r \in 0 .. Base - 1 /\ w = Base * p + r
    BY <2>1, <1>1, DivMod
  <2>3. p + 1 <= c
    BY <1>3, <2>2 DEF w
  <2> HIDE DEF p, r
  <2>4. (p + 1) * Base <= c * Base /\ (p + 1) * Base = Base * p + Base
    BY <2>2, <2>3, <1>1
  <2>5. Base * p \in Nat
    BY <2>2, <1>1
  <2>6. w < c * Base
    BY <2>2, <2>4, <2>5, <1>1, <1>2
  <2> QED
    BY <2>6, <1>1, <1>2 DEF w
<1>4. CASE (c * Base + d) % Word < c
  <2> DEFINE x == c * Base + d
  <2>1. x \in Nat /\ c <= x
    BY <1>2
  <2> HIDE DEF x
  <2>2. x < Word => x % Word = x
    BY <2>1, <1>1
  <2>3. x % Word < c
    BY <1>4 DEF x
  <2>4. x >= Word
    BY <2>1, <2>2, <2>3, <1>1
  <2> QED
    BY <2>4 DEF x
<1> QED
  BY <1>3, <1>4

LEMMA ToU64TurnRefuses ==
  ASSUME LoopInv, ToU64Turn
  PROVE  RefusesOnlyTooLarge'
<1> DEFINE k == i - 1
           x == carry * Base + limb[k]
<1>1. /\ pc = "toU64" /\ i > 0 /\ TypeOK /\ ToU64Inv /\ WantInv
      /\ UNCHANGED <<len, op, b, arg, table, start>>
      /\ \/ pc' = "refused" /\ (carry > (Word - 1) \div Base \/ x % Word < carry)
         \/ pc' = pc
  BY DEF LoopInv, ToU64Turn, number, call, driver, history
<1>2. SUFFICES ASSUME carry > (Word - 1) \div Base \/ x % Word < carry PROVE RefusesOnlyTooLarge'
  BY <1>1 DEF RefusesOnlyTooLarge
<1>3. /\ limb \in Arrays /\ k \in Index /\ k + 1 = i /\ k \in 0 .. MaxLimbs /\ carry \in Nat
      /\ limb[k] \in Nat /\ Base \in Nat /\ Word \in Nat
  <2>1. limb \in Arrays /\ k \in Index /\ k + 1 = i /\ k \in 0 .. MaxLimbs /\ carry \in Nat
    BY <1>1, Sizes DEF TypeOK
  <2> QED
    BY <2>1, Storing, SizesAssumption
<1>4. x >= Word
  BY <1>2, <1>3, TooLargeForWord
<1> DEFINE p == Power[k]
           w == Value(limb, k)
           d == limb[k]
<1>5. p \in Nat \ {0} /\ Power[k + 1] = Base * p /\ w \in Nat /\ Value(limb, k + 1) = w + d * p
  BY <1>3, LimbPowers, ValueRange, NextLimb
<1>6. carry * Power[k + 1] + Value(limb, k + 1) = want
  <2>1. carry * Power[i] + Value(limb, i) = want
    BY <1>1 DEF ToU64Inv
  <2> HIDE DEF k
  <2> QED
    BY <2>1, <1>3
<1>7. op = "toU64" /\ want = start
  BY <1>1 DEF ToU64Inv, WantInv, Result
<1>8. d \in Nat
  BY <1>3
<1>9. carry * Base + d >= Word
  BY <1>4
<1> HIDE DEF p, w, d, k, x
<1>10. (carry * Base + d) * p = carry * (Base * p) + d * p
  BY <1>3, <1>5, <1>8
<1>11. (carry * Base + d) * p >= carry * Base + d /\ carry * Base + d \in Nat /\ (carry * Base + d) * p \in Nat
  <2>1. \A u \in Nat, v \in Nat \ {0} : u * v >= u /\ u * v \in Nat
    OBVIOUS
  <2>2. carry * Base + d \in Nat
    BY <1>3, <1>8
  <2> QED
    BY <2>1, <2>2, <1>5
<1>12. d * p \in Nat /\ carry * (Base * p) \in Nat
  BY <1>3, <1>5, <1>8
<1>13. start >= Word
  BY <1>3, <1>5, <1>6, <1>7, <1>9, <1>10, <1>11, <1>12
<1> QED
  BY <1>1, <1>7, <1>13, RefusedHere

LEMMA CallRefuses ==
  ASSUME LoopInv, Call
  PROVE  RefusesOnlyTooLarge'
<1>1. CASE \E x \in Operands : Add(x)
  <2>1. PICK x \in Operands : Add(x)
    BY <1>1
  <2>2. /\ pc = "idle" /\ op' = "add" /\ b' = x /\ len' = len
        /\ pc' = (IF x.len >= MaxLimbs \/ len >= MaxLimbs THEN "refused" ELSE "add")
    BY <2>1 DEF Add, Begin, number
  <2>3. len \in 1 .. MaxLimbs /\ x.len \in 1 .. MaxLimbs
    BY <2>2, Begun, OperandsAssumption
  <2> QED
    BY <2>2, <2>3, Sizes DEF RefusesOnlyTooLarge
<1>2. CASE \E x \in Operands : Sub(x)
  <2>1. PICK x \in Operands : Sub(x)
    BY <1>2
  <2>2. /\ pc = "idle" /\ op' = "sub" /\ b' = x /\ start' = Number
        /\ pc' = (IF LessThan(x) THEN "refused" ELSE "sub")
    BY <2>1 DEF Sub, Begin
  <2>3. LessThan(x) => Value(limb, len) < Value(x.limb, x.len)
    BY <2>2, Begun, LessThanValue
  <2>4. /\ Value(limb, len) \in Nat /\ Value(x.limb, x.len) \in Nat
        /\ start' = Value(limb, len) /\ Result' = start' - Value(x.limb, x.len)
    <3>1. x.limb \in Arrays /\ x.len \in 0 .. MaxLimbs
      BY OperandsAssumption, Sizes
    <3> QED
      BY <3>1, <2>2, Begun, ValueRange DEF Result, Number
  <2>5. LessThan(x) => Result' < 0
    BY <2>3, <2>4
  <2> QED
    BY <2>2, <2>5 DEF RefusesOnlyTooLarge
<1>3. CASE \E d \in Smalls : DivSmall(d)
  BY <1>3 DEF DivSmall, Begin, RefusesOnlyTooLarge
<1>4. CASE pc' \notin {"refused", "lost"}
  BY <1>4 DEF RefusesOnlyTooLarge
<1> QED
  BY <1>1, <1>2, <1>3, <1>4
  DEF Call, Begin, FromU64, MulSmall, AddSmall, SubSmall, MulPower, MulPow10, DivPow10, AppendDigit, ToU64

LEMMA RefusesStep ==
  ASSUME LoopInv, PowersInv, RefusesOnlyTooLarge, [Next]_vars
  PROVE  RefusesOnlyTooLarge'
<1>1. CASE Call
  BY <1>1, CallRefuses
<1>2. CASE AppendFull \/ Shift \/ ProbeEnd \/ GrowFull \/ BorrowEnd \/ ToU64Turn
  BY <1>2, AppendFullRefuses, ShiftRefuses, ProbeEndRefuses, GrowFullRefuses, BorrowEndRefuses,
     ToU64TurnRefuses
<1>3. CASE \/ NextFactor \/ MulTurn \/ MulEnd \/ AppendLimb \/ AppendEnd \/ ProbeTurn \/ AddSmallTurn \/ AddTurn
           \/ GrowEnd \/ BorrowTurn \/ DivTurn \/ DivEnd \/ StripLimb \/ Stripped \/ ToU64End \/ Return
  <2>1. pc' \notin {"refused", "lost"}
    BY <1>3 DEF NextFactor, MulTurn, MulEnd, AppendLimb, AppendEnd, ProbeTurn, AddSmallTurn, AddTurn, GrowEnd,
                BorrowTurn, DivTurn, DivEnd, StripLimb, Stripped, ToU64End, Return
  <2> QED
    BY <2>1 DEF RefusesOnlyTooLarge
<1>4. CASE UNCHANGED vars
  <2>1. UNCHANGED <<pc, len, op, b, arg, table, start>>
    BY <1>4 DEF vars
  <2> QED
    BY <2>1 DEF RefusesOnlyTooLarge, Result
<1> QED
  BY <1>1, <1>2, <1>3, <1>4 DEF Next

---------------------------------------------------------------------------
\* In every state the limbs done and the carry are together what the loop has to have made
\* of the limbs it has seen, and the number, with the powers still to come or the digits
\* dropped, is what the call was asked for: the invariant of all the loops of ryu_bigint.
THEOREM Invariance == Spec => []IInv
<1>1. Init => IInv
  BY InitInv DEF IInv, Init, PowersInv
<1>2. IInv /\ [Next]_vars => IInv'
  BY StepInv, PowersKept DEF IInv
<1> QED
  BY <1>1, <1>2, PTL DEF Spec

LEMMA AnswersNow == IInv => Answers
BY DEF IInv, LoopInv, Answers, DoneInv, WantInv, Result, Grows, Divides, Ops, TypeOK

\* A call that succeeds answers exactly what it is named for, however its limbs carry,
\* borrow or wrap around.
THEOREM Correctness == Spec => []Answers
BY AnswersNow, Invariance, PTL

\* The quotient by unit * d of a number split into unit * (d * n + c) and a rest below unit.
LEMMA NestedFloor ==
  ASSUME NEW unit \in Nat \ {0}, NEW d \in Nat \ {0}, NEW n \in Nat,
         NEW c \in 0 .. d - 1, NEW rest \in 0 .. unit - 1
  PROVE  /\ ((d * n + c) * unit + rest) \div (unit * d) = n
         /\ n * (unit * d) = (d * n + c) * unit + rest <=> rest = 0 /\ c = 0
<1> DEFINE p == unit * d
           e == c * unit
           f == n * p
<1>1. p \in Nat \ {0} /\ e \in Nat /\ f \in Nat
  BY SMTT(30)
<1>2. (d * n + c) * unit = f + e
  BY SMTT(30)
<1>3. e + rest < p
  <2>1. (c + 1) * unit <= d * unit
    BY SMTT(30)
  <2>2. (c + 1) * unit = e + unit /\ d * unit = p
    BY SMTT(30)
  <2> QED
    BY <2>1, <2>2, <1>1
<1>4. e = 0 <=> c = 0
  BY SMTT(30)
<1>5. \A q, r \in Nat : q * p + r = f + (e + rest) /\ r < p => q = n
  <2> SUFFICES ASSUME NEW q \in Nat, NEW r \in Nat, q * p + r = f + (e + rest), r < p
               PROVE  q = n
    OBVIOUS
  <2> DEFINE z == e + rest
  <2>1. z \in Nat /\ z < p
    BY <1>1, <1>3
  <2> HIDE DEF p, e, z
  <2>2. q * p \in Nat /\ n * p \in Nat /\ q * p + r = n * p + z
    BY <1>1 DEF z
  <2>3. q > n => q * p >= n * p + p
    <3> SUFFICES ASSUME q > n PROVE q * p >= n * p + p
      OBVIOUS
    <3>1. q * p >= (n + 1) * p /\ (n + 1) * p = n * p + p
      BY <1>1
    <3> QED
      BY <3>1
  <2>4. q < n => n * p >= q * p + p
    <3> SUFFICES ASSUME q < n PROVE n * p >= q * p + p
      OBVIOUS
    <3>1. n * p >= (q + 1) * p /\ (q + 1) * p = q * p + p
      BY <1>1
    <3> QED
      BY <3>1
  <2> QED
    BY <2>1, <2>2, <2>3, <2>4, <1>1
<1> DEFINE x == f + (e + rest)
<1>6. x \in Nat
  BY <1>1
<1> HIDE DEF p, e, f
<1>7. x \div p = n
  <2> HIDE DEF x
  <2>1. x \div p \in Nat /\ x % p \in 0 .. p - 1 /\ x = p * (x \div p) + (x % p)
    BY <1>1, <1>6, DivMod
  <2>2. p * (x \div p) = (x \div p) * p
    <3>1. \A u, v \in Nat : u * v = v * u
      OBVIOUS
    <3> QED
      BY <3>1, <2>1, <1>1
  <2>3. (x \div p) * p + (x % p) = f + (e + rest) /\ x % p < p /\ x % p \in Nat
    BY <2>1, <2>2, <1>1 DEF x
  <2> QED
    BY <2>1, <2>3, <1>5
<1>8. (d * n + c) * unit + rest = x
  BY <1>1, <1>2
<1>9. f = x <=> rest = 0 /\ c = 0
  BY <1>1, <1>4
<1> QED
  BY <1>7, <1>8, <1>9 DEF p, f

LEMMA AnswersPowersNow ==
  ASSUME IInv
  PROVE  AnswersPowers
<1>1. TypeOK /\ PowersInv
  BY DEF IInv, LoopInv
<1>2. ASSUME pc = "done", op \in {"mulPower", "mulPow10"}
      PROVE  Number = Result
  <2>1. left = 0 /\ want * Root ^ ToCome = Result
    BY <1>1, <1>2 DEF PowersInv
  <2>2. ToCome = 0
    BY <2>1, <1>2 DEF ToCome
  <2>3. Root ^ 0 = 1
    BY <1>1, <1>2, RootPowers DEF PowersUpTo
  <2>4. Number = want /\ want \in Int
    BY <1>1, <1>2 DEF IInv, LoopInv, DoneInv, Grows, TypeOK
  <2> QED
    BY <2>1, <2>2, <2>3, <2>4
<1>3. ASSUME pc = "done", op = "divPow10"
      PROVE  Number = Result /\ (exact <=> Number * Radix ^ arg = start)
  <2> DEFINE unit == DroppedUnit
             d == Radix ^ (arg % BaseDigits)
  <2>1. arg \in Exponents /\ m = d /\ DroppedValue \in 0 .. unit - 1
        /\ (exact <=> DroppedValue = 0 /\ carry = 0)
    BY <1>1, <1>3 DEF PowersInv
  <2>2. want = m * Number + carry /\ carry < m /\ carry \in Nat /\ Number \in Nat /\ start \in Nat
    <3>1. limb \in Arrays /\ len \in 0 .. MaxLimbs
      BY <1>1 DEF TypeOK
    <3>2. Number \in Nat
      BY <3>1, ValueRange DEF Number
    <3> QED
      BY <3>2, <1>1, <1>3 DEF IInv, LoopInv, DoneInv, Divides, TypeOK
  <2>3. unit \in Nat \ {0} /\ d \in Nat \ {0} /\ Radix ^ arg = unit * d
    <3> DEFINE e == BaseDigits * (arg \div BaseDigits)
               r == arg % BaseDigits
    <3>1. e \in Nat /\ r \in Nat /\ arg = e + r /\ arg \in 0 .. MaxExponent
      BY <2>1, ExponentSplit
    <3> HIDE DEF e, r
    <3>2. e \in 0 .. MaxExponent /\ r \in 0 .. MaxExponent /\ e + r <= MaxExponent
      BY <3>1, PowersOfRadix
    <3>3. Radix ^ (e + r) = Radix ^ e * Radix ^ r
      BY <3>1, <3>2, PowersOfRadix, PowerSum
    <3>4. unit = Radix ^ e /\ d = Radix ^ r
      BY DEF DroppedUnit, e, r
    <3> QED
      BY <3>1, <3>2, <3>3, <3>4, PowersOfRadix
  <2> DEFINE rest == DroppedValue
  <2>4. start = (d * Number + carry) * unit + rest /\ rest \in 0 .. unit - 1 /\ carry \in 0 .. d - 1
    <3>1. rest = start - want * unit
      BY DEF DroppedValue
    <3> DEFINE w == want * unit
    <3>2. want = d * Number + carry /\ want \in Int
      BY <2>1, <2>2, <1>1 DEF TypeOK
    <3>3. w \in Int
      BY <3>2, <2>3
    <3> HIDE DEF w
    <3>4. start = w + rest
      BY <3>1, <3>3, <2>2 DEF w
    <3> QED
      BY <3>2, <3>4, <2>1, <2>2, <2>3 DEF w
  <2> HIDE DEF unit, d, rest
  <2>5. start \div (unit * d) = Number /\ (Number * (unit * d) = start <=> rest = 0 /\ carry = 0)
    BY <2>2, <2>3, <2>4, NestedFloor
  <2>6. Result = start \div Radix ^ arg
    BY <1>3 DEF Result
  <2> QED
    BY <2>1, <2>3, <2>5, <2>6 DEF rest
<1> QED
  BY <1>2, <1>3 DEF AnswersPowers

\* A product by a power is exact, however the exponent is split into the powers of a table
\* and whole limbs; a floor is the floor, and its flag says whether anything was dropped.
THEOREM PowersCorrect == Spec => []AnswersPowers
BY AnswersPowersNow, Invariance, PTL

\* A call refuses only what does not fit: a number below zero, a divisor below two, a
\* number that is no uint64_t, a product or sum that needs more limbs than there are.
THEOREM RefusesRightly == Spec => []RefusesOnlyTooLarge
<1>1. Init => RefusesOnlyTooLarge
  BY DEF Init, RefusesOnlyTooLarge
<1>2. IInv /\ RefusesOnlyTooLarge /\ [Next]_vars => RefusesOnlyTooLarge'
  BY RefusesStep DEF IInv
<1> QED
  BY <1>1, <1>2, Invariance, PTL DEF Spec

\* A number whose last digit did not fit, or that is no uint64_t, is as good as before.
THEOREM Kept == Spec => []KeepsOnRefusal
<1>1. IInv => KeepsOnRefusal
  BY DEF IInv, LoopInv
<1> QED
  BY <1>1, Invariance, PTL

LEMMA NoWrapNow ==
  ASSUME LoopInv
  PROVE  NoWrap
<1>1. limb \in Arrays /\ len \in 0 .. MaxLimbs /\ i \in 0 .. MaxLimbs /\ m \in Nat /\ carry \in Nat
      /\ Base \in Nat /\ Word \in Nat
  BY SizesAssumption DEF LoopInv, TypeOK
<1>2. ASSUME pc \in {"mul", "probe"}, i < len
      PROVE  Product < Word
  <2>1. limb[i] \in 0 .. Base - 1
    <3>1. i \in Index
      BY <1>1, <1>2, Sizes
    <3> QED
      BY <3>1, <1>1, Storing
  <2>2. carry \in 0 .. m - 1 /\ IsSmall(m)
    BY <1>1, <1>2, RadixIsSmall DEF LoopInv, MulInv, ProbeInv
  <2>3. limb[i] * m + carry \in Nat /\ limb[i] * m + carry < Base * m
    BY <1>1, <2>1, <2>2, ProductBound
  <2>4. Base * m \in Nat /\ Base * m <= Word
    BY <1>1, <2>2 DEF IsSmall
  <2> QED
    BY <1>1, <2>3, <2>4 DEF Product
<1>3. ASSUME pc = "div", i > 0
      PROVE  Dividend < Word
  <2>1. limb[i - 1] \in 0 .. Base - 1
    <3>1. i - 1 \in Index
      BY <1>1, <1>3, Sizes
    <3> QED
      BY <3>1, <1>1, Storing
  <2>2. carry \in 0 .. m - 1 /\ IsSmall(m)
    BY <1>1, <1>3 DEF LoopInv, DivInv
  <2>3. carry * Base + limb[i - 1] < Base * m
    BY <1>1, <2>1, <2>2, DividendBound
  <2>4. Base * m \in Nat /\ Base * m <= Word /\ carry * Base + limb[i - 1] \in Nat
    <3>1. limb[i - 1] \in Nat /\ carry * Base \in Nat
      BY <1>1, <2>1
    <3> QED
      BY <3>1, <1>1, <2>2 DEF IsSmall
  <2> QED
    BY <1>1, <2>3, <2>4 DEF Dividend
<1> QED
  BY <1>2, <1>3 DEF NoWrap

\* The products and dividends of two words, computed in a uint64_t, never wrap.
THEOREM NeverWraps == Spec => []NoWrap
BY NoWrapNow, Invariance, PTL DEF IInv

---------------------------------------------------------------------------
(* Products with a uint64_t: two numbers that change places between the calls. *)

LEMMA FactorParts ==
  ASSUME NEW w \in Factors
  PROVE  /\ w \in Nat /\ w % Base \in Limb /\ w % Base \in Nat /\ w \div Base \in Nat
         /\ w = Base * (w \div Base) + (w % Base)
         /\ IsSmall(w % Base)
         /\ w < Base => IsSmall(w)
         /\ w \div Base <= U32Max => IsSmall(w \div Base)
         /\ w \div Base > U32Max => w > Base * U32Max
<1>1. w \in Nat /\ U32Max \in Nat /\ Base * U32Max <= Word /\ Word \in Nat
  BY FactorsAssumption, SizesAssumption
<1>2. /\ w % Base \in Limb /\ w % Base \in Nat /\ w \div Base \in Nat
      /\ w = Base * (w \div Base) + (w % Base)
  <2> DEFINE d == Base
  <2>1. d \in Nat \ {0} /\ Limb = 0 .. d - 1
    BY Sizes DEF Limb
  <2> HIDE DEF d
  <2>2. w % d \in 0 .. d - 1 /\ w \div d \in Nat /\ w = d * (w \div d) + (w % d)
    BY <1>1, <2>1, DivMod
  <2>3. w % d \in Nat
    BY <2>1, <2>2
  <2> QED
    BY <2>1, <2>2, <2>3 DEF d
<1>3. \A x, y \in Nat : x <= y => Base * x \in Nat /\ Base * y \in Nat /\ Base * x <= Base * y
  <2>1. \A x, y, z \in Nat : x <= y => z * x \in Nat /\ z * y \in Nat /\ z * x <= z * y
    OBVIOUS
  <2> QED
    BY <2>1, Sizes
<1>4. \A x \in Nat : x <= Base => IsSmall(x)
  <2>1. Base * Base <= Word /\ Base \in Nat
    BY SizesAssumption
  <2> QED
    BY <1>1, <1>3, <2>1 DEF IsSmall
<1>5. w \div Base <= U32Max => IsSmall(w \div Base)
  BY <1>1, <1>2, <1>3 DEF IsSmall
<1>6. ASSUME w \div Base > U32Max PROVE w > Base * U32Max
  <2>1. U32Max + 1 <= w \div Base
    BY <1>1, <1>2, <1>6
  <2>2. Base * (U32Max + 1) <= Base * (w \div Base) /\ Base * (w \div Base) \in Nat
    BY <1>1, <1>2, <1>3, <2>1
  <2>3. Base * (U32Max + 1) = Base * U32Max + Base /\ Base * U32Max \in Nat
    BY <1>1, Sizes
  <2> QED
    BY <1>1, <1>2, <2>2, <2>3, Sizes
<1>7. IsSmall(w % Base) /\ (w < Base => IsSmall(w))
  BY <1>1, <1>2, <1>4, Sizes DEF Limb
<1> QED
  BY <1>1, <1>2, <1>5, <1>6, <1>7

\* What waits is a number.
LEMMA WorthRange ==
  ASSUME NEW x, IsNumber(x)
  PROVE  /\ x.limb \in Arrays /\ x.len \in 1 .. MaxLimbs /\ Proper(x.limb, x.len)
         /\ Worth(x) \in Nat
<1>1. x.limb \in Arrays /\ x.len \in 1 .. MaxLimbs /\ Proper(x.limb, x.len)
  BY DEF IsNumber
<1>2. x.len \in 0 .. MaxLimbs
  BY <1>1, Sizes
<1> QED
  BY <1>1, <1>2, ValueRange DEF Worth

\* A number of all the limbs has at least the weight of the last one.
LEMMA FullLength ==
  ASSUME NEW x, IsNumber(x), x.len = MaxLimbs, MaxLimbs > 1
  PROVE  Worth(x) >= Power[MaxLimbs - 1]
<1>1. x.limb \in Arrays /\ x.len \in 2 .. MaxLimbs /\ x.limb[x.len - 1] # 0
  BY Sizes, WorthRange DEF Proper
<1> QED
  BY <1>1, ProperWeight DEF Worth

\* A call of another number's begins where the last one ended.
LEMMA RestInv ==
  ASSUME CInv, pc = "idle", AtRest,
         limb' \in Arrays, len' \in 1 .. MaxLimbs, Proper(limb, len)'
  PROVE  IInv' /\ RefusesOnlyTooLarge'
<1>1. UNCHANGED <<op, b, arg, table, left, shift, m, i, carry, exact, pc, old, start, want>>
  BY DEF AtRest, call, driver, loop, history
<1>2. LoopInv /\ PowersInv /\ TypeOK /\ shift = 0
  BY DEF CInv, IInv, LoopInv
<1>3. TypeOK'
  BY <1>1, <1>2, Sizes DEF TypeOK
<1>4. LoopInv'
  BY <1>1, <1>2, <1>3 DEF LoopInv, KeepsOnRefusal
<1>5. PowersInv'
  BY <1>1, <1>2 DEF PowersInv, Root, Result, ToCome, DroppedUnit, DroppedValue
<1> QED
  BY <1>1, <1>4, <1>5 DEF IInv, RefusesOnlyTooLarge

LEMMA MulSmallBegins ==
  ASSUME CInv, NEW s, IsSmall(s), MulSmall(s)
  PROVE  /\ IInv' /\ RefusesOnlyTooLarge'
         /\ pc' = "factors" /\ op' = "mulSmall" /\ start' = Number /\ arg' = s
<1>1. pc' = "factors" /\ op' = "mulSmall" /\ start' = Number /\ arg' = s
  BY DEF MulSmall, Begin
<1>2. LoopInv'
  BY MulSmallInv DEF CInv, IInv
<1> QED
  BY <1>1, <1>2 DEF IInv, PowersInv, RefusesOnlyTooLarge

\* *a between calls, as the record it becomes where it waits.
LEMMA AtIdle ==
  ASSUME CInv, pc = "idle"
  PROVE  /\ limb \in Arrays /\ len \in 1 .. MaxLimbs /\ Proper(limb, len) /\ Number \in Nat
         /\ IsNumber(Current) /\ Worth(Current) = Number
<1>1. limb \in Arrays /\ len \in 1 .. MaxLimbs /\ Proper(limb, len) /\ Number \in Nat
  BY Begun DEF CInv, IInv
<1>2. Current.limb = limb /\ Current.len = len /\ Current \in [limb : Arrays, len : 1 .. MaxLimbs]
  BY <1>1 DEF Current
<1> QED
  BY <1>1, <1>2 DEF IsNumber, Worth, Number

LEMMA MulU64Step ==
  ASSUME CInv, NEW w \in Factors, MulU64(w)
  PROVE  CInv'
<1>1. stage = "none" /\ pc = "idle" /\ factor' = w /\ was' = Number /\ Number \in Nat
  BY AtIdle DEF MulU64
<1>2. /\ w \in Nat /\ IsSmall(w % Base) /\ (w < Base => IsSmall(w))
      /\ w \div Base > U32Max => w > Base * U32Max
  BY FactorParts
<1>3. CASE w < Base /\ MulSmall(w) /\ stage' = "last" /\ UNCHANGED term
  <2>1. /\ IInv' /\ RefusesOnlyTooLarge'
        /\ pc' = "factors" /\ op' = "mulSmall" /\ start' = Number /\ arg' = w
    BY <1>2, <1>3, MulSmallBegins
  <2>2. ProductInv'
    BY <1>1, <1>3, <2>1 DEF ProductInv, Multiplying
  <2> QED
    BY <2>1, <2>2 DEF CInv
<1>4. CASE w \div Base > U32Max /\ stage' = "refused" /\ AtRest /\ UNCHANGED <<number, term>>
  <2>1. limb' = limb /\ len' = len /\ pc' = pc
    BY <1>4 DEF number, AtRest
  <2>2. IInv' /\ RefusesOnlyTooLarge'
    BY <1>1, <1>4, <2>1, AtIdle, RestInv DEF Proper
  <2>3. ProductInv'
    BY <1>1, <1>2, <1>4, <2>1 DEF ProductInv, TooLong
  <2> QED
    BY <2>2, <2>3 DEF CInv
<1>5. CASE /\ w >= Base /\ w \div Base <= U32Max /\ MulSmall(w % Base)
           /\ stage' = "low" /\ term' = Current
  <2>1. /\ IInv' /\ RefusesOnlyTooLarge'
        /\ pc' = "factors" /\ op' = "mulSmall" /\ start' = Number /\ arg' = w % Base
    BY <1>2, <1>5, MulSmallBegins
  <2>2. IsNumber(term') /\ Worth(term') = Number
    BY <1>1, <1>5, AtIdle
  <2>3. IsNumber(term)' /\ Worth(term)' = Number
    BY <2>2 DEF IsNumber, Worth, Proper
  <2>4. ProductInv'
    BY <1>1, <1>5, <2>1, <2>3 DEF ProductInv, Multiplying, LowFactor, HighFactor
  <2> QED
    BY <2>1, <2>4 DEF CInv
<1> QED
  BY <1>3, <1>4, <1>5 DEF MulU64

LEMMA HighPartStep ==
  ASSUME CInv, HighPart
  PROVE  CInv'
<1>1. /\ stage = "low" /\ pc = "idle" /\ limb' = term.limb /\ len' = term.len /\ term' = Current
      /\ stage' = "copied" /\ AtRest /\ UNCHANGED <<factor, was>>
  BY DEF HighPart
<1>2. /\ IsNumber(term) /\ HighFactor <= U32Max /\ Number = was * LowFactor /\ Worth(term) = was
      /\ was \in Nat /\ factor \in Factors
  BY <1>1 DEF CInv, ProductInv, Multiplying
<1>3. limb' \in Arrays /\ len' \in 1 .. MaxLimbs /\ Proper(limb', len')
  BY <1>1, <1>2, WorthRange
<1>4. IInv' /\ RefusesOnlyTooLarge' /\ pc' = "idle"
  BY <1>1, <1>3, RestInv DEF Proper, AtRest
<1>5. Number' = was
  BY <1>1, <1>2 DEF Number, Worth
<1>6. IsNumber(Current) /\ Worth(Current) = was * LowFactor
  BY <1>1, <1>2, AtIdle
<1>7. IsNumber(term)' /\ Worth(term)' = was * LowFactor
  BY <1>1, <1>6 DEF IsNumber, Worth, Proper
<1>8. ProductInv'
  BY <1>1, <1>2, <1>4, <1>5, <1>7 DEF ProductInv, LowFactor, HighFactor
<1> QED
  BY <1>4, <1>8 DEF CInv

LEMMA MulHighStep ==
  ASSUME CInv, MulHigh
  PROVE  CInv'
<1>1. /\ stage = "copied" /\ MulSmall(HighFactor) /\ stage' = "high" /\ UNCHANGED <<factor, term, was>>
  BY DEF MulHigh, HighFactor
<1>2. /\ IsNumber(term) /\ HighFactor <= U32Max /\ Number = was /\ Worth(term) = was * LowFactor
      /\ was \in Nat /\ factor \in Factors
  BY <1>1 DEF CInv, ProductInv
<1>3. IsSmall(HighFactor)
  BY <1>2, FactorParts DEF HighFactor
<1>4. /\ IInv' /\ RefusesOnlyTooLarge'
      /\ pc' = "factors" /\ op' = "mulSmall" /\ start' = was /\ arg' = HighFactor
  BY <1>1, <1>2, <1>3, MulSmallBegins
<1>5. IsNumber(term)' /\ Worth(term)' = was * LowFactor
  BY <1>1, <1>2 DEF IsNumber, Worth, Proper
<1>6. ProductInv'
  BY <1>1, <1>2, <1>4, <1>5 DEF ProductInv, Multiplying, LowFactor, HighFactor
<1> QED
  BY <1>4, <1>6 DEF CInv

\* One limb up counts Base times.
LEMMA MovedWorth ==
  ASSUME limb \in Arrays, len \in 1 .. MaxLimbs, Proper(limb, len), ~ IsZero, len + 1 <= MaxLimbs
  PROVE  IsNumber(Moved) /\ Worth(Moved) = Base * Number
<1> DEFINE l == [k \in Index |-> IF k = 0 THEN 0 ELSE IF k <= len THEN limb[k - 1] ELSE limb[k]]
<1>1. l \in Arrays
  <2> SUFFICES ASSUME NEW k \in Index
               PROVE  (IF k = 0 THEN 0 ELSE IF k <= len THEN limb[k - 1] ELSE limb[k]) \in Limb
    BY DEF Arrays
  <2>1. k # 0 => k - 1 \in Index
    BY Sizes
  <2> QED
    BY <2>1, Storing, Sizes
<1>2. \A k \in Index : l[k] = IF k = 0 THEN 0 ELSE IF k <= len THEN limb[k - 1] ELSE limb[k]
  OBVIOUS
<1>3. Moved.limb = l /\ Moved.len = len + 1 /\ len + 1 \in 1 .. MaxLimbs
  BY Sizes DEF Moved
<1>4. len \in Index /\ len - 1 \in Index /\ l[len] = limb[len - 1] /\ l[0] = 0
  <2>1. len \in Index /\ len - 1 \in Index /\ 0 \in Index
    BY Sizes
  <2> QED
    BY <1>2, <2>1, Sizes
<1>5. limb[len - 1] # 0
  BY DEF Proper, IsZero
<1>6. Moved \in [limb : Arrays, len : 1 .. MaxLimbs]
  BY <1>1, <1>3 DEF Moved
<1>7. Proper(Moved.limb, Moved.len)
  <2>1. (len + 1) - 1 = len
    OBVIOUS
  <2> QED
    BY <1>3, <1>4, <1>5, <2>1 DEF Proper
<1> HIDE DEF l
<1>8. Value(l, len + 1) = Value(l, 1) + Power[1] * Value(limb, len)
  <2>1. \A j \in 0 .. len - 1 : limb[j] = l[j + 1]
    <3> SUFFICES ASSUME NEW j \in 0 .. len - 1 PROVE limb[j] = l[j + 1]
      OBVIOUS
    <3>1. j + 1 \in Index /\ j + 1 # 0 /\ j + 1 <= len /\ (j + 1) - 1 = j
      BY Sizes
    <3> QED
      BY <1>2, <3>1
  <2>2. 1 \in 0 .. MaxLimbs /\ len \in 0 .. MaxLimbs - 1
    BY Sizes
  <2> QED
    BY <1>1, <2>1, <2>2, MovedRun
<1>9. Value(l, 1) = 0
  BY <1>1, <1>4, ZeroValue
<1>10. Power[1] = Base /\ Number \in Nat /\ Number = Value(limb, len)
  <2>1. 0 \in Index /\ 0 + 1 = 1 /\ Power[0 + 1] = Base * Power[0] /\ Power[0] = 1
    BY LimbPowers, Sizes
  <2>2. Value(limb, len) \in Nat
    <3>1. len \in 0 .. MaxLimbs
      BY Sizes
    <3> QED
      BY <3>1, ValueRange
  <2> QED
    BY <2>1, <2>2, Sizes DEF Number
<1>11. Worth(Moved) = Base * Number
  <2>1. Value(l, len + 1) = 0 + Base * Number
    BY <1>8, <1>9, <1>10
  <2>2. Base * Number \in Nat
    <3>1. \A x, y \in Nat : x * y \in Nat
      OBVIOUS
    <3> QED
      BY <1>10, <3>1, Sizes
  <2> QED
    BY <1>3, <2>1, <2>2 DEF Worth
<1> QED
  BY <1>6, <1>7, <1>11 DEF IsNumber

\* A part of a factor makes no more of a number than the factor.
LEMMA PartProducts ==
  ASSUME NEW v \in Nat, NEW w \in Factors
  PROVE  /\ v * (w % Base) \in Nat /\ v * (w \div Base) \in Nat /\ v * w \in Nat
         /\ v * w = v * (w % Base) + Base * (v * (w \div Base))
         /\ v * (w % Base) <= v * w /\ v * (w \div Base) <= v * w
         /\ Base * (v * (w \div Base)) \in Nat /\ Base * (v * (w \div Base)) <= v * w
<1>1. /\ w \in Nat /\ w % Base \in Nat /\ w \div Base \in Nat /\ Base \in Nat \ {0}
      /\ w = Base * (w \div Base) + (w % Base)
  BY FactorParts, Sizes
<1>2. \A x, y \in Nat, z \in Nat \ {0} :
        /\ x * y \in Nat /\ z * (x * y) \in Nat /\ x * y <= z * (x * y)
  <2>1. \A x, y \in Nat : x * y \in Nat
    OBVIOUS
  <2>2. \A x \in Nat, z \in Nat \ {0} : z * x \in Nat /\ x <= z * x
    OBVIOUS
  <2> QED
    BY <2>1, <2>2
<1>3. \A x, y, t \in Nat, z \in Nat : x * (z * y + t) = x * t + z * (x * y)
  OBVIOUS
<1> DEFINE q == w \div Base
           r == w % Base
<1>4. v * w = v * r + Base * (v * q)
  <2>1. v * (Base * q + r) = v * r + Base * (v * q)
    BY <1>1, <1>3
  <2> QED
    BY <1>1, <2>1
<1>5. v * r \in Nat /\ v * q \in Nat /\ Base * (v * q) \in Nat /\ v * q <= Base * (v * q)
  BY <1>1, <1>2
<1> HIDE DEF q, r
<1>6. v * w \in Nat /\ v * r <= v * w /\ v * q <= v * w /\ Base * (v * q) <= v * w
  BY <1>4, <1>5
<1> QED
  BY <1>4, <1>5, <1>6 DEF q, r

LEMMA MoveHighStep ==
  ASSUME CInv, MoveHigh
  PROVE  CInv'
<1>1. stage = "high" /\ pc = "idle" /\ AtRest /\ UNCHANGED <<factor, was>> /\ pc' = pc
  BY DEF MoveHigh, AtRest
<1>2. /\ IsNumber(term) /\ Number = was * HighFactor /\ Worth(term) = was * LowFactor
      /\ was \in Nat /\ factor \in Factors /\ HighFactor <= U32Max
  BY <1>1 DEF CInv, ProductInv, Multiplying
<1>3. /\ limb \in Arrays /\ len \in 1 .. MaxLimbs /\ Proper(limb, len) /\ Number \in Nat
      /\ IsNumber(Current) /\ Worth(Current) = Number
  BY <1>1, AtIdle
<1>4. /\ was * LowFactor \in Nat /\ was * HighFactor \in Nat /\ was * factor \in Nat
      /\ was * factor = was * LowFactor + Base * (was * HighFactor)
      /\ was * HighFactor <= was * factor
  BY <1>2, PartProducts DEF LowFactor, HighFactor
<1>5. CASE ~ IsZero /\ len + 1 > MaxLimbs /\ stage' = "refused" /\ UNCHANGED <<number, term>>
  <2>1. limb' = limb /\ len' = len
    BY <1>5 DEF number
  <2>2. IInv' /\ RefusesOnlyTooLarge'
    BY <1>1, <1>3, <2>1, RestInv DEF Proper
  <2>3. Number >= Power[MaxLimbs - 1]
    <3>1. len = MaxLimbs
      BY <1>3, <1>5, Sizes
    <3>2. CASE MaxLimbs > 1
      <4>1. Current.len = MaxLimbs
        BY <3>1 DEF Current
      <4> QED
        BY <1>3, <3>2, <4>1, FullLength
    <3>3. CASE MaxLimbs = 1
      <4>1. 0 \in Index /\ 0 + 1 = 1 /\ limb[0] # 0 /\ limb[0] \in Nat /\ len = 1 /\ MaxLimbs - 1 = 0
        BY <1>3, <1>5, <3>1, <3>3, Storing, Sizes DEF IsZero
      <4>2. Value(limb, 0 + 1) = Value(limb, 0) + limb[0] * Power[0]
        BY <1>3, <4>1, NextLimb
      <4>3. Value(limb, 0) = 0 /\ Power[0] = 1
        BY <1>3, NoLimbs, LimbPowers
      <4>4. Number = limb[0]
        BY <4>1, <4>2, <4>3 DEF Number
      <4> QED
        BY <4>1, <4>3, <4>4
    <3> QED
      BY <3>2, <3>3, Sizes
  <2>4. Power[MaxLimbs - 1] \in Nat
    <3>1. MaxLimbs - 1 \in 0 .. MaxLimbs
      BY Sizes
    <3> QED
      BY <3>1, LimbPowers
  <2>5. was * factor >= Power[MaxLimbs - 1]
    BY <1>2, <1>3, <1>4, <2>3, <2>4
  <2>6. ProductInv'
    BY <1>1, <1>2, <1>5, <2>5 DEF ProductInv, TooLong
  <2> QED
    BY <2>2, <2>6 DEF CInv
<1>6. CASE limb' = term.limb /\ len' = term.len
  <2>1. limb' \in Arrays /\ len' \in 1 .. MaxLimbs /\ Proper(limb', len')
    BY <1>2, <1>6, WorthRange
  <2>2. IInv' /\ RefusesOnlyTooLarge'
    BY <1>1, <2>1, RestInv DEF Proper
  <2>3. Number' = was * LowFactor
    BY <1>2, <1>6 DEF Number, Worth
  <2>4. CASE IsZero /\ term' = NoTerm /\ stage' = "last"
    <3>1. Number = 0
      <4>1. Value(limb, 1) = 0
        BY <1>3, <2>4, ZeroValue DEF IsZero
      <4> QED
        BY <2>4, <4>1 DEF IsZero, Number
    <3>2. was * factor = was * LowFactor
      BY <1>2, <1>4, <3>1, Sizes
    <3>3. ProductInv'
      BY <1>1, <1>2, <2>3, <2>4, <3>2 DEF ProductInv, Multiplying
    <3> QED
      BY <2>2, <3>3 DEF CInv
  <2>5. CASE ~ IsZero /\ len + 1 <= MaxLimbs /\ term' = Moved /\ stage' = "moved"
    <3>1. IsNumber(Moved) /\ Worth(Moved) = Base * (was * HighFactor)
      BY <1>2, <1>3, <2>5, MovedWorth
    <3>2. IsNumber(term)' /\ Worth(term)' = Base * (was * HighFactor)
      BY <2>5, <3>1 DEF IsNumber, Worth, Proper
    <3>3. MaxLimbs > 1
      BY <1>3, <2>5, Sizes
    <3>4. ProductInv'
      BY <1>1, <1>2, <2>3, <2>5, <3>2, <3>3 DEF ProductInv, LowFactor, HighFactor
    <3> QED
      BY <2>2, <3>4 DEF CInv
  <2> QED
    BY <1>6, <2>4, <2>5, <1>5 DEF MoveHigh
<1> QED
  BY <1>5, <1>6 DEF MoveHigh

LEMMA AddHighStep ==
  ASSUME CInv, AddHigh
  PROVE  CInv'
<1>1. stage = "moved" /\ Add(term) /\ stage' = "last" /\ UNCHANGED <<factor, term, was>>
  BY DEF AddHigh
<1>2. /\ pc = "idle" /\ op' = "add" /\ start' = Number /\ b' = term
      /\ pc' = IF term.len >= MaxLimbs \/ len >= MaxLimbs THEN "refused" ELSE "add"
      /\ UNCHANGED <<limb, len>>
  BY <1>1 DEF Add, Begin, number
<1>3. /\ IsNumber(term) /\ Number = was * LowFactor /\ Worth(term) = Base * (was * HighFactor)
      /\ was \in Nat /\ factor \in Factors /\ MaxLimbs > 1
  BY <1>1 DEF CInv, ProductInv
<1>4. /\ len \in 1 .. MaxLimbs /\ Number \in Nat /\ IsNumber(Current) /\ Worth(Current) = Number
  BY <1>2, AtIdle
<1>5. LoopInv'
  <2>1. term \in [limb : Arrays, len : 1 .. MaxLimbs]
    BY <1>3 DEF IsNumber
  <2> QED
    BY <1>1, <2>1, CallAddInv DEF CInv, IInv
<1>6. PowersInv'
  BY <1>2 DEF PowersInv
<1>7. term.len \in 1 .. MaxLimbs /\ Worth(term) \in Nat
  BY <1>3, WorthRange
<1>8. RefusesOnlyTooLarge'
  BY <1>2, <1>4, <1>7, Sizes DEF RefusesOnlyTooLarge
<1>9. /\ was * factor \in Nat
      /\ was * factor = was * LowFactor + Base * (was * HighFactor)
  BY <1>3, PartProducts DEF LowFactor, HighFactor
<1>10. Number + Worth(term) = was * factor
  BY <1>3, <1>4, <1>7, <1>9
<1>11. start' + Worth(b)' = was * factor
  <2>1. Worth(b)' = Worth(term)
    BY <1>2 DEF Worth
  <2> QED
    BY <1>2, <1>10, <2>1
<1>12. pc' = "refused" => was * factor >= Power[MaxLimbs - 1]
  <2>1. Power[MaxLimbs - 1] \in Nat
    <3>1. MaxLimbs - 1 \in 0 .. MaxLimbs
      BY Sizes
    <3> QED
      BY <3>1, LimbPowers
  <2>2. CASE term.len = MaxLimbs
    <3>1. Worth(term) >= Power[MaxLimbs - 1]
      BY <1>3, <2>2, FullLength
    <3> QED
      BY <1>4, <1>7, <1>9, <1>10, <2>1, <3>1
  <2>3. CASE len = MaxLimbs
    <3>1. Current.len = MaxLimbs
      BY <2>3 DEF Current
    <3>2. Number >= Power[MaxLimbs - 1]
      BY <1>3, <1>4, <3>1, FullLength
    <3> QED
      BY <1>4, <1>7, <1>9, <1>10, <2>1, <3>2
  <2>4. CASE term.len < MaxLimbs /\ len < MaxLimbs
    BY <1>2, <1>4, <1>7, <2>4, Sizes
  <2> QED
    BY <1>4, <1>7, <2>2, <2>3, <2>4, Sizes
<1>13. ProductInv'
  BY <1>1, <1>2, <1>3, <1>11, <1>12 DEF ProductInv, Adding
<1> QED
  BY <1>5, <1>6, <1>8, <1>13 DEF CInv, IInv

LEMMA EndProductStep ==
  ASSUME CInv, EndProduct
  PROVE  CInv'
<1>1. stage = "last" /\ pc = "idle" /\ stage' = "none" /\ AtRest /\ limb' = limb /\ len' = len
  BY DEF EndProduct, number
<1>2. IInv' /\ RefusesOnlyTooLarge'
  BY <1>1, AtIdle, RestInv DEF Proper
<1>3. ProductInv'
  BY <1>1 DEF ProductInv
<1> QED
  BY <1>2, <1>3 DEF CInv

\* What a step of a loop can do to the call it belongs to.
LEMMA LoopFrame ==
  ASSUME LoopInv, Next, pc \notin {"idle", "new"}, op \in {"mulSmall", "add"}
  PROVE  \/ Return /\ pc = "done"
         \/ /\ UNCHANGED <<op, b, arg, start>> /\ pc' \notin {"idle", "new", "lost"}
            /\ op = "add" /\ pc' = "refused" => GrowFull /\ pc = "add"
<1>1. CASE Call
  BY <1>1 DEF Call, Begin, FromU64, MulSmall, AddSmall, SubSmall, DivSmall, MulPower, MulPow10, DivPow10,
              AppendDigit, Add, Sub, ToU64
<1>2. CASE \/ MulTurn \/ MulEnd \/ AppendLimb \/ AppendEnd \/ ProbeTurn \/ AddSmallTurn \/ AddTurn
           \/ GrowEnd \/ BorrowTurn \/ DivTurn \/ DivEnd \/ StripLimb \/ Stripped \/ ToU64End
  <2>1. UNCHANGED <<op, b, arg, start>>
    BY <1>2 DEF MulTurn, MulEnd, AppendLimb, AppendEnd, ProbeTurn, AddSmallTurn, AddTurn, GrowEnd,
                BorrowTurn, DivTurn, DivEnd, StripLimb, Stripped, ToU64End, call, history
  <2>2. pc' \notin {"idle", "new", "lost", "refused"}
    BY <1>2 DEF MulTurn, MulEnd, AppendLimb, AppendEnd, ProbeTurn, AddSmallTurn, AddTurn, GrowEnd,
                BorrowTurn, DivTurn, DivEnd, StripLimb, Stripped, ToU64End
  <2> QED
    BY <2>1, <2>2
<1>3. CASE NextFactor \/ Shift
  <2>1. UNCHANGED <<op, b, arg, start>> /\ pc' \notin {"idle", "new", "lost"}
    BY <1>3 DEF NextFactor, Shift, call, history
  <2>2. op # "add"
    BY <1>3 DEF NextFactor, Shift, LoopInv, FactorsInv
  <2> QED
    BY <2>1, <2>2
<1>4. CASE AppendFull
  <2>1. op \notin {"add", "fromU64"}
    BY <1>4 DEF AppendFull, LoopInv, AppendInv
  <2>2. UNCHANGED <<op, b, arg, start>> /\ pc' = "refused"
    BY <1>4, <2>1 DEF AppendFull, call, history
  <2> QED
    BY <2>1, <2>2
<1>5. CASE ProbeEnd \/ ToU64Turn \/ BorrowEnd
  <2>1. FALSE
    BY <1>5 DEF ProbeEnd, ToU64Turn, BorrowEnd, LoopInv, ProbeInv, ToU64Inv, SubInv, SubSmallInv
  <2> QED
    BY <2>1
<1>6. CASE GrowFull
  <2>1. UNCHANGED <<op, b, arg, start>> /\ pc' = "refused"
    BY <1>6 DEF GrowFull, call, history
  <2>2. op = "add" => pc = "add"
    BY <1>6 DEF GrowFull, LoopInv, AddSmallInv
  <2> QED
    BY <1>6, <2>1, <2>2
<1>7. CASE Return
  BY <1>7 DEF Return
<1> QED
  BY <1>1, <1>2, <1>3, <1>4, <1>5, <1>6, <1>7 DEF Next

\* A call of the product that ends has done what it was called for.
LEMMA Finishes ==
  ASSUME LoopInv, Return, pc = "done", op \in {"mulSmall", "add"}
  PROVE  /\ pc' = "idle" /\ Number' = Number
         /\ op = "mulSmall" => Number = start * arg
         /\ op = "add" => Number = start + Worth(b)
<1>1. pc' = "idle" /\ limb' = limb /\ len' = len
  BY DEF Return, number
<1>2. TypeOK /\ DoneInv /\ WantInv
  BY DEF LoopInv
<1>3. Number = want
  BY <1>2 DEF DoneInv, Grows
<1>4. op = "mulSmall" => want = start * arg
  BY <1>2 DEF WantInv
<1>5. op = "add" => want = start + Worth(b)
  BY <1>2 DEF WantInv, Result, Worth
<1> QED
  BY <1>1, <1>3, <1>4, <1>5 DEF Number

LEMMA ResultStep ==
  ASSUME NEW v, NEW w, Multiplying(v, w), pc # "idle", LoopInv, Next, pc # "new"
  PROVE  /\ IF pc' = "idle" THEN Number' = v * w ELSE op' = "mulSmall" /\ start' = v /\ arg' = w
         /\ pc' \notin {"new", "lost"}
<1>1. op = "mulSmall" /\ start = v /\ arg = w
  BY DEF Multiplying
<1>2. CASE Return /\ pc = "done"
  <2>1. pc' = "idle" /\ Number' = v * w
    BY <1>1, <1>2, Finishes
  <2> QED
    BY <2>1
<1>3. CASE UNCHANGED <<op, b, arg, start>> /\ pc' \notin {"idle", "new", "lost"}
  BY <1>1, <1>3
<1> QED
  BY <1>1, <1>2, <1>3, LoopFrame

LEMMA LoopsStep ==
  ASSUME CInv, Loops
  PROVE  CInv'
<1>1. Next /\ UNCHANGED <<stage, factor, term, was>> /\ (pc = "idle" => stage = "none")
  BY DEF Loops, product
<1>2. LoopInv /\ PowersInv /\ RefusesOnlyTooLarge /\ ProductInv
  BY DEF CInv, IInv
<1>3. IInv' /\ RefusesOnlyTooLarge'
  BY <1>1, <1>2, StepInv, PowersKept, RefusesStep DEF IInv
<1>4. CASE stage = "none"
  <2>1. ProductInv'
    BY <1>1, <1>4 DEF ProductInv
  <2> QED
    BY <1>3, <2>1 DEF CInv
<1>5. CASE stage # "none"
  <2>1. /\ pc \notin {"idle", "new", "lost"} /\ was \in Nat /\ factor \in Factors
        /\ stage \notin {"copied", "moved", "refused"}
    BY <1>1, <1>2, <1>5 DEF ProductInv
  <2>2. stage \in {"low", "high"} => IsNumber(term)' /\ HighFactor' <= U32Max /\ Worth(term)' = Worth(term)
    BY <1>1, <1>2 DEF ProductInv, IsNumber, Worth, HighFactor, Proper
  <2>3. LowFactor' = LowFactor /\ HighFactor' = HighFactor
    BY <1>1 DEF LowFactor, HighFactor
  <2>4. CASE stage = "low"
    <3>1. Multiplying(was, LowFactor) /\ Worth(term) = was
      BY <1>2, <2>4 DEF ProductInv
    <3>2. /\ IF pc' = "idle" THEN Number' = was * LowFactor
                             ELSE op' = "mulSmall" /\ start' = was /\ arg' = LowFactor
          /\ pc' \notin {"new", "lost"}
      BY <1>1, <1>2, <2>1, <3>1, ResultStep
    <3>3. Multiplying(was, LowFactor)'
      BY <1>1, <2>3, <3>2 DEF Multiplying
    <3>4. ProductInv'
      BY <1>1, <2>1, <2>2, <2>4, <3>1, <3>2, <3>3 DEF ProductInv
    <3> QED
      BY <1>3, <3>4 DEF CInv
  <2>5. CASE stage = "high"
    <3>1. Multiplying(was, HighFactor) /\ Worth(term) = was * LowFactor
      BY <1>2, <2>5 DEF ProductInv
    <3>2. /\ IF pc' = "idle" THEN Number' = was * HighFactor
                             ELSE op' = "mulSmall" /\ start' = was /\ arg' = HighFactor
          /\ pc' \notin {"new", "lost"}
      BY <1>1, <1>2, <2>1, <3>1, ResultStep
    <3>3. Multiplying(was, HighFactor)'
      BY <1>1, <2>3, <3>2 DEF Multiplying
    <3>4. ProductInv'
      BY <1>1, <2>1, <2>2, <2>3, <2>5, <3>1, <3>2, <3>3 DEF ProductInv
    <3> QED
      BY <1>3, <3>4 DEF CInv
  <2>6. CASE stage = "last" /\ Multiplying(was, factor)
    <3>1. /\ IF pc' = "idle" THEN Number' = was * factor
                             ELSE op' = "mulSmall" /\ start' = was /\ arg' = factor
          /\ pc' \notin {"new", "lost"}
      BY <1>1, <1>2, <2>1, <2>6, ResultStep
    <3>2. Multiplying(was, factor)'
      BY <1>1, <3>1 DEF Multiplying
    <3>3. ProductInv'
      BY <1>1, <2>1, <2>6, <3>1, <3>2 DEF ProductInv
    <3> QED
      BY <1>3, <3>3 DEF CInv
  <2>7. CASE stage = "last" /\ Adding(was * factor)
    <3>1. op = "add" /\ start + Worth(b) = was * factor
      BY <2>7 DEF Adding
    <3>2. CASE Return /\ pc = "done"
      <4>1. pc' = "idle" /\ Number' = was * factor
        BY <1>2, <3>1, <3>2, Finishes
      <4>2. Multiplying(was, factor)'
        BY <1>1, <4>1 DEF Multiplying
      <4>3. ProductInv'
        BY <1>1, <2>1, <2>7, <4>1, <4>2 DEF ProductInv
      <4> QED
        BY <1>3, <4>3 DEF CInv
    <3>3. CASE /\ UNCHANGED <<op, b, arg, start>> /\ pc' \notin {"idle", "new", "lost"}
               /\ op = "add" /\ pc' = "refused" => GrowFull /\ pc = "add"
      <4>1. ASSUME pc' = "refused" PROVE was * factor >= Power[MaxLimbs - 1]
        <5>1. GrowFull /\ pc = "add" /\ AddInv /\ TypeOK /\ WantInv
          BY <1>2, <3>1, <3>3, <4>1 DEF LoopInv
        <5>2. i = MaxLimbs /\ carry # 0 /\ carry \in Nat
          BY <5>1, Sizes DEF GrowFull, AddInv, TypeOK
        <5>3. /\ Value(limb, MaxLimbs) + carry * Power[MaxLimbs]
                   = Value(old, MaxLimbs) + Value(Operand, MaxLimbs)
              /\ want = Value(old, MaxLimbs) + Value(Operand, MaxLimbs)
          BY <5>1, <5>2 DEF AddInv
        <5>4. want = was * factor
          BY <3>1, <5>1 DEF WantInv, Result, Worth
        <5>5. was * factor >= Power[MaxLimbs]
          <6>1. Value(limb, MaxLimbs) \in Nat
            BY <5>1, Sizes, ValueRange DEF TypeOK
          <6> QED
            BY <5>2, <5>3, <5>4, <6>1, CarriedOut
        <5>6. Power[MaxLimbs] = Base * Power[MaxLimbs - 1] /\ Power[MaxLimbs - 1] \in Nat
          <6>1. MaxLimbs - 1 \in Index /\ (MaxLimbs - 1) + 1 = MaxLimbs /\ MaxLimbs - 1 \in 0 .. MaxLimbs
            BY Sizes
          <6>2. Power[(MaxLimbs - 1) + 1] = Base * Power[MaxLimbs - 1]
            BY <6>1, LimbPowers
          <6> QED
            BY <6>1, <6>2, LimbPowers
        <5>7. Power[MaxLimbs - 1] <= Base * Power[MaxLimbs - 1]
          <6>1. \A x \in Nat, y \in Nat \ {0} : x <= y * x
            OBVIOUS
          <6> QED
            BY <5>6, <6>1, Sizes
        <5>8. was * factor \in Nat /\ Power[MaxLimbs] \in Nat
          <6>1. was * factor \in Nat
            BY <2>1, PartProducts
          <6>2. MaxLimbs \in 0 .. MaxLimbs
            BY Sizes
          <6>3. Power[MaxLimbs] \in Nat
            BY <6>2, LimbPowers
          <6> QED
            BY <6>1, <6>3
        <5>9. Power[MaxLimbs - 1] <= Power[MaxLimbs]
          BY <5>6, <5>7, Zenon
        <5> QED
          BY <5>5, <5>6, <5>8, <5>9
      <4>2. Adding(was * factor)'
        <5>1. Worth(b)' = Worth(b)
          BY <3>3 DEF Worth
        <5> QED
          BY <1>1, <3>1, <3>3, <4>1, <5>1 DEF Adding
      <4>3. ProductInv'
        BY <1>1, <2>1, <2>7, <3>3, <4>2 DEF ProductInv
      <4> QED
        BY <1>3, <4>3 DEF CInv
    <3>4. \/ Return /\ pc = "done"
          \/ /\ UNCHANGED <<op, b, arg, start>> /\ pc' \notin {"idle", "new", "lost"}
             /\ op = "add" /\ pc' = "refused" => GrowFull /\ pc = "add"
      BY <1>1, <1>2, <2>1, <3>1, LoopFrame
    <3> QED
      BY <3>2, <3>3, <3>4
  <2>8. stage \in {"low", "high", "last"}
    <3>1. stage \in {"none", "low", "copied", "high", "moved", "last", "refused"}
      BY <1>2 DEF ProductInv
    <3> QED
      BY <1>5, <2>1, <3>1
  <2> QED
    BY <1>2, <2>1, <2>4, <2>5, <2>6, <2>7, <2>8 DEF ProductInv
<1> QED
  BY <1>4, <1>5

\* The products with uint64_t factors keep, between the calls they are made of, what *a and
\* hi_term are worth in the number and in the factor's parts: the invariant of the loops
\* and of ryu_bigint_mul_u64 over them.
THEOREM CallsInvariance == CSpec => []CInv
<1>1. CInit => CInv
  <2>1. ASSUME CInit
        PROVE  CInv
    <3>1. IInv
      BY <2>1, InitInv DEF CInit, IInv, Init, PowersInv
    <3>2. RefusesOnlyTooLarge
      BY <2>1 DEF CInit, Init, RefusesOnlyTooLarge
    <3>3. ProductInv
      BY <2>1 DEF CInit, ProductInv
    <3> QED
      BY <3>1, <3>2, <3>3 DEF CInv
  <2> QED
    BY <2>1
<1>2. CInv /\ [CNext]_<<vars, product>> => CInv'
  <2>1. CInv /\ CNext => CInv'
    BY MulU64Step, HighPartStep, MulHighStep, MoveHighStep, AddHighStep, EndProductStep, LoopsStep DEF CNext
  <2>2. ASSUME CInv, UNCHANGED <<vars, product>>
        PROVE  CInv'
    <3>1. LoopInv /\ PowersInv /\ RefusesOnlyTooLarge /\ ProductInv /\ UNCHANGED vars
      BY <2>2 DEF CInv, IInv
    <3>2. IInv' /\ RefusesOnlyTooLarge'
      BY <3>1, StepInv, PowersKept, RefusesStep DEF IInv
    <3>3. UNCHANGED <<limb, len, op, b, arg, start, pc, stage, factor, term, was>>
      BY <2>2 DEF vars, number, call, history, product
    <3>4. ProductInv'
      BY <3>1, <3>3 DEF ProductInv, IsNumber, Proper, HighFactor, LowFactor, Multiplying, Adding, Number, Worth,
                        TooLong
    <3> QED
      BY <3>2, <3>4 DEF CInv
  <2> QED
    BY <2>1, <2>2
<1> QED
  BY <1>1, <1>2, PTL DEF CSpec

LEMMA TopPowers == /\ Power[MaxLimbs - 1] \in Nat /\ Power[MaxLimbs] \in Nat
                   /\ Power[MaxLimbs - 1] <= Power[MaxLimbs]
<1>1. MaxLimbs - 1 \in Index /\ (MaxLimbs - 1) + 1 = MaxLimbs /\ MaxLimbs - 1 \in 0 .. MaxLimbs
      /\ MaxLimbs \in 0 .. MaxLimbs
  BY Sizes
<1>2. Power[(MaxLimbs - 1) + 1] = Base * Power[MaxLimbs - 1]
  BY <1>1, LimbPowers
<1>3. Power[MaxLimbs - 1] \in Nat /\ Power[MaxLimbs] \in Nat
  BY <1>1, LimbPowers
<1>4. \A x \in Nat, y \in Nat \ {0} : x <= y * x
  OBVIOUS
<1>5. Power[MaxLimbs - 1] <= Base * Power[MaxLimbs - 1]
  BY <1>3, <1>4, Sizes
<1> QED
  BY <1>1, <1>2, <1>3, <1>5, Zenon

\* A product of the low part, the high part or the whole factor has no room only if the
\* whole product has none.
LEMMA ProductRefused ==
  ASSUME CInv, pc = "refused", NEW w \in Nat, Multiplying(was, w),
         was * w \in Nat, was * factor \in Nat, was * w <= was * factor
  PROVE  TooLong
<1>1. op = "mulSmall" /\ start = was /\ arg = w
  BY DEF Multiplying
<1>2. Result >= Power[MaxLimbs]
  BY <1>1 DEF CInv, RefusesOnlyTooLarge
<1>3. was * w >= Power[MaxLimbs]
  BY <1>1, <1>2 DEF Result
<1>4. was * factor >= Power[MaxLimbs - 1]
  BY <1>3, TopPowers
<1> QED
  BY <1>4 DEF TooLong

\* What the loops promise when calls follow one another they also promise inside a product.
THEOREM CallsAnswer ==
  CSpec => [](Answers /\ AnswersPowers /\ RefusesOnlyTooLarge /\ KeepsOnRefusal /\ NoWrap)
<1>1. CInv => Answers /\ AnswersPowers /\ RefusesOnlyTooLarge /\ KeepsOnRefusal /\ NoWrap
  BY AnswersNow, AnswersPowersNow, NoWrapNow DEF CInv, IInv, LoopInv
<1> QED
  BY <1>1, CallsInvariance, PTL

\* The product of a number and a uint64_t is the number's product, though it is made of
\* three calls on two numbers; and it is refused only for want of room.
THEOREM ProductsCorrect == CSpec => []MultipliesByWord
<1>1. ASSUME CInv
      PROVE  MultipliesByWord
  <2>1. ProductInv
    BY <1>1 DEF CInv
  <2>2. stage = "last" /\ pc = "idle" => Number = was * factor
    BY <2>1 DEF ProductInv, Multiplying
  <2>3. stage = "refused" => TooLong
    BY <2>1 DEF ProductInv
  <2>4. ASSUME stage # "none", pc = "refused"
        PROVE  TooLong
    <3>1. was \in Nat /\ factor \in Factors /\ stage \in {"low", "high", "last"}
      BY <2>1, <2>4 DEF ProductInv
    <3>2. /\ was * LowFactor \in Nat /\ was * HighFactor \in Nat /\ was * factor \in Nat
          /\ was * LowFactor <= was * factor /\ was * HighFactor <= was * factor
      BY <3>1, PartProducts DEF LowFactor, HighFactor
    <3>3. factor \in Nat /\ LowFactor \in Nat /\ HighFactor \in Nat
      BY <3>1, FactorParts DEF LowFactor, HighFactor
    <3>4. CASE stage = "low"
      <4>1. Multiplying(was, LowFactor)
        BY <2>1, <3>4 DEF ProductInv
      <4> QED
        BY <1>1, <2>4, <3>2, <3>3, <4>1, ProductRefused
    <3>5. CASE stage = "high"
      <4>1. Multiplying(was, HighFactor)
        BY <2>1, <3>5 DEF ProductInv
      <4> QED
        BY <1>1, <2>4, <3>2, <3>3, <4>1, ProductRefused
    <3>6. CASE stage = "last"
      <4>1. Multiplying(was, factor) \/ Adding(was * factor)
        BY <2>1, <3>6 DEF ProductInv
      <4>2. CASE Multiplying(was, factor)
        BY <1>1, <2>4, <3>2, <3>3, <4>2, ProductRefused
      <4>3. CASE Adding(was * factor)
        BY <2>4, <4>3 DEF Adding, TooLong
      <4> QED
        BY <4>1, <4>2, <4>3
    <3> QED
      BY <3>1, <3>4, <3>5, <3>6
  <2> QED
    BY <2>2, <2>3, <2>4 DEF MultipliesByWord
<1> QED
  BY <1>1, CallsInvariance, PTL

---------------------------------------------------------------------------
(* The text of a number *)

\* Texts put behind each other one by one are the flattened sequence of them.
Flattens(g, seqs, n) == /\ Len(seqs) = n /\ g = [q \in 1 .. n |-> g[q]] /\ g[1] = seqs[1]
                        /\ \A q \in 2 .. n : g[q] = g[q - 1] \o seqs[q]

LEMMA FlattenIs ==
  ASSUME NEW n \in Nat \ {0}, NEW seqs, NEW g, Flattens(g, seqs, n)
  PROVE  FlattenSeq(seqs) = g[n]
<1> DEFINE G(h) == [q \in 1 .. n |-> IF q = 1 THEN seqs[q] ELSE h[q - 1] \o seqs[q]]
           f == CHOOSE h : h = G(h)
<1>0. /\ Len(seqs) = n /\ g = [q \in 1 .. n |-> g[q]] /\ g[1] = seqs[1]
      /\ \A q \in 2 .. n : g[q] = g[q - 1] \o seqs[q]
  BY DEF Flattens
<1>1. g = G(g)
  <2>1. \A q \in 1 .. n : g[q] = G(g)[q]
    <3> TAKE q \in 1 .. n
    <3>1. CASE q = 1
      BY <1>0, <3>1
    <3>2. CASE q # 1
      <4>1. q \in 2 .. n
        BY <3>2
      <4> QED
        BY <1>0, <3>2, <4>1
    <3> QED
      BY <3>1, <3>2
  <2>2. G(g) = [q \in 1 .. n |-> G(g)[q]]
    OBVIOUS
  <2> HIDE DEF G
  <2> QED
    BY <1>0, <2>1, <2>2
<1>2. f = G(f)
  <2> HIDE DEF G
  <2> QED
    BY <1>1, Zenon
<1>3. FlattenSeq(seqs) = f[n]
  <2>1. Len(seqs) # 0 /\ Len(seqs) = n
    BY <1>0
  <2>2. FlattenSeq(seqs) = LET flatten[q \in 1 .. n] == IF q = 1 THEN seqs[q] ELSE flatten[q - 1] \o seqs[q]
                           IN  flatten[n]
    BY <2>1, Zenon DEF FlattenSeq
  <2> QED
    BY <2>2, Zenon
<1> HIDE DEF f
<1>4. f[1] = seqs[1] /\ \A q \in 2 .. n : f[q] = f[q - 1] \o seqs[q]
  <2>1. \A q \in 1 .. n : f[q] = G(f)[q]
    <3> HIDE DEF G
    <3> QED
      BY <1>2
  <2>2. 1 \in 1 .. n /\ \A q \in 2 .. n : q \in 1 .. n /\ q # 1
    OBVIOUS
  <2> QED
    BY <2>1, <2>2
<1> DEFINE T == {k \in Nat : f[k + 1] = g[k + 1]}
<1>5. 0 \in T
  BY <1>0, <1>4
<1>6. ASSUME NEW k \in 0 .. (n - 1) - 1, k \in T PROVE k + 1 \in T
  <2>1. f[k + 1] = g[k + 1] /\ (k + 1) + 1 \in 2 .. n /\ ((k + 1) + 1) - 1 = k + 1 /\ k + 1 \in Nat
    BY <1>6 DEF T
  <2> DEFINE q == (k + 1) + 1
  <2>2. f[q] = f[q - 1] \o seqs[q] /\ g[q] = g[q - 1] \o seqs[q]
    BY <1>0, <1>4, <2>1
  <2>3. q - 1 = k + 1
    OBVIOUS
  <2> HIDE DEF q
  <2>4. f[q] = g[q]
    BY <2>1, <2>2, <2>3
  <2> QED
    BY <2>1, <2>4 DEF q
<1> HIDE DEF T
<1>7. n - 1 \in T
  <2>1. n - 1 \in Nat /\ n - 1 \in 0 .. n - 1
    OBVIOUS
  <2> QED
    BY <1>5, <1>6, <2>1, InductionUpTo
<1>8. f[n] = g[n]
  <2>1. (n - 1) + 1 = n
    OBVIOUS
  <2> QED
    BY <1>7, <2>1 DEF T
<1> QED
  BY <1>3, <1>8

\* What a number is worth above its first limbs.
LEMMA UpperLimbs ==
  ASSUME NEW l \in Arrays, NEW n \in 0 .. MaxLimbs, NEW j \in 0 .. n
  PROVE  /\ Value(l, n) \div Power[j] \in Nat
         /\ Value(l, n) = Power[j] * (Value(l, n) \div Power[j]) + Value(l, j)
<1> DEFINE k == [q \in Index |-> IF q + j < MaxLimbs THEN l[q + j] ELSE 0]
           r == n - j
<1>1. /\ r \in 0 .. MaxLimbs /\ r \in 0 .. MaxLimbs - j /\ j \in 0 .. MaxLimbs /\ r + j = n
      /\ \A q \in 0 .. r - 1 : q \in Index /\ q + j \in Index /\ q + j < MaxLimbs
  BY Sizes
<1>2. k \in Arrays
  <2>1. \A q \in Index : q + j < MaxLimbs => q + j \in Index
    BY Sizes
  <2>2. \A q \in Index : (IF q + j < MaxLimbs THEN l[q + j] ELSE 0) \in Limb
    BY <2>1, Storing, Sizes
  <2> QED
    BY <2>2 DEF Arrays
<1>3. \A q \in 0 .. r - 1 : k[q] = l[q + j]
  BY <1>1
<1> HIDE DEF k, r
<1>4. Value(l, r + j) = Value(l, j) + Power[j] * Value(k, r)
  BY <1>1, <1>2, <1>3, MovedRun
<1>5. /\ Value(l, j) \in Nat /\ Value(l, j) < Power[j] /\ Value(k, r) \in Nat /\ Value(l, n) \in Nat
      /\ Power[j] \in Nat \ {0}
  BY <1>1, <1>2, ValueRange, LimbPowers
<1>6. Value(l, n) = Power[j] * Value(k, r) + Value(l, j) /\ Value(l, j) \in 0 .. Power[j] - 1
  BY <1>1, <1>4, <1>5
<1>7. Value(l, n) \div Power[j] = Value(k, r)
  BY <1>5, <1>6, DivModIs
<1> QED
  BY <1>5, <1>6, <1>7

\* One limb further down.
LEMMA NextUpper ==
  ASSUME NEW l \in Arrays, NEW n \in 0 .. MaxLimbs, NEW j \in 0 .. n - 1
  PROVE  Value(l, n) \div Power[j] = (Value(l, n) \div Power[j + 1]) * Base + l[j]
<1> DEFINE h == Value(l, n) \div Power[j + 1]
           p == Power[j]
<1>1. j \in Index /\ j \in 0 .. MaxLimbs /\ j + 1 \in 0 .. n /\ j + 1 \in 0 .. MaxLimbs
  BY Sizes
<1>2. h \in Nat /\ Value(l, n) = Power[j + 1] * h + Value(l, j + 1)
  BY <1>1, UpperLimbs
<1>3. Power[j + 1] = Base * p /\ p \in Nat \ {0} /\ Base \in Nat
  BY <1>1, LimbPowers, Sizes
<1>4. Value(l, j + 1) = Value(l, j) + l[j] * p /\ l[j] \in Nat
  BY <1>1, NextLimb, Storing, Sizes
<1>5. Value(l, n) \in Nat /\ Value(l, j) \in Nat /\ Value(l, j) \in 0 .. p - 1
  BY <1>1, ValueRange, LimbPowers
<1> HIDE DEF h, p
<1>6. Value(l, n) = p * (h * Base + l[j]) + Value(l, j)
  <2>1. (Base * p) * h = p * (h * Base)
    BY <1>2, <1>3
  <2>2. p * (h * Base + l[j]) = p * (h * Base) + p * l[j] /\ p * l[j] = l[j] * p
    BY <1>2, <1>3, <1>4
  <2>3. p * (h * Base) \in Nat /\ p * l[j] \in Nat
    BY <1>2, <1>3, <1>4
  <2> QED
    BY <1>2, <1>3, <1>4, <1>5, <2>1, <2>2, <2>3
<1>7. h * Base + l[j] \in Nat
  BY <1>2, <1>3, <1>4
<1>8. Value(l, n) \div p = h * Base + l[j]
  BY <1>3, <1>5, <1>6, <1>7, DivModIs
<1> QED
  BY <1>8 DEF h, p

\* The digits of a limb are counted by the powers it reaches.
LEMMA LimbDigits ==
  ASSUME NEW v \in Limb
  PROVE  /\ DigitsOf(v) \in 1 .. BaseDigits
         /\ v < Radix ^ DigitsOf(v)
         /\ v # 0 => Radix ^ (DigitsOf(v) - 1) <= v
         /\ v = 0 => DigitsOf(v) = 1
<1> DEFINE S == {k \in 1 .. BaseDigits - 1 : v >= Radix ^ k}
<1>1. /\ Radix \in Nat \ {0} /\ BaseDigits \in Nat \ {0} /\ MaxExponent \in Nat
      /\ PowersUpTo(Radix, MaxExponent) /\ BaseDigits <= MaxExponent
      /\ v \in Nat /\ v < Radix ^ BaseDigits
  <2>1. BaseDigits * 1 \in 0 .. MaxExponent /\ 1 \in 0 .. MaxLimbs
    BY Sizes, LimbUnit
  <2> QED
    BY <2>1, PowersOfRadix, SizesAssumption, Storing
<1>2. PowersUpTo(Radix, BaseDigits)
  BY <1>1 DEF PowersUpTo
<1>3. PICK k \in 1 .. BaseDigits : v < Radix ^ k /\ (k > 1 => Radix ^ (k - 1) <= v)
  BY <1>1, <1>2, LeastPower
<1>4. \A j \in 0 .. BaseDigits : Radix ^ j \in Nat \ {0}
  BY <1>1, <1>2, PowerPositive
<1>5. S = 1 .. k - 1
  <2>1. ASSUME NEW j \in 1 .. BaseDigits - 1
        PROVE  v >= Radix ^ j <=> j <= k - 1
    <3>1. j \in 0 .. BaseDigits /\ k \in 0 .. BaseDigits /\ k - 1 \in 0 .. BaseDigits
      BY <1>1
    <3>2. CASE j <= k - 1
      <4>1. k > 1
        BY <3>2
      <4>2. Radix ^ j <= Radix ^ (k - 1)
        BY <1>1, <1>2, <3>1, <3>2, PowerOrder
      <4>3. Radix ^ j \in Nat /\ Radix ^ (k - 1) \in Nat /\ Radix ^ (k - 1) <= v
        BY <1>3, <1>4, <3>1, <4>1
      <4> QED
        BY <1>1, <3>2, <4>2, <4>3
    <3>3. CASE ~(j <= k - 1)
      <4>1. k <= j
        BY <3>3
      <4>2. Radix ^ k <= Radix ^ j
        BY <1>1, <1>2, <3>1, <4>1, PowerOrder
      <4>3. Radix ^ j \in Nat /\ Radix ^ k \in Nat /\ v < Radix ^ k
        BY <1>3, <1>4, <3>1
      <4> QED
        BY <1>1, <3>3, <4>2, <4>3
    <3> QED
      BY <3>2, <3>3
  <2>2. \A j \in 1 .. k - 1 : j \in 1 .. BaseDigits - 1
    BY <1>1
  <2>3. \A j : j \in S <=> j \in 1 .. k - 1
    BY <2>1, <2>2
  <2> HIDE DEF S
  <2> QED
    BY <2>3
<1>6. Cardinality(S) = k - 1
  <2>1. 1 \in Int /\ k - 1 \in Int
    OBVIOUS
  <2>2. Cardinality(1 .. k - 1) = IF 1 > k - 1 THEN 0 ELSE (k - 1) - 1 + 1
    BY <2>1, FS_Interval, Zenon
  <2>3. (IF 1 > k - 1 THEN 0 ELSE (k - 1) - 1 + 1) = k - 1
    OBVIOUS
  <2> QED
    BY <1>5, <2>2, <2>3
<1>7. DigitsOf(v) = k
  <2>1. DigitsOf(v) = 1 + Cardinality(S)
    BY DEF DigitsOf
  <2> HIDE DEF S
  <2> QED
    BY <1>6, <2>1
<1>8. v # 0 => Radix ^ (k - 1) <= v
  <2>1. CASE k = 1
    <3>1. Radix ^ (k - 1) = 1
      BY <1>2, <2>1 DEF PowersUpTo
    <3> QED
      BY <1>1, <3>1
  <2>2. CASE k # 1
    BY <1>3, <2>2
  <2> QED
    BY <2>1, <2>2
<1>9. v = 0 => k = 1
  <2> SUFFICES ASSUME v = 0, k # 1 PROVE FALSE
    OBVIOUS
  <2>1. k > 1 /\ k - 1 \in 0 .. BaseDigits
    BY <1>1
  <2>2. Radix ^ (k - 1) <= 0 /\ Radix ^ (k - 1) \in Nat \ {0}
    BY <1>3, <1>4, <2>1
  <2> QED
    BY <2>2
<1> QED
  BY <1>3, <1>7, <1>8, <1>9

\* Limbs one by one, each in all its digits, spell the number they make.
LEMMA LimbsSpelled ==
  ASSUME NEW l \in Arrays, NEW n \in 0 .. MaxLimbs
  PROVE  FlattenSeq([k \in 1 .. n |-> Padded(l[n - k], BaseDigits)]) = Spelled(Value(l, n), Radix, BaseDigits * n)
<1> DEFINE seqs == [k \in 1 .. n |-> Padded(l[n - k], BaseDigits)]
           r == Value(l, n)
           g == [q \in 1 .. n |-> Spelled(r \div Power[n - q], Radix, BaseDigits * q)]
<1>1. Len(seqs) = n
  OBVIOUS
<1>2. CASE n = 0
  <2>1. FlattenSeq(seqs) = seqs
    BY <1>1, <1>2, Zenon DEF FlattenSeq
  <2>2. BaseDigits * n = 0
    BY <1>2, PowersOfRadix
  <2>3. Spelled(r, Radix, 0) = <<>>
    BY DEF Spelled
  <2>4. seqs = <<>>
    BY <1>2
  <2> QED
    BY <2>1, <2>2, <2>3, <2>4
<1>3. CASE n # 0
  <2>1. /\ Radix \in Nat \ {0, 1} /\ BaseDigits \in Nat \ {0} /\ MaxExponent \in Nat
        /\ PowersUpTo(Radix, MaxExponent) /\ Base = Radix ^ BaseDigits /\ Base \in Nat
    BY PowersOfRadix, SizesAssumption
  <2>2. r \in Nat /\ r < Power[n] /\ Power[n] \in Nat \ {0} /\ n \in Nat \ {0}
    BY <1>3, ValueRange, LimbPowers
  <2>3. \A q \in 0 .. n : r \div Power[q] \in Nat
    BY UpperLimbs
  <2>4. \A q \in 0 .. n - 1 : r \div Power[q] = (r \div Power[q + 1]) * Base + l[q]
    BY NextUpper
  <2>5. \A q \in 0 .. n - 1 : l[q] \in Nat /\ l[q] < Radix ^ BaseDigits
    BY <2>1, Storing, Sizes
  <2> HIDE DEF r
  <2>6. r \div Power[n] = 0
    <3>1. r = Power[n] * 0 + r /\ r \in 0 .. Power[n] - 1
      BY <2>2
    <3> QED
      BY <2>2, <3>1, DivModIs
  <2>7. g[1] = seqs[1]
    <3>1. 1 \in 1 .. n /\ n - 1 \in 0 .. n - 1 /\ (n - 1) + 1 = n
      BY <2>2
    <3>2. r \div Power[n - 1] = l[n - 1]
      <4>1. r \div Power[n - 1] = (r \div Power[n]) * Base + l[n - 1]
        BY <2>4, <3>1
      <4>2. 0 * Base + l[n - 1] = l[n - 1]
        BY <2>1, <2>5, <3>1
      <4> QED
        BY <2>6, <4>1, <4>2
    <3>3. BaseDigits * 1 = BaseDigits
      BY <2>1
    <3>4. g[1] = Spelled(r \div Power[n - 1], Radix, BaseDigits * 1) /\ seqs[1] = Padded(l[n - 1], BaseDigits)
      BY <3>1
    <3> QED
      BY <3>2, <3>3, <3>4 DEF Padded
  <2>8. ASSUME NEW q \in 2 .. n PROVE g[q] = g[q - 1] \o seqs[q]
    <3> DEFINE x == r \div Power[n - (q - 1)]
               y == l[n - q]
               z == BaseDigits * (q - 1)
    <3>1. /\ q \in 1 .. n /\ q - 1 \in 1 .. n /\ n - q \in 0 .. n - 1 /\ (n - q) + 1 = n - (q - 1)
          /\ n - (q - 1) \in 0 .. n /\ q \in 0 .. MaxLimbs
      BY <2>2, Sizes
    <3>2. r \div Power[n - q] = x * Base + y /\ x \in Nat /\ y \in Nat /\ y < Radix ^ BaseDigits
      BY <2>3, <2>4, <2>5, <3>1
    <3>3. z \in Nat /\ BaseDigits * q = z + BaseDigits /\ BaseDigits \in Nat /\ z + BaseDigits <= MaxExponent
      <4>1. BaseDigits * q \in 0 .. MaxExponent
        BY <3>1, LimbUnit
      <4>2. BaseDigits * q = BaseDigits * (q - 1) + BaseDigits
        BY <2>1
      <4>3. BaseDigits * (q - 1) \in Nat
        BY <2>1, <3>1
      <4> QED
        BY <2>1, <4>1, <4>2, <4>3
    <3>4. g[q] = Spelled(r \div Power[n - q], Radix, BaseDigits * q)
      BY <3>1
    <3>5. g[q - 1] = Spelled(x, Radix, z) /\ seqs[q] = Spelled(y, Radix, BaseDigits)
      BY <3>1 DEF Padded
    <3> HIDE DEF x, y, z
    <3>6. Spelled(x, Radix, z) \o Spelled(y, Radix, BaseDigits) = Spelled(x * Radix ^ BaseDigits + y, Radix, z + BaseDigits)
      <4>1. PowersUpTo(Radix, z + BaseDigits)
        BY <2>1, <3>3 DEF PowersUpTo
      <4>2. Radix \in Nat \ {0, 1} /\ z \in Nat /\ BaseDigits \in Nat /\ x \in Nat /\ y \in Nat /\ y < Radix ^ BaseDigits
        BY <2>1, <3>2, <3>3
      <4> QED
        <5>1. SpellTogether(x, y, Radix, z, BaseDigits)
          BY <4>1, <4>2, SpelledConcat
        <5> QED
          BY <5>1, Zenon DEF SpellTogether
    <3> HIDE DEF g, seqs
    <3> QED
      BY <2>1, <3>2, <3>3, <3>4, <3>5, <3>6
  <2>9. g = [q \in 1 .. n |-> g[q]]
    OBVIOUS
  <2>10. g[n] = Spelled(r, Radix, BaseDigits * n)
    <3>1. n \in 1 .. n /\ n - n = 0
      BY <2>2
    <3>2. r \div Power[0] = r
      <4>1. Power[0] = 1 /\ r = 1 * r + 0 /\ 0 \in 0 .. 1 - 1
        BY <2>2, LimbPowers
      <4> QED
        BY <2>2, <4>1, DivModIs
    <3> QED
      BY <3>1, <3>2
  <2> HIDE DEF g, seqs
  <2>11. FlattenSeq(seqs) = g[n]
    <3>1. n \in Nat \ {0} /\ Len(seqs) = n /\ \A q \in 2 .. n : g[q] = g[q - 1] \o seqs[q]
      BY <1>1, <2>2, <2>8, Zenon
    <3>2. Flattens(g, seqs, n)
      BY <2>7, <2>9, <3>1, Zenon DEF Flattens
    <3> QED
      BY <3>1, <3>2, FlattenIs
  <2> QED
    BY <2>10, <2>11 DEF seqs, r
<1> QED
  BY <1>2, <1>3

\* The number of digits, and what the text spells.
LEMMA DecimalIs ==
  ASSUME limb \in Arrays, len \in 1 .. MaxLimbs, Proper(limb, len)
  PROVE  /\ DigitsOf(Top) \in 1 .. BaseDigits
         /\ DecimalLen = DigitsOf(Top) + (len - 1) * BaseDigits
         /\ DecimalLen \in 1 .. BaseDigits * MaxLimbs /\ BaseDigits * MaxLimbs <= MaxExponent
         /\ Number \in Nat /\ Number < Radix ^ DecimalLen
         /\ DecimalLen > 1 => Radix ^ (DecimalLen - 1) <= Number
         /\ Padded(Top, DigitsOf(Top))
              \o FlattenSeq([k \in 1 .. len - 1 |-> Padded(limb[len - 1 - k], BaseDigits)])
            = Spelled(Number, Radix, DecimalLen)
<1> DEFINE n == len - 1
           d == DigitsOf(Top)
           r == Value(limb, n)
           e == BaseDigits * n
           p == Radix ^ e
<1>1. n \in Index /\ n \in 0 .. MaxLimbs /\ n + 1 = len /\ n \in Nat
  BY Sizes
<1>2. Top \in Limb /\ Top \in Nat /\ Top = limb[n]
  BY <1>1, Storing, Sizes DEF Top
<1>3. d \in 1 .. BaseDigits /\ d \in Nat /\ Top < Radix ^ d /\ (Top # 0 => Radix ^ (d - 1) <= Top) /\ (Top = 0 => d = 1)
  BY <1>2, LimbDigits
<1>4. /\ Radix \in Nat \ {0, 1} /\ BaseDigits \in Nat \ {0} /\ MaxExponent \in Nat
      /\ PowersUpTo(Radix, MaxExponent)
      /\ \A j \in 0 .. MaxExponent : Radix ^ j \in Nat \ {0}
  BY PowersOfRadix, SizesAssumption
<1>5. /\ e \in Nat /\ p = Power[n] /\ p \in Nat \ {0} /\ e = n * BaseDigits
      /\ d + e \in 1 .. BaseDigits * MaxLimbs /\ BaseDigits * MaxLimbs <= MaxExponent
      /\ d + e <= MaxExponent /\ d <= MaxExponent
  <2>1. e \in 0 .. MaxExponent /\ Power[n] = Radix ^ e /\ BaseDigits * MaxLimbs \in 0 .. MaxExponent
    BY <1>1, LimbUnit, Sizes
  <2>2. BaseDigits + BaseDigits * n = BaseDigits * len /\ BaseDigits * len <= BaseDigits * MaxLimbs
    <3>1. len <= MaxLimbs /\ len \in Nat /\ MaxLimbs \in Nat
      BY Sizes
    <3>2. len * BaseDigits <= MaxLimbs * BaseDigits
      BY <1>4, <3>1, Products
    <3> QED
      BY <1>1, <1>4, <3>1, <3>2
  <2>3. BaseDigits * n = n * BaseDigits
    BY <1>1, <1>4
  <2> QED
    BY <1>3, <1>4, <2>1, <2>2, <2>3
<1>6. DecimalLen = d + e
  <2>1. CASE IsZero
    <3>1. len = 1 /\ Top = 0
      BY <2>1 DEF IsZero, Top
    <3>2. d = 1 /\ e = 0
      BY <1>3, <1>4, <3>1
    <3> QED
      BY <2>1, <3>2 DEF DecimalLen
  <2>2. CASE ~IsZero
    <3>1. DecimalLen = d + n * BaseDigits
      BY <2>2 DEF DecimalLen
    <3> QED
      BY <1>5, <3>1
  <2> QED
    BY <2>1, <2>2
<1>7. r \in Nat /\ r < p /\ Number = Top * p + r /\ Top * p \in Nat
  <2>1. r \in Nat /\ r < Power[n]
    BY <1>1, ValueRange
  <2>2. Number = r + limb[n] * Power[n]
    BY <1>1, NextLimb DEF Number
  <2>3. Top * p \in Nat
    BY <1>2, <1>5
  <2> HIDE DEF r, p
  <2> QED
    BY <1>2, <1>5, <2>1, <2>2, <2>3
<1>8. Padded(Top, d) \o FlattenSeq([k \in 1 .. n |-> Padded(limb[n - k], BaseDigits)])
        = Spelled(Number, Radix, d + e)
  <2>1. FlattenSeq([k \in 1 .. n |-> Padded(limb[n - k], BaseDigits)]) = Spelled(r, Radix, e)
    <3> HIDE DEF n
    <3> QED
      BY <1>1, LimbsSpelled, Zenon
  <2>2. PowersUpTo(Radix, d + e)
    BY <1>4, <1>5 DEF PowersUpTo
  <2> HIDE DEF d, e, r, n
  <2>3. Spelled(Top, Radix, d) \o Spelled(r, Radix, e) = Spelled(Top * Radix ^ e + r, Radix, d + e)
    <3>1. Radix \in Nat \ {0, 1} /\ d \in Nat /\ e \in Nat /\ Top \in Nat /\ r \in Nat /\ r < Radix ^ e
      BY <1>2, <1>3, <1>4, <1>5, <1>7 DEF p
    <3> QED
      <4>1. SpellTogether(Top, r, Radix, d, e)
        BY <2>2, <3>1, SpelledConcat
      <4> QED
        BY <4>1, Zenon DEF SpellTogether
  <2> QED
    BY <1>7, <2>1, <2>3 DEF Padded
<1>9. Number < Radix ^ (d + e)
  <2>1. Radix ^ (d + e) = Radix ^ d * p
    <3> HIDE DEF d, e
    <3> QED
      BY <1>3, <1>4, <1>5, PowerSum
  <2>2. Radix ^ d \in Nat /\ Top + 1 <= Radix ^ d
    <3>1. d \in 0 .. MaxExponent
      BY <1>3, <1>5
    <3> QED
      BY <1>2, <1>3, <1>4, <3>1
  <2> DEFINE q == Radix ^ d
  <2> HIDE DEF d, e, p, r, q
  <2>3. (Top + 1) * p <= q * p
    BY <1>2, <1>5, <2>2, Products DEF q
  <2>4. (Top + 1) * p = Top * p + p /\ q * p \in Nat
    BY <1>2, <1>5, <2>2 DEF q
  <2> QED
    BY <1>5, <1>7, <2>1, <2>3, <2>4 DEF q
<1>10. ASSUME d + e > 1 PROVE Radix ^ (d + e - 1) <= Number
  <2>1. Top # 0
    <3> SUFFICES ASSUME Top = 0 PROVE FALSE
      OBVIOUS
    <3>1. len = 1
      <4>1. len = 1 \/ limb[len - 1] # 0
        BY DEF Proper
      <4> QED
        BY <4>1 DEF Top
    <3>2. d = 1 /\ e = 0
      BY <1>3, <1>4, <3>1
    <3> QED
      BY <1>10, <3>2
  <2>2. Radix ^ ((d - 1) + e) = Radix ^ (d - 1) * p
    <3> DEFINE c == d - 1
    <3>1. c \in Nat /\ e \in Nat /\ c + e <= MaxExponent
      BY <1>3, <1>4, <1>5
    <3> HIDE DEF d, e, c
    <3>2. Radix ^ (c + e) = Radix ^ c * Radix ^ e
      BY <1>4, <3>1, PowerSum
    <3> QED
      BY <3>2 DEF c, p
  <2>3. Radix ^ (d - 1) \in Nat /\ Radix ^ (d - 1) <= Top
    <3>1. d - 1 \in 0 .. MaxExponent
      BY <1>3, <1>4, <1>5
    <3> QED
      BY <1>3, <1>4, <2>1, <3>1
  <2>4. (d - 1) + e = d + e - 1
    BY <1>3, <1>5
  <2> DEFINE q == Radix ^ (d - 1)
  <2> HIDE DEF d, e, p, r, q
  <2>5. q * p <= Top * p
    BY <1>2, <1>5, <2>3, Products DEF q
  <2>6. q * p \in Nat
    BY <1>5, <2>3 DEF q
  <2> QED
    BY <1>7, <2>2, <2>4, <2>5, <2>6 DEF q
<1>11. Number \in Nat
  BY <1>7
<1> QED
  BY <1>3, <1>5, <1>6, <1>8, <1>9, <1>10, <1>11

\* A number has one length only.
LEMMA WordDigitsIs ==
  ASSUME limb \in Arrays, len \in 1 .. MaxLimbs, Proper(limb, len)
  PROVE  WordDigits(Number) = DecimalLen
<1> DEFINE most == BaseDigits * MaxLimbs
           Fits(n) == Number < Radix ^ n /\ (n = 1 \/ Number >= Radix ^ (n - 1))
           w == CHOOSE n \in 1 .. most : Fits(n)
           d == DecimalLen
<1>1. /\ Radix \in Nat \ {0} /\ MaxExponent \in Nat /\ PowersUpTo(Radix, MaxExponent)
      /\ \A j \in 0 .. MaxExponent : Radix ^ j \in Nat \ {0}
  BY PowersOfRadix
<1>2. /\ d \in 1 .. most /\ most <= MaxExponent /\ most \in Nat /\ Number \in Nat /\ Number < Radix ^ d
      /\ d > 1 => Radix ^ (d - 1) <= Number
  <2>1. most \in Nat
    BY PowersOfRadix, Sizes
  <2> QED
    BY <2>1, DecimalIs
<1> HIDE DEF most, d
<1>3. Number >= Radix ^ (d - 1) \/ d = 1
  <2>1. d > 1 => d - 1 \in 0 .. MaxExponent
    BY <1>1, <1>2
  <2> QED
    BY <1>1, <1>2, <2>1
<1>4. w \in 1 .. most /\ Fits(w)
  <2>1. \E n \in 1 .. most : Fits(n)
    BY <1>2, <1>3
  <2> HIDE DEF Fits
  <2> QED
    BY <2>1, Zenon
<1>5. WordDigits(Number) = w
  BY DEF WordDigits, most
<1> HIDE DEF w
<1>6. ASSUME NEW a \in 1 .. most, NEW c \in 1 .. most, Fits(a), Fits(c), a < c
      PROVE  FALSE
  <2>1. c - 1 \in 0 .. MaxExponent /\ a \in 0 .. MaxExponent /\ a <= c - 1 /\ c # 1
    BY <1>1, <1>2, <1>6
  <2>2. Radix ^ a <= Radix ^ (c - 1)
    BY <1>1, <2>1, PowerOrder
  <2>3. Radix ^ a \in Nat /\ Radix ^ (c - 1) \in Nat
    BY <1>1, <2>1
  <2>4. Number < Radix ^ a /\ Number >= Radix ^ (c - 1)
    BY <1>6, <2>1
  <2> QED
    BY <1>2, <2>2, <2>3, <2>4
<1>7. Fits(d)
  BY <1>2, <1>3
<1> HIDE DEF Fits
<1>8. ~(w < d) /\ ~(d < w)
  BY <1>2, <1>4, <1>6, <1>7
<1>9. w = d
  BY <1>2, <1>4, <1>8
<1> QED
  BY <1>5, <1>9 DEF d

\* The tests of the room before each limb come to one: that there is room for all of them.
LEMMA RoomForAll ==
  ASSUME limb \in Arrays, len \in 1 .. MaxLimbs, Proper(limb, len), NEW cap \in Nat
  PROVE  ToDecimal(cap) = IF DecimalLen + 1 > cap THEN NoText ELSE Spelled(Number, Radix, DecimalLen)
<1> DEFINE top == DigitsOf(Top)
           n == len - 1
           Room == /\ cap > 1 /\ (~IsZero => top <= cap - 1)
                   /\ \A k \in 1 .. len - 1 : top + (k - 1) * BaseDigits + BaseDigits < cap
           text == Padded(Top, top)
                     \o FlattenSeq([k \in 1 .. len - 1 |-> Padded(limb[len - 1 - k], BaseDigits)])
<1>1. /\ top \in Nat \ {0} /\ DecimalLen = top + n * BaseDigits /\ DecimalLen \in Nat
      /\ text = Spelled(Number, Radix, DecimalLen)
  <2>1. BaseDigits * MaxLimbs \in Nat /\ BaseDigits \in Nat
    BY PowersOfRadix, Sizes
  <2>2. /\ top \in 1 .. BaseDigits /\ DecimalLen = top + n * BaseDigits
        /\ DecimalLen \in 1 .. BaseDigits * MaxLimbs
    BY DecimalIs, Zenon
  <2>3. text = Spelled(Number, Radix, DecimalLen)
    BY DecimalIs, Zenon
  <2> HIDE DEF top, n, text
  <2> QED
    BY <2>1, <2>2, <2>3
<1>2. BaseDigits \in Nat \ {0} /\ n \in Nat /\ len \in Nat /\ n * BaseDigits \in Nat
  BY PowersOfRadix, Sizes
<1>3. \A k \in 1 .. n : (k - 1) * BaseDigits + BaseDigits = k * BaseDigits /\ (k - 1) * BaseDigits \in Nat /\ k * BaseDigits \in Nat
  BY <1>2
<1>4. ToDecimal(cap) = IF ~Room THEN NoText ELSE text
  BY DEF ToDecimal
<1> HIDE DEF text
<1>5. Room => DecimalLen + 1 <= cap
  <2> SUFFICES ASSUME Room PROVE DecimalLen + 1 <= cap
    OBVIOUS
  <2>1. CASE n = 0
    <3>1. DecimalLen = top /\ len = 1
      <4>1. n * BaseDigits = 0
        BY <1>2, <2>1
      <4> QED
        BY <1>1, <1>2, <2>1, <4>1
    <3>2. IsZero => DecimalLen = 1
      BY DEF DecimalLen
    <3>3. cap > 1 /\ (~IsZero => top <= cap - 1)
      OBVIOUS
    <3> HIDE DEF top
    <3> QED
      BY <1>1, <3>1, <3>2, <3>3
  <2>2. CASE n # 0
    <3>1. n \in 1 .. len - 1 /\ n \in 1 .. n
      BY <1>2, <2>2
    <3>2. top + (n - 1) * BaseDigits + BaseDigits < cap
      BY <3>1
    <3>3. (n - 1) * BaseDigits + BaseDigits = n * BaseDigits /\ (n - 1) * BaseDigits \in Nat
      BY <1>3, <3>1
    <3> HIDE DEF top, n
    <3> QED
      BY <1>1, <1>2, <3>2, <3>3
  <2> QED
    BY <2>1, <2>2
<1>6. ASSUME DecimalLen + 1 <= cap PROVE Room
  <2>1. cap > 1 /\ top <= cap - 1
    <3> HIDE DEF top, n
    <3> QED
      BY <1>1, <1>2, <1>6
  <2>2. ASSUME NEW k \in 1 .. len - 1
        PROVE  top + (k - 1) * BaseDigits + BaseDigits < cap
    <3>1. k \in 1 .. n /\ k <= n
      BY <1>2
    <3>2. k * BaseDigits <= n * BaseDigits
      BY <1>2, <3>1, Products
    <3>3. (k - 1) * BaseDigits + BaseDigits = k * BaseDigits /\ (k - 1) * BaseDigits \in Nat /\ k * BaseDigits \in Nat
      BY <1>3, <3>1
    <3> HIDE DEF top, n
    <3> QED
      BY <1>1, <1>2, <1>6, <3>2, <3>3
  <2> QED
    BY <2>1, <2>2
<1>7. DecimalLen + 1 > cap <=> ~Room
  <2>1. DecimalLen + 1 > cap <=> ~(DecimalLen + 1 <= cap)
    BY <1>1
  <2> HIDE DEF Room
  <2> QED
    BY <1>5, <1>6, <2>1
<1> HIDE DEF Room
<1> QED
  BY <1>1, <1>4, <1>7, Zenon

(***************************************************************************)
(* The text of a number is its digits, as many as ryu_bigint_decimal_len   *)
(* says, whichever of the two ways writes it: limbs below the top with     *)
(* their leading zeros, or the uint64_t the number comes back as; and it   *)
(* is refused just where it and the zero behind it have no room.           *)
(***************************************************************************)
THEOREM TextIsTheNumber == CSpec => []WritesTheNumber
<1>1. ASSUME CInv
      PROVE  WritesTheNumber
  <2> SUFFICES ASSUME pc = "idle", NEW cap \in OutCaps
               PROVE  LET text == ToDecimal(cap)
                      IN  /\ text = ToDecimalFast(cap)
                          /\ text = NoText <=> DecimalLen + 1 > cap
                          /\ text # NoText => Len(text) = DecimalLen /\ ValueOf(text, Radix) = Number
    BY DEF WritesTheNumber
  <2> DEFINE d == DecimalLen
             w == Spelled(Number, Radix, d)
  <2>1. limb \in Arrays /\ Proper(limb, len) /\ len \in 1 .. MaxLimbs /\ cap \in Nat
    <3>1. limb \in Arrays /\ Proper(limb, len)
      BY <1>1 DEF CInv, IInv, LoopInv, TypeOK
    <3> QED
      BY <3>1, OutCapsAssumption DEF Proper
  <2>2. /\ d \in Nat \ {0} /\ d <= MaxExponent /\ Number \in Nat /\ Number < Radix ^ d
    <3>1. BaseDigits * MaxLimbs \in Nat /\ MaxExponent \in Nat
      BY PowersOfRadix, Sizes
    <3> QED
      BY <2>1, <3>1, DecimalIs
  <2>3. Radix \in Nat \ {0, 1} /\ PowersUpTo(Radix, d)
    <3>1. PowersUpTo(Radix, MaxExponent) /\ MaxExponent \in Nat
      BY PowersOfRadix
    <3> QED
      BY <2>2, <3>1, SizesAssumption DEF PowersUpTo
  <2>4. ToDecimal(cap) = IF d + 1 > cap THEN NoText ELSE w
    BY <2>1, RoomForAll
  <2>5. WordDigits(Number) = d
    BY <2>1, WordDigitsIs
  <2> HIDE DEF d
  <2>6. Len(w) = d /\ ValueOf(w, Radix) = Number
    BY <2>2, <2>3, SpelledType, SpelledValue
  <2>7. w # NoText
    BY <2>2, <2>6 DEF NoText
  <2>8. ToDecimal(cap) = ToDecimalFast(cap)
    <3>1. CASE Number >= Word
      BY <3>1 DEF ToDecimalFast
    <3>2. CASE ~(Number >= Word)
      <4>1. ToDecimalFast(cap) = IF cap = 0 \/ d + 1 > cap THEN NoText ELSE w
        BY <2>5, <3>2 DEF ToDecimalFast, Padded
      <4>2. cap = 0 => d + 1 > cap
        BY <2>2
      <4> QED
        BY <2>4, <4>1, <4>2
    <3> QED
      BY <3>1, <3>2
  <2> HIDE DEF w
  <2> QED
    BY <2>4, <2>6, <2>7, <2>8 DEF d
<1> QED
  BY <1>1, CallsInvariance, PTL
=============================================================================
