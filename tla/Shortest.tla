------------------------------ MODULE Shortest ------------------------------
(***************************************************************************)
(* ryu64_to_shortest (src/src/ryu64_shortest.c) down to the digits:        *)
(* ryu_decimal_interval_from_bits finds the decimals that read back as the *)
(* number, ryu_choose_shortest_digits looks for the one with the fewest    *)
(* digits, from the coarsest power of ten to the finest                    *)
(* (src/src/ryu64_bigint.c).  ShortestText writes them out.  The capacity  *)
(* of a bigint, which these numbers never reach, is left out.              *)
(***************************************************************************)
EXTENDS BinaryFormat, Powers

CONSTANTS
  MaxDigits,            \* more decimal digits than any of the numbers below has
  MaxSig, MaxSigExp     \* the answer for the largest number, in the source as a constant

\* The format has fractions, and its ends are within the powers of ten told apart.
ASSUME ShortestAssumption ==
  /\ MaxSig \in Nat \ {0} /\ MaxSigExp \in -SmallExp10 .. LargeExp10 /\ MaxDigits \in Nat
  /\ UnitExp \in Nat /\ UnitExp + 1 <= SmallExp10
  /\ SmallExp10 <= MaxDigits /\ LargeExp10 < MaxDigits
  /\ 2 * Units(InfBits) <= 2 ^ (UnitExp + 1) * 10 ^ (LargeExp10 + 1)

ASSUME PowersAssumption == /\ PowersUpTo(2, Prec + EMax + Bias + UnitExp)
                           /\ PowersUpTo(5, MaxDigits) /\ PowersUpTo(10, MaxDigits)

VARIABLES
  bits,             \* abs_bits
  pc,
  low, high, scale, \* the interval, ends divided by 10^scale
  closed,           \* low_closed, high_closed
  t,                \* the power of ten tried
  sig, k            \* the answer: sig * 10^k

interval == <<low, high, scale, closed>>
vars == <<bits, pc, interval, t, sig, k>>

DecimalLen(n) == CHOOSE d \in 1 .. MaxDigits : n < 10 ^ d /\ (d > 1 => 10 ^ (d - 1) <= n)
Larger(a, b) == IF a > b THEN a ELSE b

\* ryu_rational_from_bits: num / 2^den
Rational(b) ==
  LET biased == b \div Hidden
      m == IF biased = 0 THEN b ELSE Hidden + (b % Hidden)
      e2 == (IF biased = 0 THEN 0 ELSE biased - 1) - UnitExp
  IN  CASE m = 0 -> [num |-> 0, den |-> 0]
        [] m # 0 /\ e2 >= 0 -> [num |-> m * 2 ^ e2, den |-> 0]
        [] OTHER -> [num |-> m, den |-> -e2]

\* ryu_midpoint
Midpoint(a, b) ==
  LET d == Larger(a.den, b.den)
  IN  [num |-> a.num * 2 ^ (d - a.den) + b.num * 2 ^ (d - b.den), den |-> d + 1]

\* The decimal num / 2^den, as a multiple of 10^-q.
Scaled(r, q) == r.num * 5 ^ r.den * 10 ^ (q - r.den)

\* The two ends of the interval, and the power of ten that makes them whole.
HalfBelow(b) == Midpoint(Rational(b - 1), Rational(b))
HalfAbove(b) == Midpoint(Rational(b), Rational(b + 1))
ScaleOf(b) == Larger(HalfBelow(b).den, HalfAbove(b).den)

ASSUME SizeAssumption ==
  /\ \A b \in 1 .. InfBits - 2 : Scaled(HalfAbove(b), ScaleOf(b)) < 10 ^ MaxDigits
  /\ MaxSig < 10 ^ MaxDigits

---------------------------------------------------------------------------
Init == /\ bits \in FiniteBits \cup {InfBits, NanBits}
        /\ pc = "start"
        /\ low = 0 /\ high = 0 /\ scale = 0 /\ closed = FALSE
        /\ t = 0 /\ sig = 0 /\ k = 0

\* nan, inf and 0 are written without looking for digits.
Literals == {0, InfBits, NanBits}
Literal == pc = "start" /\ bits \in Literals /\ pc' = "done"
           /\ UNCHANGED <<bits, interval, t, sig, k>>

\* The largest number has no neighbour above it.
Largest == /\ pc = "start" /\ bits = InfBits - 1
           /\ sig' = MaxSig /\ k' = MaxSigExp
           /\ pc' = "done"
           /\ UNCHANGED <<bits, interval, t>>

\* A slip: the ends of the interval are exchanged.
MutInterval ==
  /\ pc = "start" /\ bits \notin Literals \cup {InfBits - 1}
  /\ LET q == ScaleOf(bits)
     IN  /\ scale' = q
         /\ low' = Scaled(HalfAbove(bits), q)
         /\ high' = Scaled(HalfBelow(bits), q)
         /\ t' = DecimalLen(Scaled(HalfAbove(bits), q))
  /\ closed' = (bits % 2 = 0)
  /\ pc' = "search"
  /\ UNCHANGED <<bits, sig, k>>

\* ryu_decimal_interval_from_bits: half way to both neighbours; a number with
\* an even significand owns the ends.
Interval ==
  /\ pc = "start" /\ bits \notin Literals \cup {InfBits - 1}
  /\ LET q == ScaleOf(bits)
     IN  /\ scale' = q
         /\ low' = Scaled(HalfBelow(bits), q)
         /\ high' = Scaled(HalfAbove(bits), q)
         /\ t' = DecimalLen(Scaled(HalfAbove(bits), q))
  /\ closed' = (bits % 2 = 0)
  /\ pc' = "search"
  /\ UNCHANGED <<bits, sig, k>>

\* A slip: an open lower end is taken for a closed one.
MutNMin == LET floor == low \div 10 ^ t
                n == IF low % 10 ^ t # 0 THEN floor + 1 ELSE floor
            IN  IF n = 0 THEN 1 ELSE n
\* A slip: a closed upper end is taken for an open one.
MutNMax == (high - 1) \div 10 ^ t

\* n_min and n_max: the least and the largest multiple of 10^t in the interval, without 0.
NMin == LET floor == low \div 10 ^ t
             onEnd == low % 10 ^ t = 0
             n == IF ~onEnd \/ ~closed THEN floor + 1 ELSE floor
         IN  IF n = 0 THEN 1 ELSE n
NMax == LET floor == high \div 10 ^ t
            onEnd == high % 10 ^ t = 0
        IN  IF onEnd /\ ~closed /\ floor > 0 THEN floor - 1 ELSE floor

Coarse == /\ pc = "search" /\ t >= 0 /\ NMin > NMax
          /\ t' = t - 1
          /\ UNCHANGED <<bits, pc, interval, sig, k>>

Found == /\ pc = "search" /\ t >= 0 /\ NMin <= NMax
         /\ sig' = NMin /\ k' = t - scale
         /\ pc' = "done"
         /\ UNCHANGED <<bits, interval, t>>

Next == Literal \/ Largest \/ Interval \/ Coarse \/ Found

\* One thread runs the function to its end.
Spec == Init /\ [][Next]_vars /\ WF_vars(Next)

---------------------------------------------------------------------------
HasDigits == pc = "done" /\ bits \notin Literals

\* No number of fewer digits than s is nearest to b.
NoneShorter(s, b) == \A n \in 1 .. 10 ^ (DecimalLen(s) - 1) - 1, e \in -SmallExp10 .. LargeExp10 :
                       Nearest(n, e) # b

\* The literal in the source stands for the largest number, as briefly as can be.
ASSUME LargestAssumption ==
  Nearest(MaxSig, MaxSigExp) = InfBits - 1 /\ NoneShorter(MaxSig, InfBits - 1)

\* sig * 10^k reads back as the number (by the correctly rounding reader).
ReadsBack == HasDigits => Nearest(sig, k) = bits

(***************************************************************************)
(* No decimal with fewer digits reads back as the number, whatever its     *)
(* exponent: the loop goes from coarse to fine and stops at the first hit, *)
(* which is the shortest only if no coarser power of ten was misjudged.    *)
(***************************************************************************)
IsShortest ==
  HasDigits => NoneShorter(sig, bits)

(***************************************************************************)
(* Why it is: the interval, and that no power of ten above t, the last one *)
(* tried, has a multiple in it; a multiple of 1 is in every interval.      *)
(***************************************************************************)
Inside(n) == /\ low < n \/ (low = n /\ closed)
             /\ n < high \/ (n = high /\ closed)
Searched == pc = "search" \/ (HasDigits /\ bits # InfBits - 1)
IntervalInv == Searched =>
  /\ bits \in 1 .. InfBits - 2 /\ closed = (bits % 2 = 0) /\ scale = ScaleOf(bits)
  /\ low = Scaled(HalfBelow(bits), scale) /\ high = Scaled(HalfAbove(bits), scale)
  /\ t \in 0 .. MaxDigits
  /\ \A j \in t + 1 .. MaxDigits : \A n \in 1 .. high \div 10 ^ j : ~Inside(n * 10 ^ j)
AnswerInv == HasDigits =>
  IF bits = InfBits - 1 THEN sig = MaxSig /\ k = MaxSigExp
                        ELSE NMin <= NMax /\ sig = NMin /\ k = t - scale
IInv == /\ bits \in FiniteBits \cup {InfBits, NanBits} /\ pc \in {"start", "search", "done"}
        /\ IntervalInv /\ AnswerInv

(***************************************************************************)
(* "Always succeeds" (wit/floats.wit, on to-string): the search ends with  *)
(* an answer, it never runs out of powers of ten.                          *)
(***************************************************************************)
AlwaysAnswers == <>(pc = "done")
=============================================================================
