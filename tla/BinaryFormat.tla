---------------------------- MODULE BinaryFormat ----------------------------
(***************************************************************************)
(* A binary floating-point format with the shape of IEEE-754 binary64 and  *)
(* sizes of its own, and the meaning of correct rounding in it, defined by *)
(* what a value is and not by any algorithm of the library.                *)
(*                                                                         *)
(* A magnitude is represented as the library represents it, by its bits    *)
(* without the sign: the biased exponent above Prec - 1 fraction bits.     *)
(* Magnitudes are ordered as their bits are.                               *)
(***************************************************************************)
EXTENDS Integers

CONSTANTS
  Prec,         \* bits of a significand, the hidden one included (binary64: 53)
  EMin,         \* exponent of the smallest normal number         (-1022)
  EMax,         \* exponent of the largest finite number           (1023)
  SmallExp10,   \* the powers of ten told apart: a decimal whose exponent is
  LargeExp10    \* below -SmallExp10 or above LargeExp10 is past the format

ASSUME FormatAssumption == /\ Prec \in Nat /\ Prec > 1 /\ EMin \in Int /\ EMax \in Int /\ EMin < EMax
                           /\ SmallExp10 \in Nat /\ LargeExp10 \in Nat

Hidden == 2 ^ (Prec - 1)
Bias == 1 - EMin
InfBits == (EMax + Bias + 1) * Hidden
NanBits == InfBits + 1          \* stands for every nan
FiniteBits == 0 .. InfBits - 1

\* Every finite magnitude is a multiple of 2^-UnitExp; this is the multiple.
UnitExp == Prec - 1 - EMin
Units(bits) == LET biased == bits \div Hidden
                   frac == bits % Hidden
               IN  IF biased = 0 THEN frac ELSE (Hidden + frac) * 2 ^ (biased - 1)

\* n * 10^e in half units, and whether something is left of the last one.
\* Past the ends of the format a bound answers as well as the number.
HalfUnits(n, e) == LET scaled == n * 2 ^ (UnitExp + 1)
                       top == 2 * Units(InfBits)
                   IN  CASE e < 0 -> scaled \div 10 ^ (IF e < -SmallExp10 THEN SmallExp10 ELSE -e)
                         [] e >= 0 /\ (e > LargeExp10 \/ n > top) -> IF n = 0 THEN 0 ELSE 2 * top
                         [] OTHER -> scaled * 10 ^ e
Leftover(n, e) == e < 0 /\ (n * 2 ^ (UnitExp + 1)) % 10 ^ (IF e < -SmallExp10 THEN SmallExp10 ELSE -e) # 0

\* n * 10^e lies half way between the magnitudes b and b + 1.
IsMidpoint(n, e, b) == ~Leftover(n, e) /\ HalfUnits(n, e) = Units(b) + Units(b + 1)
IsTie(n, e) == \E b \in FiniteBits : IsMidpoint(n, e, b)

\* n * 10^e is the magnitude b.
IsExactly(n, e, b) == ~Leftover(n, e) /\ HalfUnits(n, e) = 2 * Units(b)

\* n * 10^e lies above the midpoint of c and c + 1, or on it and that belongs to c + 1.
RoundsPast(n, e, c) ==
  LET x == HalfUnits(n, e)
      midpoint == Units(c) + Units(c + 1)
  IN  x > midpoint \/ (x = midpoint /\ (Leftover(n, e) \/ c % 2 = 1))

(***************************************************************************)
(* Round to nearest, ties to even: the magnitude whose two midpoints       *)
(* enclose n * 10^e, a midpoint belonging to the even neighbour.           *)
(***************************************************************************)
IsNearest(n, e, b) == /\ b < InfBits => ~RoundsPast(n, e, b)
                      /\ b > 0 => RoundsPast(n, e, b - 1)
Nearest(n, e) == CHOOSE b \in 0 .. InfBits : IsNearest(n, e, b)
=============================================================================
