---------------------------- MODULE LongDivision ----------------------------
(***************************************************************************)
(* The bit-by-bit division by which ryu_convert_ratio_to_double turns      *)
(* num / den into a significand (src/src/ryu64_parse_full.c, the normal    *)
(* branch): one subtraction, FracBits turns of double-and-compare for the  *)
(* fraction, two more for guard and round bit, and the rounding.           *)
(* ryu_fast_mq_to_double runs the same loop on 128-bit words.              *)
(*                                                                         *)
(* num and den are what the normalising shift by q_ratio leaves: the       *)
(* quotient lies in [1, 2).  scale is 1 << i; after the loop it is the     *)
(* hidden bit.  A doubling beyond SigMax fails as ryu_bigint_mul_small     *)
(* does, and the conversion answers OUT_OF_RANGE.                          *)
(***************************************************************************)
EXTENDS Integers

CONSTANTS
  Operands,     \* the numbers num and den are taken from
  FracBits,     \* 52
  SigMax        \* the largest number a ryu_bigint holds

ASSUME OperandsAssumption == Operands \subseteq Nat \ {0}
ASSUME FracBitsAssumption == FracBits \in Nat /\ SigMax \in Nat

VARIABLES
  num, den,     \* the operands
  pc,
  i, rem, frac, scale,
  guard, roundBit,
  mant,         \* the significand, the hidden bit included
  carried,      \* q_total += 1: rounding up overflowed into the next binade
  inexact

operands == <<num, den>>
answer == <<mant, carried, inexact>>
vars == <<num, den, pc, i, rem, frac, scale, guard, roundBit, mant, carried, inexact>>

Init == /\ num \in Operands /\ den \in Operands
        /\ den <= num /\ num < 2 * den
        /\ pc = "subtract"
        /\ i = 0 /\ rem = 0 /\ frac = 0 /\ scale = 1
        /\ guard = 0 /\ roundBit = 0
        /\ mant = 0 /\ carried = FALSE /\ inexact = FALSE

Subtract == /\ pc = "subtract"
            /\ rem' = num - den
            /\ pc' = "frac"
            /\ UNCHANGED <<operands, i, frac, scale, guard, roundBit, answer>>

\* A slip: the remainder may equal the divisor.
MutNextBit == IF 2 * rem > den THEN 1 ELSE 0

\* rem is doubled; the next bit says whether den fits in it.
NextBit == IF 2 * rem >= den THEN 1 ELSE 0
CanDouble == 2 * rem <= SigMax
DoubleRem == rem' = 2 * rem - NextBit * den

FracStep == /\ pc = "frac" /\ i < FracBits /\ CanDouble
            /\ DoubleRem
            /\ frac' = 2 * frac + NextBit
            /\ scale' = 2 * scale
            /\ i' = i + 1
            /\ UNCHANGED <<operands, pc, guard, roundBit, answer>>

GuardStep == /\ pc = "frac" /\ i = FracBits /\ CanDouble
             /\ DoubleRem
             /\ guard' = NextBit
             /\ pc' = "round"
             /\ UNCHANGED <<operands, i, frac, scale, roundBit, answer>>

RoundStep == /\ pc = "round" /\ CanDouble
             /\ DoubleRem
             /\ roundBit' = NextBit
             /\ pc' = "finish"
             /\ UNCHANGED <<operands, i, frac, scale, guard, answer>>

OutOfRange == /\ pc \in {"frac", "round"} /\ ~CanDouble
              /\ pc' = "failed"
              /\ UNCHANGED <<operands, i, rem, frac, scale, guard, roundBit, answer>>

\* Slips: a guard bit rounds up by itself; the remainder does not count as a loss.
MutNear == scale + frac + guard
MutLost == guard = 1 \/ roundBit = 1

\* Nearest, ties to even; (1 << 52) | frac is a sum.
Near == LET down == scale + frac
        IN  IF guard = 1 /\ (roundBit = 1 \/ rem # 0 \/ down % 2 = 1) THEN down + 1 ELSE down
Lost == guard = 1 \/ roundBit = 1 \/ rem # 0

Round == /\ pc = "finish"
         /\ carried' = (Near = 2 * scale)
         /\ mant' = IF Near = 2 * scale THEN scale ELSE Near
         /\ inexact' = Lost
         /\ pc' = "done"
         /\ UNCHANGED <<operands, i, rem, frac, scale, guard, roundBit>>

Next == Subtract \/ FracStep \/ GuardStep \/ RoundStep \/ OutOfRange \/ Round

Spec == Init /\ [][Next]_vars

---------------------------------------------------------------------------
\* The loop counter stays within the fraction, the bits are bits, den is never 0.
TypeOK == /\ num \in Nat /\ den \in Nat \ {0}
          /\ pc \in {"subtract", "frac", "round", "finish", "done", "failed"}
          /\ i \in 0 .. FracBits
          /\ rem \in Nat /\ frac \in Nat /\ scale \in Nat \ {0}
          /\ guard \in 0 .. 1 /\ roundBit \in 0 .. 1
          /\ mant \in Nat /\ carried \in BOOLEAN /\ inexact \in BOOLEAN

\* The bits found so far are the quotient, and rem is what they leave.
Divided == /\ pc = "subtract" => den <= num /\ num < 2 * den /\ scale = 1 /\ frac = 0
           /\ pc \notin {"subtract", "failed"} => rem < den /\ frac < scale
           /\ pc = "frac" => num * scale = (scale + frac) * den + rem
           /\ pc = "round" => 2 * (num * scale) = (2 * (scale + frac) + guard) * den + rem
           /\ pc = "finish" =>
                4 * (num * scale) = (4 * (scale + frac) + 2 * guard + roundBit) * den + rem

\* What was rounded to, undoing the carry.
Rounded == IF carried THEN 2 * mant ELSE mant

(***************************************************************************)
(* The significand is num / den * scale rounded to nearest, ties to even:  *)
(* off by half a unit at most, and by exactly half only to an even one.    *)
(***************************************************************************)
RoundsToNearest ==
  pc = "done" => /\ 2 * (Rounded * den) - 2 * (num * scale) \in -den .. den
                 /\ 2 * (Rounded * den) - 2 * (num * scale) \in {den, -den} => Rounded % 2 = 0

\* RYU_PARSE_INEXACT says exactly whether the rounding changed the value.
InexactIffLost == pc = "done" => (inexact <=> Rounded * den # num * scale)

(***************************************************************************)
(* The significand has the width of the format: the hidden bit is set and  *)
(* no bit is above it, the carry included.                                 *)
(***************************************************************************)
KeepsWidth == pc = "done" => scale <= mant /\ mant < 2 * scale

\* The inductive invariant behind the theorems of LongDivision_proof: the quotient and
\* the remainder stay exact through the loop, and so what is rounded is right.
IInv == TypeOK /\ Divided /\ RoundsToNearest /\ InexactIffLost /\ KeepsWidth
=============================================================================
