---------------------------- MODULE PrintfRound -----------------------------
(***************************************************************************)
(* What ryu64_to_printf does to a number for %f, %e and %g                 *)
(* (src/src/ryu64_printf.c, src/src/ryu64_bigint.c): the exact decimal of  *)
(* the double, its rounding to the digits asked for in the rounding mode   *)
(* asked for, and the choice of notation.  The answer is the integer       *)
(* rounded and the number of its digits behind the point; PrintfHex does   *)
(* the same for %a, and PrintfText lays the digits out as text.            *)
(*                                                                         *)
(* A bigint has limbs of LimbDigits decimal digits and holds the numbers   *)
(* of up to Capacity digits.                                               *)
(***************************************************************************)
EXTENDS BinaryFormat, Powers

CONSTANTS
  LimbDigits,       \* RYU_BIGINT_BASE_DIGITS                   (9)
  Capacity,         \* RYU_BIGINT_MAX_LIMBS * LimbDigits
  MaxDigits,        \* more decimal digits than any of the numbers below has
  DefaultPrecision, \* the precision when none is given         (6)
  MaxPrecision,     \* RYU_MAX_PRINTF_PRECISION
  MinFixedExp10,    \* %g is scientific below this exponent     (-4)
  Precisions        \* the precisions asked for; -1 is none

ASSUME PrintfAssumption == /\ LimbDigits \in Nat \ {0} /\ Capacity \in Nat
                           /\ DefaultPrecision \in Nat /\ MaxPrecision \in Nat
                           /\ MinFixedExp10 \in Int /\ Precisions \subseteq Int

\* The numbers the formatters meet have at most MaxDigits decimal digits: those
\* that fill a bigint, and every number of the format without its point.
ASSUME SizeAssumption ==
  /\ MaxDigits \in Nat /\ Prec <= MaxDigits /\ UnitExp <= MaxDigits /\ EMax - Prec < MaxDigits
  /\ Capacity <= MaxDigits /\ DefaultPrecision + 1 < MaxDigits /\ MaxPrecision + 1 < MaxDigits
  /\ \A m \in 0 .. 2 * Hidden - 1 :
       /\ \A k \in 0 .. EMax - Prec + 1 : m * 2 ^ k < 10 ^ MaxDigits
       /\ \A k \in 0 .. UnitExp : m * 5 ^ k < 10 ^ MaxDigits

\* What is past the format for Nearest is past every number printed with MaxPrecision.
ASSUME ReachAssumption ==
  /\ DefaultPrecision <= MaxPrecision /\ MaxPrecision <= SmallExp10
  /\ SmallExp10 <= MaxDigits /\ LargeExp10 < MaxDigits
  /\ 2 ^ UnitExp <= 10 ^ (SmallExp10 - MaxPrecision)
  /\ 2 * Units(InfBits) <= 2 ^ UnitExp * 10 ^ (LargeExp10 + 1)

ASSUME PowersAssumption == \A b \in {2, 5, 10} : PowersUpTo(b, MaxDigits)

VARIABLES
  bits, negative, kind, precision, mode,    \* x and spec
  pc,
  digits, scale,        \* ryu_decimal_exact: |x| = digits / 10^scale
  rounded, exp10,       \* of %a the digits after the 0x, and the exponent of 2
  status,
  places                \* digits of rounded behind the point, as printed

spec == <<bits, negative, kind, precision, mode>>
exactly == <<digits, scale>>
vars == <<spec, pc, exactly, rounded, exp10, status, places>>

Kinds == {"f", "e", "g", "a"}
Modes == {"NEAREST_EVEN", "TOWARD_ZERO", "TOWARD_POS", "TOWARD_NEG"}

\* The length of n in decimal digits.
DecimalLen(n) == CHOOSE k \in 1 .. MaxDigits : n < 10 ^ k /\ (k > 1 => 10 ^ (k - 1) <= n)
LimbLen(n) == (DecimalLen(n) + LimbDigits - 1) \div LimbDigits

\* precision as the three formatters read it, and the digits %e and %g show.
Effective == IF precision < 0 THEN DefaultPrecision ELSE precision
SigDigits == IF kind = "e" THEN Effective + 1
             ELSE IF Effective = 0 THEN 1 ELSE Effective

---------------------------------------------------------------------------
(* ryu_round_integer_div_pow10 *)

\* A slip: halves are always rounded up.
MutRoundsUp(digit, tail, odd) ==
  CASE mode = "TOWARD_ZERO" -> FALSE
    [] mode = "TOWARD_POS" -> ~negative /\ (digit > 0 \/ tail)
    [] mode = "TOWARD_NEG" -> negative /\ (digit > 0 \/ tail)
    [] OTHER -> digit >= 5

\* should_round_up, from the first dropped digit, whether the others are zero,
\* and the parity of what is kept.
RoundsUp(digit, tail, odd) ==
  CASE mode = "TOWARD_ZERO" -> FALSE
    [] mode = "TOWARD_POS" -> ~negative /\ (digit > 0 \/ tail)
    [] mode = "TOWARD_NEG" -> negative /\ (digit > 0 \/ tail)
    [] OTHER -> digit > 5 \/ (digit = 5 /\ (tail \/ odd))

\* No limb is kept.  Only a number that fills all the limbs dropped is looked at.
DropAllLimbs(n, drop) ==
  IF drop = LimbDigits * LimbLen(n) /\ DecimalLen(n) = drop
    THEN IF RoundsUp(n \div 10 ^ (drop - 1), n % 10 ^ (drop - 1) # 0, FALSE) THEN 1 ELSE 0
    ELSE 0

DropDigits(n, drop) ==
  LET kept == n \div 10 ^ drop
      digit == (n \div 10 ^ (drop - 1)) % 10
      tail == n % 10 ^ (drop - 1) # 0
  IN  IF RoundsUp(digit, tail, kept % 2 = 1) THEN kept + 1 ELSE kept

RoundDivPow10(n, drop) == IF drop = 0 THEN n
                          ELSE IF drop \div LimbDigits >= LimbLen(n) THEN DropAllLimbs(n, drop)
                          ELSE DropDigits(n, drop)

\* ryu_bigint_mul_pow10 succeeds.
Padded(n, k) == n = 0 \/ DecimalLen(n) + k <= Capacity

---------------------------------------------------------------------------
Init == /\ bits \in FiniteBits \cup {InfBits, NanBits} /\ negative \in BOOLEAN
        /\ kind \in Kinds /\ precision \in Precisions /\ mode \in Modes
        /\ pc = "check"
        /\ digits = 0 /\ scale = 0 /\ rounded = 0 /\ exp10 = 0
        /\ status = "none" /\ places = 0

Accepted == precision \in -1 .. MaxPrecision
Answer(what, k) == status' = what /\ places' = k /\ pc' = "done"

Reject == /\ pc = "check"
          /\ \/ precision < -1 /\ Answer("INVALID", 0)
             \/ precision > MaxPrecision /\ Answer("UNSUPPORTED", 0)
          /\ UNCHANGED <<spec, exactly, rounded, exp10>>

\* nan and inf, whatever the precision and the mode
NotFinite == /\ pc = "check" /\ Accepted /\ bits \notin FiniteBits
             /\ Answer("OK", 0)
             /\ UNCHANGED <<spec, exactly, rounded, exp10>>

\* A slip: the exponent of a subnormal number is taken to be one lower.
MutExact == /\ pc = "check" /\ Accepted /\ bits \in FiniteBits /\ kind # "a"
            /\ LET biased == bits \div Hidden
                   mantissa == IF biased = 0 THEN bits ELSE Hidden + (bits % Hidden)
                   exp2 == biased - 1 - UnitExp
               IN  /\ digits' = IF exp2 >= 0 THEN mantissa * 2 ^ exp2 ELSE mantissa * 5 ^ (-exp2)
                   /\ scale' = IF exp2 >= 0 \/ mantissa = 0 THEN 0 ELSE -exp2
            /\ pc' = IF kind = "f" THEN "fractional" ELSE "significant"
            /\ UNCHANGED <<spec, rounded, exp10, status, places>>

\* ryu_decode_fp64 and ryu_exact_decimal_from_bits
Exact == /\ pc = "check" /\ Accepted /\ bits \in FiniteBits /\ kind # "a"
         /\ LET biased == bits \div Hidden
                mantissa == IF biased = 0 THEN bits ELSE Hidden + (bits % Hidden)
                exp2 == (IF biased = 0 THEN 0 ELSE biased - 1) - UnitExp
            IN  /\ digits' = IF exp2 >= 0 THEN mantissa * 2 ^ exp2 ELSE mantissa * 5 ^ (-exp2)
                /\ scale' = IF exp2 >= 0 \/ mantissa = 0 THEN 0 ELSE -exp2
         /\ pc' = IF kind = "f" THEN "fractional" ELSE "significant"
         /\ UNCHANGED <<spec, rounded, exp10, status, places>>

\* ryu_printf_f: ryu_round_exact_to_fractional
Fractional ==
  /\ pc = "fractional"
  /\ \/ /\ scale <= Effective /\ Padded(digits, Effective - scale)
        /\ rounded' = digits * 10 ^ (Effective - scale)
        /\ Answer("OK", Effective)
     \/ /\ scale <= Effective /\ ~Padded(digits, Effective - scale)
        /\ Answer("UNSUPPORTED", 0) /\ UNCHANGED rounded
     \/ /\ scale > Effective
        /\ rounded' = RoundDivPow10(digits, scale - Effective)
        /\ Answer("OK", Effective)
  /\ UNCHANGED <<spec, exactly, exp10>>

\* ryu_printf_e and ryu_printf_g: zero needs no rounding.
ZeroSignificant == /\ pc = "significant" /\ digits = 0
                   /\ pc' = "emit"
                   /\ UNCHANGED <<spec, exactly, rounded, exp10, status, places>>

\* ryu_round_exact_to_significant up to its loop
Significant ==
  LET len == DecimalLen(digits)
  IN  /\ pc = "significant" /\ digits # 0
      /\ exp10' = len - scale - 1
      /\ \/ /\ len > SigDigits
            /\ rounded' = RoundDivPow10(digits, len - SigDigits)
            /\ pc' = "shrink" /\ UNCHANGED <<status, places>>
         \/ /\ len <= SigDigits /\ Padded(digits, SigDigits - len)
            /\ rounded' = digits * 10 ^ (SigDigits - len)
            /\ pc' = "shrink" /\ UNCHANGED <<status, places>>
         \/ /\ len <= SigDigits /\ ~Padded(digits, SigDigits - len)
            /\ Answer("UNSUPPORTED", 0) /\ UNCHANGED rounded
      /\ UNCHANGED <<spec, exactly>>

\* The loop: a carry out of 99..9 left one digit too many.
Shrink == /\ pc = "shrink"
          /\ \/ /\ DecimalLen(rounded) > SigDigits
                /\ rounded' = rounded \div 10
                /\ exp10' = exp10 + 1
                /\ UNCHANGED pc
             \/ /\ DecimalLen(rounded) <= SigDigits
                /\ pc' = "emit"
                /\ UNCHANGED <<rounded, exp10>>
          /\ UNCHANGED <<spec, exactly, status, places>>

\* %g is scientific when the exponent is out of reach; %f otherwise, with what
\* digits the exponent leaves behind the point.
Scientific == kind = "e" \/ exp10 < MinFixedExp10 \/ exp10 >= SigDigits

Emit == /\ pc = "emit"
        /\ \/ Scientific /\ Answer("OK", SigDigits - 1 - exp10)
           \/ /\ ~Scientific
              /\ Answer("OK", IF SigDigits - (exp10 + 1) < 0 THEN 0 ELSE SigDigits - (exp10 + 1))
        /\ UNCHANGED <<spec, exactly, rounded, exp10>>

Next == \/ Reject \/ NotFinite \/ Exact \/ Fractional \/ ZeroSignificant
        \/ Significant \/ Shrink \/ Emit

Spec == Init /\ [][Next]_vars

---------------------------------------------------------------------------
Printed == pc = "done" /\ status = "OK" /\ bits \in FiniteBits
InDecimal == Printed /\ kind # "a"

\* n / 10^drop, rounded to an integer by the definition of the mode.
RoundedTo(n, drop) ==
  LET unit == 10 ^ drop
      down == n \div unit
      rest == n % unit
      up == CASE mode = "TOWARD_ZERO" -> FALSE
              [] mode = "TOWARD_POS" -> ~negative /\ rest # 0
              [] mode = "TOWARD_NEG" -> negative /\ rest # 0
              [] OTHER -> 2 * rest > unit \/ (2 * rest = unit /\ down % 2 = 1)
  IN  IF drop <= 0 THEN n * 10 ^ (-drop) ELSE IF up THEN down + 1 ELSE down

\* digits / 10^scale, to the printed places.
Asked == RoundedTo(digits, scale - places)

\* Where the code drops all the digits there are, it does not look at the mode.
AllDropped == kind = "f" /\ scale - places > DecimalLen(digits) /\ rounded = 0 /\ Asked = 1

(***************************************************************************)
(* What is printed is the number rounded, once and in the mode asked for,  *)
(* to the places that are printed, also when a carry moves the exponent    *)
(* and when %g changes its notation because of it; but for the directed    *)
(* modes below the last place of %f.                                       *)
(***************************************************************************)
RoundsAsAsked == InDecimal => rounded = Asked \/ AllDropped

---------------------------------------------------------------------------
(* Why it does: the inductive invariant. *)

\* The decimal places of digits that the significant digits leave out.
LeftOut == scale + exp10 + 1 - SigDigits

TypeInv == /\ bits \in Nat /\ negative \in BOOLEAN /\ kind \in Kinds
           /\ precision \in Int /\ mode \in Modes
           /\ pc \in {"check", "fractional", "significant", "shrink", "emit", "done"}
           /\ digits \in Nat /\ scale \in Nat /\ rounded \in Nat
           /\ exp10 \in Int /\ places \in Int

\* The exact decimal, not yet rounded before its handler runs.
ExactInv ==
  /\ pc \in {"fractional", "significant", "shrink", "emit"} =>
       /\ Accepted /\ kind \in (IF pc = "fractional" THEN {"f"} ELSE {"e", "g"})
       /\ digits < 10 ^ MaxDigits /\ scale <= MaxDigits /\ (digits = 0 => scale = 0)
  /\ pc \in {"check", "fractional", "significant"} => rounded = 0 /\ exp10 = 0

\* A carry can leave one digit too many, and only the power of ten itself.
ShrinkInv ==
  pc = "shrink" =>
    LET asked == DecimalLen(digits) - SigDigits
    IN  /\ digits # 0 /\ rounded = RoundedTo(digits, LeftOut)
        /\ \/ LeftOut = asked /\ rounded <= 10 ^ SigDigits
           \/ LeftOut = asked + 1 /\ rounded < 10 ^ SigDigits

EmitInv == pc = "emit" => rounded = RoundedTo(digits, LeftOut)

IInv == TypeInv /\ ExactInv /\ ShrinkInv /\ EmitInv /\ RoundsAsAsked

---------------------------------------------------------------------------

\* So many digits tell any two numbers of the format apart: 17 are the fewest for binary64.
Enough(n) == 10 ^ (n - 1) > 2 ^ Prec

(***************************************************************************)
(* Enough digits in %e or %g, rounded to nearest, read back as the number. *)
(***************************************************************************)
EnoughDigitsReadBack ==
  InDecimal /\ kind # "f" /\ mode = "NEAREST_EVEN" /\ Enough(SigDigits)
    => Nearest(rounded, exp10 - (SigDigits - 1)) = bits

\* Why they do: the exact decimal is the number.
WorthInv ==
  pc \in {"fractional", "significant", "shrink", "emit"} \/ InDecimal =>
    /\ bits \in FiniteBits /\ scale <= UnitExp
    /\ digits * 2 ^ UnitExp = Units(bits) * 10 ^ scale

\* And no more digits are dropped, or filled up, than a number can have.
CutInv == pc = "emit" \/ (InDecimal /\ kind # "f") => LeftOut \in -MaxDigits .. MaxDigits

(***************************************************************************)
(* "Round toward positive infinity." (wit/floats.wit): a positive number   *)
(* is never printed smaller than it is.                                    *)
(***************************************************************************)
TowardPositive ==
  InDecimal /\ mode = "TOWARD_POS" /\ ~negative /\ scale > places
    => rounded * 10 ^ (scale - places) >= digits
=============================================================================
