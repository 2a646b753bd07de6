----------------------------- MODULE PrintfHex ------------------------------
(***************************************************************************)
(* The first half of ryu_printf_a (src/src/ryu64_printf.c), which writes a *)
(* number for %a from its bits: how many hexadecimal digits to show, and   *)
(* the rounding of the fraction to them.  A digit has HexBits bits, and    *)
(* HexDigits of them are the whole fraction.                               *)
(***************************************************************************)
EXTENDS PrintfRound

CONSTANTS
  HexBits,      \* 4
  HexDigits     \* 13

Sixteen == 2 ^ HexBits

\* No number that a text says, and no number rounded, has more bits.
MostBits == Prec + EMax - EMin + HexBits * MaxPrecision

ASSUME HexAssumption == /\ HexBits \in Nat \ {0} /\ HexDigits \in Nat
                        /\ HexBits * HexDigits = Prec - 1 /\ EMin <= 0 /\ 0 <= EMax
                        /\ Sixteen \in Nat \ {0} /\ PowersUpTo(Sixteen, HexDigits + MaxPrecision)
                        /\ PowersUpTo(2, MostBits)

Fraction == bits % Hidden
Leading == IF bits < Hidden THEN 0 ELSE 1

\* The fewest digits that show the whole fraction.
Needed == CHOOSE d \in 0 .. HexDigits :
            /\ Fraction % Sixteen ^ (HexDigits - d) = 0
            /\ d > 0 => Fraction % Sixteen ^ (HexDigits - d + 1) # 0
Shown == IF precision < 0 THEN Needed ELSE precision

\* Of these the fraction has this many; the others are zeros.
Kept == IF Shown < HexDigits THEN Shown ELSE HexDigits

\* A slip: without digits behind the point a half is always rounded down.
MutRoundsUpAt(kept, discarded, half) ==
  CASE mode = "TOWARD_ZERO" -> FALSE
    [] mode = "TOWARD_POS" -> ~negative /\ discarded > 0
    [] mode = "TOWARD_NEG" -> negative /\ discarded > 0
    [] OTHER -> discarded > half \/ (discarded = half /\ kept % 2 = 1)

\* should_round_up; without digits behind the point the leading one decides a tie.
RoundsUpAt(kept, discarded, half) ==
  CASE mode = "TOWARD_ZERO" -> FALSE
    [] mode = "TOWARD_POS" -> ~negative /\ discarded > 0
    [] mode = "TOWARD_NEG" -> negative /\ discarded > 0
    [] OTHER -> \/ discarded > half
                \/ discarded = half /\ (IF Shown > 0 THEN kept ELSE Leading) % 2 = 1

\* A carry out of the fraction goes to the leading digit.
HexRounded ==
  LET cut == Sixteen ^ (HexDigits - Kept)
      kept == Fraction \div cut
      lost == cut > 1 /\ Fraction # 0
  IN  CASE lost /\ RoundsUpAt(kept, Fraction % cut, cut \div 2)
             -> IF kept + 1 >= Sixteen ^ Kept
                  THEN [leading |-> Leading + 1, frac |-> 0]
                  ELSE [leading |-> Leading, frac |-> kept + 1]
        [] OTHER -> [leading |-> Leading, frac |-> kept]

HexExp10 == CASE bits = 0 -> 0
              [] bits # 0 /\ bits < Hidden -> EMin
              [] OTHER -> bits \div Hidden - Bias

Hexadecimal ==
  /\ pc = "check" /\ Accepted /\ bits \in FiniteBits /\ kind = "a"
  /\ rounded' = HexRounded.leading * Sixteen ^ Kept + HexRounded.frac
  /\ exp10' = HexExp10
  /\ Answer("OK", Shown)
  /\ UNCHANGED <<spec, exactly>>
=============================================================================
