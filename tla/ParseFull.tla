----------------------------- MODULE ParseFull ------------------------------
(***************************************************************************)
(* ryu64_from_decimal_full (src/src/ryu64_parse_full.c): the lexer of      *)
(* DecimalLex, then one conversion of what it read.  The steps of the      *)
(* lexer are those of DecimalLex; once it is done one action stands for    *)
(* each way out of ryu64_from_decimal_full.                                *)
(*                                                                         *)
(* The sizes of binary64, of the tables and of the bigint are constants.   *)
(* A bigint holds the numbers up to SigMax and an operation that would     *)
(* exceed it fails, as the C functions report by returning 0.  The two     *)
(* bit-by-bit long divisions of the code are written as divisions of       *)
(* integers.  Signs take no part in a conversion: a result carries the     *)
(* bits of the magnitude.                                                  *)
(***************************************************************************)
EXTENDS DecimalLex, BinaryFormat, Words

CONSTANTS
  LemireDigits,     \* RYU_PARSE_TINY_MAX_SIG_DIGITS                  (19)
  LemireMinExp10,   \* RYU_EISEL_LEMIRE_MIN_EXP10                   (-342)
  LemireMaxExp10,   \* RYU_EISEL_LEMIRE_MAX_EXP10                    (308)
  FastExp10,        \* RYU_PARSE_FAST_MAX_POS_EXP10, _NEG_            (38)
  MinDecExp10,      \* below this decimal exponent a number is 0    (-325)
  MaxDecExp10,      \* above this one it is infinite                 (309)
  SettledExp10,     \* up to this the truncated resolver takes one bound (-350)
  MaxDigits,        \* more decimal digits than any number below has
  MaxBits           \* and more binary ones

ASSUME ParseAssumption == /\ LemireDigits \in Nat /\ FastExp10 \in Nat
                          /\ U64Max = Word - 1 /\ Word = 2 ^ WordBits /\ Prec + 2 <= WordBits
                          /\ LemireMinExp10 \in Int /\ LemireMaxExp10 \in Int
                          /\ MinDecExp10 \in Int /\ MaxDecExp10 \in Nat /\ SettledExp10 \in Int
                          /\ 10 ^ LemireDigits <= Word

ASSUME SizeAssumption == /\ MaxDigits \in Nat /\ MaxBits \in Nat /\ MaxDigits <= MaxBits
                         /\ WordBits <= MaxBits /\ UnitExp <= MaxBits
                         /\ MaxDecExp10 < MaxDigits /\ LemireDigits <= MaxDigits
                         /\ SigMax < 10 ^ MaxDigits /\ SigMax < 2 ^ MaxBits
                         /\ PowersUpTo(10, MaxDigits) /\ PowersUpTo(5, MaxDigits) /\ PowersUpTo(2, MaxBits)

VARIABLE result

\* The numbers of decimal and of binary digits of n.
DecimalLen(n) == CHOOSE k \in 1 .. MaxDigits : 10 ^ k > n /\ (k > 1 => 10 ^ (k - 1) <= n)
BitLen(n) == CHOOSE k \in 0 .. MaxBits : 2 ^ k > n /\ (k > 0 => 2 ^ (k - 1) <= n)

Magnitude(status, bits) == [status |-> status, bits |-> bits]
None == Magnitude("none", 0)
Overflowed == Magnitude("OVERFLOW", InfBits)
Underflowed == Magnitude("UNDERFLOW", 0)
OutOfRange == Magnitude("OUT_OF_RANGE", 0)
Rounded(inexact, bits) == Magnitude(IF inexact THEN "INEXACT" ELSE "OK", bits)

\* The number of which an integer significand mant of Prec bits leads at 2^q.
Assemble(mant, q) == (q + Bias) * Hidden + (mant % Hidden)

---------------------------------------------------------------------------
(* ryu_eisel_lemire_to_double *)

\* ryu64_pow5_128: the leading 2 * WordBits bits of 5^q, rounded up for q < 0.
Pow5Table(q) ==
  LET entry == IF q >= 0
                 THEN LET n == BitLen(5 ^ q)
                      IN  IF n <= 2 * WordBits THEN 5 ^ q * 2 ^ (2 * WordBits - n)
                                               ELSE 5 ^ q \div 2 ^ (n - 2 * WordBits)
                 ELSE 2 ^ (2 * WordBits - 1 + BitLen(5 ^ (-q))) \div 5 ^ (-q) + 1
  IN  Pair(entry \div Word, entry % Word)

\* (q * 217706) >> 16
BinaryExp(q) == (q * 217706) \div 65536

\* The table holds pairs of words, and for each exponent that the 128-bit path would
\* take; a word times such a power of ten is no smaller than the normal numbers.
ASSUME LemireAssumption ==
  /\ \A q \in LemireMinExp10 .. LemireMaxExp10 : Pow5Table(q) \in Pairs
  /\ LemireMinExp10 <= -FastExp10 /\ FastExp10 <= LemireMaxExp10
  /\ EMin <= BinaryExp(-FastExp10)

Lemire(m, q) ==
  LET lz == WordBits - WordLen(m)
      z == WideProduct(m * 2 ^ lz, Pow5Table(q))
      upper == z.hi \div 2 ^ (WordBits - 1)
      shift == WordBits - (Prec + 2) + upper
      roundBit == (z.hi \div 2 ^ shift) % 2 = 1
      sticky == z.hi % 2 ^ shift # 0 \/ z.mid # 0 \/ z.lo # 0
      down == z.hi \div 2 ^ (shift + 1)
      near == IF roundBit /\ (sticky \/ down % 2 = 1) THEN down + 1 ELSE down
      carry == near >= 2 ^ Prec
      power2 == BinaryExp(q) + WordBits - 1 - lz + upper + (IF carry THEN 1 ELSE 0)
  IN  CASE power2 > EMax -> Overflowed
        [] power2 < EMin -> OutOfRange
        [] OTHER -> Rounded(roundBit \/ sticky,
                            Assemble(IF carry THEN near \div 2 ELSE near, power2))

---------------------------------------------------------------------------
(* ryu_convert_ratio_to_double and what it calls: num / den * 2^exp2.      *)

\* ryu_floor_log2_ratio
FloorLog2Ratio(num, den) ==
  IF num >= den THEN BitLen(num \div den) - 1
                ELSE -BitLen((den - 1) \div num)

\* ryu_round_rational_shift_to_u64, and how the subnormal branch uses it.
RoundSubnormal(num, den, shift) ==
  LET n == IF shift >= 0 THEN num * 2 ^ shift ELSE num
      d == IF shift >= 0 THEN den ELSE den * 2 ^ (-shift)
      down == n \div d
      rest == n % d
      sub == IF 2 * rest > d \/ (2 * rest = d /\ down % 2 = 1) THEN down + 1 ELSE down
  IN  CASE n > SigMax \/ d > SigMax \/ 2 * rest > SigMax -> OutOfRange
        [] ~(n > SigMax \/ d > SigMax \/ 2 * rest > SigMax) /\ sub = 0 -> Underflowed
        [] OTHER -> Rounded(rest # 0, sub)

\* The loop of the normal branch: Prec - 1 fraction bits, guard and round bit.
RoundNormal(num, den, q, qTotal) ==
  LET n == IF q >= 0 THEN num ELSE num * 2 ^ (-q)
      d == IF q >= 0 THEN den * 2 ^ q ELSE den
      RemAfter(i) == (n * 2 ^ i) % d
      all == (n * 2 ^ (Prec + 1)) \div d
      guard == (all \div 2) % 2 = 1
      inexact == all % 4 # 0 \/ RemAfter(Prec + 1) # 0
      down == all \div 4
      near == IF guard /\ (all % 2 = 1 \/ RemAfter(Prec + 1) # 0 \/ down % 2 = 1)
                THEN down + 1 ELSE down
      carry == near = 2 ^ Prec
      qEnd == IF carry THEN qTotal + 1 ELSE qTotal
  IN  IF n > SigMax \/ \E i \in 0 .. Prec : 2 * RemAfter(i) > SigMax
        THEN OutOfRange
        ELSE IF qEnd > EMax THEN Overflowed
                            ELSE Rounded(inexact, Assemble(IF carry THEN near \div 2 ELSE near, qEnd))

ConvertRatio(num, den, exp2) ==
  LET q == FloorLog2Ratio(num, den)
      qTotal == q + exp2
  IN  CASE qTotal > EMax -> Overflowed
        [] qTotal < EMin -> RoundSubnormal(num, den, UnitExp + exp2)
        [] OTHER -> RoundNormal(num, den, q, qTotal)

---------------------------------------------------------------------------
(* ryu_convert_decimal_bigint_to_double *)

\* How often n can be divided by f exactly, limit times at most.
Divisions(n, f, limit) == CHOOSE k \in 0 .. limit : /\ n % f ^ k = 0
                                                    /\ k < limit => n % f ^ (k + 1) # 0

\* num * 5^e * 2^e for e >= 0.
ConvertPositive(num, e) ==
  IF num * 5 ^ e > SigMax THEN Overflowed ELSE ConvertRatio(num * 5 ^ e, 1, e)

\* Slips that the properties below must notice: the factors of two forgotten
\* in the exponent; a denominator that is not split into fives and twos.
MutConvertNegative(num, a) ==
  LET fives == Divisions(num, 5, a)
      odd5 == num \div 5 ^ fives
      twos == Divisions(odd5, 2, a)
      den == 5 ^ (a - fives)
  IN  IF den > SigMax THEN OutOfRange ELSE ConvertRatio(odd5 \div 2 ^ twos, den, -a)

MutUnsplit(num, a) ==
  IF 10 ^ a > SigMax THEN OutOfRange ELSE ConvertRatio(num, 10 ^ a, 0)

\* num / (5^a * 2^a), common factors of 5 and of 2 cancelled.
ConvertNegative(num, a) ==
  LET fives == Divisions(num, 5, a)
      odd5 == num \div 5 ^ fives
      twos == Divisions(odd5, 2, a)
      den == 5 ^ (a - fives)
  IN  IF den > SigMax THEN OutOfRange ELSE ConvertRatio(odd5 \div 2 ^ twos, den, twos - a)

ConvertBigint(kept, increment, e) ==
  LET num == kept + increment
      dec == DecimalLen(num) - 1 + e
      tens == IF e < 0 THEN Divisions(num, 10, -e) ELSE 0
      n == num \div 10 ^ tens
  IN  IF num > SigMax THEN OutOfRange
      ELSE CASE dec > MaxDecExp10 -> Overflowed
             [] dec < MinDecExp10 -> Underflowed
             [] OTHER -> IF e + tens >= 0 THEN ConvertPositive(n, e + tens)
                                          ELSE ConvertNegative(n, -(e + tens))

---------------------------------------------------------------------------
(* ryu_resolve_truncated_decimal *)

KeptExp10 == exp10 + dropped
LowerBound == ConvertBigint(sig, 0, KeptExp10)
UpperBound == ConvertBigint(sig, 1, KeptExp10)

IsValue(r) == r.status \in {"OK", "INEXACT"}
IsValueOrRange(r) == IsValue(r) \/ r.status \in {"OVERFLOW", "UNDERFLOW"}

\* Both bounds are values or ranges: the merged answer.
Merge(lo, hi) ==
  CASE lo.bits # hi.bits -> OutOfRange
    [] lo.bits = hi.bits /\ "OVERFLOW" \in {lo.status, hi.status} -> Overflowed
    [] lo.bits = hi.bits /\ "OVERFLOW" \notin {lo.status, hi.status}
         /\ "UNDERFLOW" \in {lo.status, hi.status} -> Underflowed
    [] OTHER -> Rounded("INEXACT" \in {lo.status, hi.status}, lo.bits)

MutResolved == LowerBound

Resolved ==
  CASE ~droppedNonzero -> LowerBound
    [] droppedNonzero /\ IsValue(LowerBound) /\ KeptExp10 <= SettledExp10
         -> Rounded(TRUE, LowerBound.bits)
    [] OTHER -> IF IsValueOrRange(LowerBound) /\ IsValueOrRange(UpperBound)
                  THEN Merge(LowerBound, UpperBound) ELSE OutOfRange

---------------------------------------------------------------------------
(* ryu64_from_decimal_full *)

DecExp10 == sigDigits - 1 + exp10
FitsWord == ~truncated /\ sigDigits > 0 /\ sigDigits <= LemireDigits

MutTriesLemire == /\ ~truncated /\ 0 < sigDigits /\ sigDigits < LemireDigits
                  /\ LemireMinExp10 <= exp10 /\ exp10 <= LemireMaxExp10

\* The Eisel-Lemire path is tried, and it answers.
TriesLemire == FitsWord /\ LemireMinExp10 <= exp10 /\ exp10 <= LemireMaxExp10
LemireAnswers == TriesLemire /\ Lemire(sig, exp10) # OutOfRange

PInit == Init /\ result = None

Lex == result = None /\ Next /\ UNCHANGED result

Return(r) == result' = r /\ UNCHANGED vars

Invalid == /\ result = None /\ outcome = "invalid"
           /\ Return(Magnitude("INVALID", 0))

Special == /\ result = None
           /\ \/ outcome = "inf" /\ Return(Magnitude("OK", InfBits))
              \/ outcome = "nan" /\ Return(Magnitude("OK", InfBits + Hidden \div 2))

Zero == /\ result = None /\ outcome = "number" /\ ~sawNonzero
        /\ Return(Magnitude("OK", 0))

EiselLemire == /\ result = None /\ outcome = "number" /\ sawNonzero /\ LemireAnswers
               /\ Return(Lemire(sig, exp10))

\* Past Eisel-Lemire; the 128-bit path that follows is never entered (FastPathIdle).
PastLemire == result = None /\ outcome = "number" /\ sawNonzero /\ ~LemireAnswers

TooLarge == PastLemire /\ DecExp10 > MaxDecExp10 /\ Return(Overflowed)

TooSmall == PastLemire /\ DecExp10 < MinDecExp10 /\ Return(Underflowed)

ResolveTruncated == /\ PastLemire /\ DecExp10 \in MinDecExp10 .. MaxDecExp10
                    /\ truncated
                    /\ Return(Resolved)

ConvertExactly == /\ PastLemire /\ DecExp10 \in MinDecExp10 .. MaxDecExp10
                  /\ ~truncated
                  /\ Return(ConvertBigint(sig, 0, exp10))

PNext == \/ Lex \/ Invalid \/ Special \/ Zero \/ EiselLemire
         \/ TooLarge \/ TooSmall \/ ResolveTruncated \/ ConvertExactly

PSpec == PInit /\ [][PNext]_<<vars, result>>
---------------------------------------------------------------------------
(* The number the whole text spells, nothing dropped and no exponent capped. *)
Correct == Nearest(exact, TrueExp10)

Answered == outcome = "number" /\ result # None
HasValue == Answered /\ result.status # "OUT_OF_RANGE"

(***************************************************************************)
(* Where the two shortcuts of the code look away: Eisel-Lemire on a tie    *)
(* with a negative exponent, whose table entry was rounded up; and digits  *)
(* dropped behind a tie, where the resolver settles for the lower bound.   *)
(***************************************************************************)
LemireTie == TriesLemire /\ exp10 < 0 /\ IsTie(sig, exp10)
DroppedTie == truncated /\ droppedNonzero /\ IsTie(sig, KeptExp10)

(***************************************************************************)
(* The answer is the number nearest to the text, ties to even, whatever    *)
(* path the text takes; beside the two kinds of ties above it may only be  *)
(* off by one place, on the side that the shortcut leans to.               *)
(***************************************************************************)
NearestUnlessTie ==
  HasValue => \/ result.bits = Correct
              \/ LemireTie /\ result.bits = Correct + 1
              \/ DroppedTie /\ result.bits = Correct - 1

\* Status OK promises that nothing was lost: the text spells the answer.
OkIsExact == Answered /\ result.status = "OK" => IsExactly(exact, TrueExp10, result.bits)

\* All the digits of a bigint but two, and the largest power of ten that a number of so
\* many digits is divided by and still not below the least exponent.
ShortDigits == DecimalLen(SigMax) - 2
LongestExp10 == ShortDigits - 1 - MinDecExp10

(***************************************************************************)
(* A bigint has room for the largest number that is no overflow, and for   *)
(* denominators: of the smallest numbers of ShortDigits digits, times the  *)
(* significand that the quotient is shifted to, and in the units of the    *)
(* format.  binary64 has it with 96 limbs or more, so in every build.       *)
(***************************************************************************)
ASSUME CapacityAssumption ==
  /\ EMin <= 0 /\ LongestExp10 \in 0 .. MaxDigits
  /\ 10 ^ (MaxDecExp10 + 1) <= SigMax
  /\ Hidden * 5 ^ LongestExp10 <= SigMax
  /\ LongestExp10 > UnitExp => 2 * (5 ^ LongestExp10 * 2 ^ (LongestExp10 - UnitExp)) <= SigMax

(***************************************************************************)
(* A number is refused as OUT_OF_RANGE only when its digits (all but one   *)
(* of them) fill a bigint: shorter texts always get their number, however  *)
(* the divisions and shifts of the conversion grow.                        *)
(***************************************************************************)
RefusesOnlyLong ==
  Answered /\ result.status = "OUT_OF_RANGE" => sigDigits >= DecimalLen(SigMax) - 1

(***************************************************************************)
(* Eisel-Lemire answers for every number that the 128-bit path would       *)
(* accept, so that path is never entered.                                  *)
(***************************************************************************)
FastPathIdle == PastLemire /\ FitsWord => exp10 \notin -FastExp10 .. FastExp10
(***************************************************************************)
(* "Converts w * 10^q to the nearest IEEE-754 binary64" (the comment on    *)
(* ryu_eisel_lemire_to_double) and "128-bit precision is always            *)
(* sufficient" (README): what Eisel-Lemire answers is the nearest number.  *)
(***************************************************************************)
LemireIsNearest == Answered /\ sawNonzero /\ LemireAnswers => result.bits = Correct

(***************************************************************************)
(* "returns a value only when both bounds map to the same binary64 result" *)
(* (README, on the truncated-interval resolver).                           *)
(***************************************************************************)
ResolvedByBothBounds ==
  Answered /\ truncated /\ droppedNonzero /\ IsValue(result)
    => LowerBound.bits = UpperBound.bits
=============================================================================
