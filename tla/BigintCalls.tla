----------------------------- MODULE BigintCalls -----------------------------
(***************************************************************************)
(* What src/src/ryu64_bigint.c builds on the limb loops of BigintLimbs:    *)
(* ryu_bigint_mul_u64, which multiplies a number by a uint64_t in two      *)
(* parts and adds the products, and the text of a number                   *)
(* (ryu_bigint_decimal_len, ryu_bigint_to_decimal).                        *)
(*                                                                         *)
(* A product works on two numbers, *a and its copy hi_term.  The loops     *)
(* know one, so the two change places when it is the copy's turn.          *)
(***************************************************************************)
EXTENDS BigintLimbs, Texts, SequencesExt

CONSTANTS
  U32Max,       \* UINT32_MAX
  Factors,      \* the uint64_t factors
  OutCaps       \* the sizes of the callers' text buffers

ASSUME FactorsAssumption ==
  U32Max \in Nat /\ Base * U32Max <= Word /\ Factors \subseteq 0 .. Word - 1

ASSUME OutCapsAssumption == OutCaps \subseteq Nat

VARIABLES
  stage,        \* the part of the product under way, "none" between products
  factor,
  term,         \* the number that waits: hi_term, or *a while hi_term is worked on
  was           \* history: the number before

product == <<stage, factor, term, was>>

Current == [limb |-> limb, len |-> len]
NoTerm == [limb |-> Zeros, len |-> 1]
AtRest == UNCHANGED <<call, driver, m, loop, exact, pc, history>>

CInit == Init /\ stage = "none" /\ factor = 0 /\ term = NoTerm /\ was = 0

\* A factor of one limb needs one product; the high part of any other must be a uint32_t.
MulU64(w) ==
  /\ stage = "none" /\ pc = "idle"
  /\ factor' = w /\ was' = Number
  /\ \/ w < Base /\ MulSmall(w) /\ stage' = "last" /\ UNCHANGED term
     \/ w \div Base > U32Max /\ stage' = "refused" /\ AtRest /\ UNCHANGED <<number, term>>
     \/ /\ w >= Base /\ w \div Base <= U32Max
        /\ MulSmall(w % Base)
        /\ stage' = "low" /\ term' = Current

HighPart == /\ stage = "low" /\ pc = "idle"
            /\ limb' = term.limb /\ len' = term.len /\ term' = Current
            /\ stage' = "copied"
            /\ AtRest /\ UNCHANGED <<factor, was>>
MulHigh == /\ stage = "copied"
           /\ MulSmall(factor \div Base)
           /\ stage' = "high"
           /\ UNCHANGED <<factor, term, was>>

\* A slip: the high product is added as it stands.
MutMoved == Current
\* The high product counts Base times: one limb up, over a zero.
Moved == [limb |-> [k \in Index |-> IF k = 0 THEN 0 ELSE IF k <= len THEN limb[k - 1] ELSE limb[k]],
          len |-> len + 1]
MoveHigh == /\ stage = "high" /\ pc = "idle"
            /\ \/ ~IsZero /\ len + 1 > MaxLimbs /\ stage' = "refused" /\ UNCHANGED <<number, term>>
               \/ /\ limb' = term.limb /\ len' = term.len
                  /\ \/ IsZero /\ term' = NoTerm /\ stage' = "last"
                     \/ ~IsZero /\ len + 1 <= MaxLimbs /\ term' = Moved /\ stage' = "moved"
            /\ AtRest /\ UNCHANGED <<factor, was>>
AddHigh == /\ stage = "moved"
           /\ Add(term)
           /\ stage' = "last"
           /\ UNCHANGED <<factor, term, was>>

\* The product is done, and the number free for other calls.
EndProduct == /\ stage = "last" /\ pc = "idle"
              /\ stage' = "none" /\ factor' = 0 /\ term' = NoTerm /\ was' = 0
              /\ AtRest /\ UNCHANGED number

\* The loops go on in a product as in any other call; calls of their own wait for its end.
Loops == (pc = "idle" => stage = "none") /\ Next /\ UNCHANGED product

CNext == \/ \E w \in Factors : MulU64(w)
         \/ HighPart \/ MulHigh \/ MoveHigh \/ AddHigh \/ EndProduct \/ Loops

CSpec == CInit /\ [][CNext]_<<vars, product>>

---------------------------------------------------------------------------
\* The digits of v, n of them, the leading ones 0 where v has fewer.
Padded(v, n) == Spelled(v, Radix, n)
DigitsOf(limbValue) == 1 + Cardinality({k \in 1 .. BaseDigits - 1 : limbValue >= Radix ^ k})

Top == limb[len - 1]
\* ryu_bigint_decimal_len.
DecimalLen == IF IsZero THEN 1 ELSE DigitsOf(Top) + (len - 1) * BaseDigits

NoText == <<>>
\* A slip: limbs below the top are written without their leading zeros.
MutToDecimal(cap) ==
  LET top == Padded(Top, DigitsOf(Top))
  IN  IF cap < DecimalLen + 1 THEN NoText
      ELSE top \o FlattenSeq([k \in 1 .. len - 1 |->
             Padded(limb[len - 1 - k], DigitsOf(limb[len - 1 - k]))])

\* ryu_bigint_to_decimal, with a test of the room before each limb.
ToDecimal(cap) ==
  LET top == DigitsOf(Top)
      Room == /\ cap > 1 /\ (~IsZero => top <= cap - 1)
              /\ \A k \in 1 .. len - 1 : top + (k - 1) * BaseDigits + BaseDigits < cap
  IN  IF ~Room THEN NoText
      ELSE Padded(Top, top)
             \o FlattenSeq([k \in 1 .. len - 1 |-> Padded(limb[len - 1 - k], BaseDigits)])

\* ryu_bigint_to_decimal_fast: a number that comes back from ryu_bigint_to_u64 is
\* written from there (ryu_u64_to_dec), and the room tested afterwards: the callers'
\* buffers hold every uint64_t.
WordDigits(x) == CHOOSE n \in 1 .. BaseDigits * MaxLimbs :
                   x < Radix ^ n /\ (n = 1 \/ x >= Radix ^ (n - 1))
ToDecimalFast(cap) ==
  IF Number >= Word THEN ToDecimal(cap)
  ELSE IF cap = 0 \/ WordDigits(Number) + 1 > cap THEN NoText
  ELSE Padded(Number, WordDigits(Number))

---------------------------------------------------------------------------
TooLong == was * factor >= Power[MaxLimbs - 1] \/ factor > Base * U32Max

(***************************************************************************)
(* The product of a number and a uint64_t is the product, or is refused;   *)
(* and it is refused only if its parts, moved apart, do not leave a limb   *)
(* free, or if the factor has a high part of more than 32 bits.            *)
(***************************************************************************)
MultipliesByWord ==
  /\ stage = "last" /\ pc = "idle" => Number = was * factor
  /\ stage = "refused" \/ (stage # "none" /\ pc = "refused") => TooLong

(***************************************************************************)
(* Why it is: the two parts of the factor, and what *a and hi_term hold    *)
(* between the calls.                                                      *)
(***************************************************************************)
LowFactor == factor % Base
HighFactor == factor \div Base
Worth(x) == Value(x.limb, x.len)
IsNumber(x) == x \in [limb : Arrays, len : 1 .. MaxLimbs] /\ Proper(x.limb, x.len)

\* Under way or done: ryu_bigint_mul_small of the number v.
Multiplying(v, w) == IF pc = "idle" THEN Number = v * w
                     ELSE op = "mulSmall" /\ start = v /\ arg = w
\* And ryu_bigint_add of the shifted product.
Adding(sum) == /\ op = "add" /\ start + Worth(b) = sum
               /\ pc = "refused" => sum >= Power[MaxLimbs - 1]

ProductInv ==
  /\ stage \in {"none", "low", "copied", "high", "moved", "last", "refused"}
  /\ stage # "none" => pc \notin {"new", "lost"} /\ was \in Nat /\ factor \in Factors
  /\ stage \in {"low", "copied", "high", "moved"} => IsNumber(term) /\ HighFactor <= U32Max
  /\ stage = "low" => Multiplying(was, LowFactor) /\ Worth(term) = was
  /\ stage = "copied" => pc = "idle" /\ Number = was /\ Worth(term) = was * LowFactor
  /\ stage = "high" => Multiplying(was, HighFactor) /\ Worth(term) = was * LowFactor
  /\ stage = "moved" => /\ pc = "idle" /\ Number = was * LowFactor /\ MaxLimbs > 1
                        /\ Worth(term) = Base * (was * HighFactor)
  /\ stage = "last" => Multiplying(was, factor) \/ (pc # "idle" /\ Adding(was * factor))
  /\ stage = "refused" => pc = "idle" /\ TooLong

CInv == IInv /\ RefusesOnlyTooLarge /\ ProductInv

(***************************************************************************)
(* The text of a number spells it, in exactly the digits that              *)
(* ryu_bigint_decimal_len counts, by whichever of the two ways it is       *)
(* written; and it is refused only if it and the zero after it have no     *)
(* room.                                                                   *)
(***************************************************************************)
WritesTheNumber ==
  pc = "idle" => \A cap \in OutCaps :
    LET text == ToDecimal(cap)
    IN  /\ text = ToDecimalFast(cap)
        /\ text = NoText <=> DecimalLen + 1 > cap
        /\ text # NoText => Len(text) = DecimalLen /\ ValueOf(text, Radix) = Number
=============================================================================
