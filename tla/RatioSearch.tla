---------------------------- MODULE RatioSearch -----------------------------
(***************************************************************************)
(* How ryu_convert_ratio_to_double brings a ratio of two bigints into the  *)
(* range that LongDivision divides: ryu_floor_log2_ratio searches for the  *)
(* largest q with 2^q <= num / den by steps of halving size, bounded by    *)
(* the lengths of the numbers in limbs, and the shift by q follows         *)
(* (src/src/ryu64_parse_full.c).  The division then runs in the same       *)
(* behaviour; until it does, its operands stand for the ratio 1.           *)
(***************************************************************************)
EXTENDS LongDivision, Powers

CONSTANTS
  LimbBase,     \* RYU_BIGINT_BASE                                    (10^9)
  LimbBits,     \* the bits of a limb as the bounds count them        (30)
  MaxLimbs,     \* RYU_BIGINT_MAX_LIMBS
  MaxPosQ,      \* kMaxPosQ, more than 1092 limbs have bits          (32767)
  MaxNegQ       \* kMaxNegQ                                           (32768)

ASSUME LimbAssumption == /\ LimbBase \in Nat /\ LimbBits \in Nat /\ LimbBase <= 2 ^ LimbBits
                         /\ LimbBase > 1 /\ MaxLimbs \in Nat \ {0}
ASSUME NumbersAssumption == /\ SigMax < LimbBase ^ MaxLimbs
                            /\ Operands \subseteq 1 .. SigMax /\ 1 \in Operands
\* No ratio of two bigints reaches the limits of the search.
ASSUME SearchAssumption == /\ MaxPosQ \in Nat /\ MaxLimbs * LimbBits <= MaxPosQ
                           /\ MaxNegQ \in Nat /\ MaxLimbs * LimbBits <= MaxNegQ
ASSUME PowersAssumption == /\ PowersUpTo(LimbBase, MaxLimbs)
                           /\ PowersUpTo(2, 2 * (MaxLimbs * LimbBits))

VARIABLES
  n, d,         \* num and den as they are given
  stage,
  q, step, cur

search == <<n, d, stage, q, step, cur>>
divider == vars

---------------------------------------------------------------------------
LimbLen(x) == CHOOSE k \in 1 .. MaxLimbs : x < LimbBase ^ k /\ (k > 1 => LimbBase ^ (k - 1) <= x)
Clamped(x, most) == CASE x < 1 -> 1 [] x > most -> most [] OTHER -> x

\* q_bound and t_bound
UpBound == Clamped((LimbLen(n) - LimbLen(d)) * LimbBits + LimbBits - 1, MaxPosQ)
DownBound == Clamped((LimbLen(d) - LimbLen(n)) * LimbBits + LimbBits, MaxNegQ)

\* step is doubled until it is more than half of the bound.
FirstStep(bound) == CHOOSE s \in {2 ^ k : k \in 0 .. bound} : s <= bound /\ bound < 2 * s

SInit == /\ Init /\ num = 1 /\ den = 1
         /\ n \in Operands /\ d \in Operands
         /\ stage = "start" /\ q = 0 /\ step = 0 /\ cur = 0

StartUp == /\ stage = "start" /\ n >= d
           /\ cur' = d /\ step' = FirstStep(UpBound) /\ stage' = "up"
           /\ UNCHANGED <<n, d, q, divider>>

StartDown == /\ stage = "start" /\ n < d
             /\ cur' = n /\ step' = FirstStep(DownBound) /\ stage' = "down"
             /\ UNCHANGED <<n, d, q, divider>>

\* ryu_bigint_shl_bits succeeds.
Fits(x) == x <= SigMax

Probe == /\ stage \in {"up", "down"} /\ step > 0
         /\ step' = step \div 2
         /\ UNCHANGED <<n, d, stage, divider>>

\* A slip: the bound itself is not tried.
MutUpHit == q < UpBound - step /\ Fits(cur * 2 ^ step) /\ n >= cur * 2 ^ step

\* The candidate is still on the near side; one that does not fit is not.
UpHit == q <= UpBound - step /\ Fits(cur * 2 ^ step) /\ n >= cur * 2 ^ step
DownHit == q <= DownBound - step /\ Fits(cur * 2 ^ step) /\ cur * 2 ^ step < d
Hit == IF stage = "up" THEN UpHit ELSE DownHit

Take == /\ Probe /\ Hit
        /\ q' = q + step /\ cur' = cur * 2 ^ step

Pass == /\ Probe /\ ~Hit
        /\ UNCHANGED <<q, cur>>

SearchEnd == /\ stage \in {"up", "down"} /\ step = 0
             /\ q' = CASE stage = "up" -> q
                       [] stage = "down" /\ q = MaxNegQ -> -MaxNegQ
                       [] OTHER -> -(q + 1)
             /\ stage' = "found"
             /\ UNCHANGED <<n, d, step, cur, divider>>

\* den_norm or rem is shifted.
ShiftedNum == IF q >= 0 THEN n ELSE n * 2 ^ (-q)
ShiftedDen == IF q >= 0 THEN d * 2 ^ q ELSE d
CanShift == Fits(ShiftedNum) /\ Fits(ShiftedDen) /\ ShiftedNum >= ShiftedDen

Normalize == /\ stage = "found" /\ CanShift
             /\ num' = ShiftedNum /\ den' = ShiftedDen /\ stage' = "divide"
             /\ UNCHANGED <<n, d, q, step, cur, pc, i, rem, frac, scale, guard, roundBit, answer>>

ShiftFails == /\ stage = "found" /\ ~CanShift
              /\ stage' = "out_of_range"
              /\ UNCHANGED <<n, d, q, step, cur, divider>>

Divide == stage = "divide" /\ Next /\ UNCHANGED search

SNext == \/ StartUp \/ StartDown \/ Take \/ Pass \/ SearchEnd
         \/ Normalize \/ ShiftFails \/ Divide
SSpec == SInit /\ [][SNext]_<<search, divider>>

---------------------------------------------------------------------------
\* 2^e <= n / d < 2^(e + 1)
IsFloorLog2(e) == IF e >= 0 THEN d * 2 ^ e <= n /\ n < d * 2 ^ (e + 1)
                  ELSE d <= n * 2 ^ (-e) /\ n * 2 ^ (-e) < 2 * d

(***************************************************************************)
(* The search ends at the power of two just below the ratio, on either     *)
(* side of 1 and whichever of its candidates do not fit a bigint; so the   *)
(* division gets a ratio in [1, 2) of the same two numbers.  A ratio is    *)
(* refused only if the number scaled up to the other outgrows a bigint.    *)
(***************************************************************************)
SearchNormalizes ==
  /\ stage \in {"found", "divide", "out_of_range"} => IsFloorLog2(q)
  /\ stage = "divide" => den <= num /\ num < 2 * den
  /\ stage = "out_of_range" => q < 0 /\ n * 2 ^ (-q) > SigMax

---------------------------------------------------------------------------
\* How far above q the power of two looked for may still be.
Window == IF step = 0 THEN 1 ELSE 2 * step
Steps(bound) == {0} \cup {2 ^ k : k \in 0 .. bound}

\* cur is the smaller of the two numbers shifted by q, and not past the other.
Narrowed(small, large, bound) ==
  /\ q \in 0 .. bound /\ step \in Steps(bound) /\ q + Window <= 2 * bound
  /\ cur = small * 2 ^ q /\ cur <= large

\* The invariant behind the theorems of LongDivision_proof on the search, together with
\* the one of the division it leads to: q is not past the power of two looked for, and
\* q + Window is.
SearchInv ==
  /\ IInv /\ SearchNormalizes
  /\ n \in Operands /\ d \in Operands
  /\ stage \in {"start", "up", "down", "found", "divide", "out_of_range"}
  /\ stage # "divide" => num = 1 /\ den = 1 /\ pc = "subtract" /\ scale = 1 /\ frac = 0
  /\ stage = "start" => q = 0
  /\ stage = "up" => n >= d /\ Narrowed(d, n, UpBound) /\ n < d * 2 ^ (q + Window)
  /\ stage = "down" => /\ n < d /\ Narrowed(n, d, DownBound)
                       /\ cur < d /\ d <= n * 2 ^ (q + Window)
  /\ stage = "found" => q \in -(MaxLimbs * LimbBits) .. MaxLimbs * LimbBits
=============================================================================
