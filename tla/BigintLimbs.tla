----------------------------- MODULE BigintLimbs -----------------------------
(***************************************************************************)
(* The limb loops of ryu_bigint (src/src/ryu64_bigint.c and                *)
(* ryu_bigint_mul10_add_digit of src/src/ryu64_parse_full.c), one action   *)
(* per turn of a loop: the carries and borrows between limbs, the limbs    *)
(* appended and stripped, and the refusals when no limb is left.  One      *)
(* number is worked on by one call after the other.                        *)
(*                                                                         *)
(* limb[0] is the least significant limb; limbs at len and above hold      *)
(* whatever earlier calls, or the stack, left there.  Index bounds are the *)
(* point, so every access is guarded by what the code knows and nothing    *)
(* else; TypeOK says it suffices.                                          *)
(***************************************************************************)
EXTENDS Powers, Sequences

CONSTANTS
  Base,         \* RYU_BIGINT_BASE
  BaseDigits,   \* RYU_BIGINT_BASE_DIGITS: Base = Radix ^ BaseDigits
  Radix,        \* ten
  MaxLimbs,     \* RYU_BIGINT_MAX_LIMBS
  Word,         \* 2^64
  Garbage,      \* what uninitialized limbs hold
  Words,        \* numbers given to ryu_bigint_from_u64
  Smalls,       \* multipliers, divisors and addends of one limb
  AppendedDigits,  \* digits appended
  Operands,     \* second operands of add and sub, as records of limb and len
  Exponents,    \* exponents of mul_pow5, shl_bits, mul_pow10, div_pow10_floor
  Tables,       \* bg_pow5_small and 1 << 1 .. 1 << 29, from the power 1 on
  Pow10Small,   \* bg_pow10_small, from the power 1 on
  MaxExponent   \* bound: no exponent is larger

Index == 0 .. MaxLimbs - 1
Limb == 0 .. Base - 1
Arrays == [Index -> Limb]

ASSUME SizesAssumption ==
  /\ Base \in Nat /\ Base > 1
  /\ MaxLimbs \in Nat \ {0}
  /\ Word \in Nat /\ Base * Base <= Word /\ Words \subseteq 0 .. Word - 1
  /\ Radix \in 2 .. Base /\ AppendedDigits \subseteq 0 .. Radix - 1
  /\ BaseDigits \in Nat \ {0} /\ Base = Radix ^ BaseDigits
  /\ MaxExponent \in Nat /\ BaseDigits * MaxLimbs <= MaxExponent
  /\ Exponents \subseteq 0 .. MaxExponent
  /\ Garbage \in Arrays

\* uint32_t operands: the product of one with a limb, carry included, fits a uint64_t.
IsSmall(s) == s \in Nat /\ Base * s <= Word
ASSUME SmallsAssumption ==
  /\ \A s \in Smalls : IsSmall(s)
  /\ \A t \in Tables \cup {Pow10Small} :
       t \in Seq(Nat) /\ \A k \in 1 .. Len(t) : t[k] > 1 /\ IsSmall(t[k])
  /\ \A t \in Tables : Len(t) > 0
  /\ Len(Pow10Small) = BaseDigits - 1

\* Powers are products, and the tables hold powers.
ASSUME PowersAssumption ==
  /\ PowersUpTo(Base, MaxLimbs) /\ PowersUpTo(Radix, MaxExponent)
  /\ \A t \in Tables : PowersUpTo(t[1], MaxExponent) /\ \A k \in 1 .. Len(t) : t[k] = t[1] ^ k
  /\ \A k \in 1 .. Len(Pow10Small) : Pow10Small[k] = Radix ^ k

\* A number between calls: at least one limb, and none of them a leading zero.
Proper(l, n) == n \in 1 .. MaxLimbs /\ (n = 1 \/ l[n - 1] # 0)
ASSUME OperandsAssumption ==
  Operands \subseteq {x \in [limb : Arrays, len : 1 .. MaxLimbs] : Proper(x.limb, x.len)}

(***************************************************************************)
(* What the limbs of an array mean: Value(l, n) is the number that limbs   *)
(* 0 .. n-1 of l spell.                                                    *)
(***************************************************************************)
Power == [k \in 0 .. MaxLimbs |-> Base ^ k]
Sums(l) == LET upTo[k \in 0 .. MaxLimbs] == IF k = 0 THEN 0 ELSE upTo[k - 1] + l[k - 1] * Power[k - 1]
           IN  upTo
Value(l, n) == Sums(l)[n]

VARIABLES
  limb, len,    \* *a
  op, b, arg,   \* the call under way and its arguments
  table, left,  \* mul_pow5 and shl_bits: the powers and the exponent still to do
  shift,        \* mul_pow10: whole limbs still to insert
  m,            \* the factor or divisor of the loop under way
  i, carry,     \* of the loop under way; carry also borrow, remainder or uint64_t
  exact,        \* *remainder_is_zero
  pc,
  old,          \* history: the limbs when the loop began, zero from len on
  start,        \* history: the number when the call began
  want          \* history: the number the loop under way has to leave

number == <<limb, len>>
call == <<op, b, arg>>
driver == <<table, left, shift>>
loop == <<i, carry>>
history == <<old, start, want>>
vars == <<limb, len, op, b, arg, table, left, shift, m, i, carry, exact, pc, old, start, want>>

Number == Value(limb, len)
IsZero == len = 1 /\ limb[0] = 0
Zeros == [k \in Index |-> 0]
Cleaned == [k \in Index |-> IF k < len THEN limb[k] ELSE 0]
\* A slip: any smaller limb decides.
MutLessThan(x) == len < x.len \/ (len = x.len /\ \E k \in 0 .. len - 1 : limb[k] < x.limb[k])
\* ryu_bigint_cmp(a, b) < 0.
LessThan(x) ==
  \/ len < x.len
  \/ /\ len = x.len
     /\ \E k \in 0 .. len - 1 : /\ limb[k] < x.limb[k]
                                /\ \A j \in k + 1 .. len - 1 : limb[j] = x.limb[j]

---------------------------------------------------------------------------
\* Between calls the variables of a call have no value; 0 stands for that.
Init == /\ limb = Garbage /\ len = 0
        /\ op = "none" /\ b = [limb |-> Zeros, len |-> 1] /\ arg = 0
        /\ table = <<>> /\ left = 0 /\ shift = 0 /\ m = 0
        /\ i = 0 /\ carry = 0 /\ exact = TRUE
        /\ pc = "new" /\ old = Zeros /\ start = 0 /\ want = 0

\* Call o with argument x, going to where.
Begin(o, x, where) == /\ pc = "idle"
                      /\ op' = o /\ arg' = x
                      /\ pc' = where
                      /\ old' = Cleaned /\ start' = Number

\* ryu_bigint_from_u64.
FromU64(x) ==
  /\ pc \in {"new", "idle"}
  /\ op' = "fromU64" /\ arg' = x
  /\ want' = x
  /\ \/ x = 0 /\ len' = 1 /\ limb' = [limb EXCEPT ![0] = 0] /\ pc' = "done" /\ UNCHANGED loop
     \/ x # 0 /\ len' = 0 /\ i' = 0 /\ carry' = x /\ pc' = "append" /\ UNCHANGED limb
  /\ UNCHANGED <<b, driver, m, exact, old, start>>

\* ryu_bigint_mul_small(a, s).
MulSmall(s) == /\ Begin("mulSmall", s, "factors")
               /\ table' = <<s>> /\ left' = 1 /\ want' = Number
               /\ UNCHANGED <<number, b, shift, m, loop, exact>>

\* ryu_bigint_mul_pow5 and ryu_bigint_shl_bits.
MulPower(t, p) == /\ Begin("mulPower", p, "factors")
                  /\ table' = t /\ left' = p /\ want' = Number
                  /\ UNCHANGED <<number, b, shift, m, loop, exact>>

\* ryu_bigint_mul_pow10: p % 9 digits by a product, p / 9 limbs by a move.
MulPow10(p) == /\ Begin("mulPow10", p, "factors")
               /\ table' = Pow10Small /\ left' = p % BaseDigits /\ shift' = p \div BaseDigits
               /\ want' = Number
               /\ UNCHANGED <<number, b, m, loop, exact>>

\* A slip: the last limb may be used up by a carry.
MutAppendDigit(d) == /\ Begin("append", d, "mul")
                     /\ m' = Radix /\ i' = 0 /\ carry' = d
                     /\ want' = Number * Radix + d
                     /\ UNCHANGED <<number, b, driver, exact>>

\* ryu_bigint_mul10_add_digit: a full number is probed before it is touched.
AppendDigit(d) == /\ Begin("append", d, IF len = MaxLimbs THEN "probe" ELSE "mul")
                  /\ m' = Radix /\ i' = 0 /\ carry' = d
                  /\ want' = Number * Radix + d
                  /\ UNCHANGED <<number, b, driver, exact>>

AddSmall(s) == /\ Begin("addSmall", s, "addSmall")
               /\ i' = 0 /\ carry' = s
               /\ want' = Number + s
               /\ UNCHANGED <<number, b, driver, m, exact>>

\* A second operand of full length is refused before the sum is known.
MaxLen == IF len > b.len THEN len ELSE b.len
Add(x) == /\ Begin("add", 0, IF x.len >= MaxLimbs \/ len >= MaxLimbs THEN "refused" ELSE "add")
          /\ b' = x
          /\ i' = 0 /\ carry' = 0
          /\ want' = Number + Value(x.limb, x.len)
          /\ UNCHANGED <<number, driver, m, exact>>

Sub(x) == /\ Begin("sub", 0, IF LessThan(x) THEN "refused" ELSE "sub")
          /\ b' = x
          /\ i' = 0 /\ carry' = 0
          /\ want' = Number - Value(x.limb, x.len)
          /\ UNCHANGED <<number, driver, m, exact>>

\* Called for 1 only; any s <= Base is borrowed correctly.
SubSmall(s) == /\ s <= Base
               /\ Begin("subSmall", s, "subSmall")
               /\ i' = 0 /\ carry' = s
               /\ want' = Number - s
               /\ UNCHANGED <<number, b, driver, m, exact>>

\* ryu_bigint_div_small.
DivSmall(d) == /\ Begin("divSmall", d, IF d < 2 THEN "refused" ELSE "div")
               /\ m' = d /\ i' = len /\ carry' = 0 /\ exact' = TRUE
               /\ want' = Number
               /\ UNCHANGED <<number, b, driver>>

\* ryu_bigint_div_pow10_floor, q in place: whole limbs are dropped, then digits divided off.
DropLimbs(q) == [k \in Index |-> IF k + q < len THEN limb[k + q] ELSE limb[k]]
DivPow10(p) ==
  LET q == p \div BaseDigits
      r == p % BaseDigits
  IN  /\ Begin("divPow10", p, IF q < len /\ r # 0 THEN "div" ELSE "normalize")
      /\ \/ /\ q >= len
            /\ len' = 1 /\ limb' = [limb EXCEPT ![0] = 0]
            /\ exact' = IsZero
         \/ /\ q < len
            /\ len' = len - q /\ limb' = DropLimbs(q)
            /\ exact' = \A k \in 0 .. q - 1 : limb[k] = 0
      /\ m' = IF r # 0 THEN Pow10Small[r] ELSE 1
      /\ i' = len' /\ carry' = 0
      /\ want' = Value(limb', len')
      /\ UNCHANGED <<b, driver>>

\* ryu_bigint_to_u64.
ToU64 == /\ Begin("toU64", 0, "toU64")
         /\ i' = len /\ carry' = 0
         /\ want' = Number
         /\ UNCHANGED <<number, b, driver, m, exact>>

---------------------------------------------------------------------------
\* One product of the driver: the largest power its table has, as long as one is left.
Chunk == IF left > Len(table) THEN Len(table) ELSE left
Factor == table[Chunk]
NextFactor ==
  /\ pc = "factors" /\ left > 0
  /\ left' = left - Chunk
  /\ want' = want * Factor
  /\ m' = Factor
  /\ \/ Factor = 0 /\ len' = 1 /\ limb' = [limb EXCEPT ![0] = 0] /\ UNCHANGED <<pc, loop, old>>
     \/ Factor # 0 /\ (Factor = 1 \/ IsZero) /\ UNCHANGED <<number, pc, loop, old>>
     \/ /\ Factor > 1 /\ ~IsZero
        /\ pc' = "mul" /\ i' = 0 /\ carry' = 0 /\ old' = Cleaned
        /\ UNCHANGED number
  /\ UNCHANGED <<call, table, shift, exact, start>>

\* ryu_bigint_mul_small, and the same loop of ryu_bigint_mul10_add_digit.
Product == limb[i] * m + carry
MulTurn == /\ pc = "mul" /\ i < len
           /\ limb' = [limb EXCEPT ![i] = Product % Base]
           /\ carry' = Product \div Base
           /\ i' = i + 1
           /\ UNCHANGED <<len, call, driver, m, exact, pc, history>>
MulEnd == /\ pc = "mul" /\ i >= len
          /\ pc' = "append"
          /\ UNCHANGED <<number, call, driver, m, loop, exact, history>>

\* A slip: the carry of a product is taken for one limb.
MutAppendLimb == /\ pc = "append" /\ carry # 0 /\ len < MaxLimbs
                 /\ limb' = [limb EXCEPT ![len] = carry % Base]
                 /\ len' = len + 1
                 /\ carry' = IF op = "fromU64" THEN carry \div Base ELSE 0
                 /\ UNCHANGED <<call, driver, m, i, exact, pc, history>>
\* What carry holds goes into limbs of its own; from_u64 writes its number this way,
\* and answers 0 if there are too few limbs.
AppendLimb == /\ pc = "append" /\ carry # 0 /\ len < MaxLimbs
              /\ limb' = [limb EXCEPT ![len] = carry % Base]
              /\ len' = len + 1
              /\ carry' = carry \div Base
              /\ UNCHANGED <<call, driver, m, i, exact, pc, history>>
AppendFull == /\ pc = "append" /\ carry # 0 /\ len >= MaxLimbs
              /\ \/ op = "fromU64" /\ len' = 1 /\ limb' = [limb EXCEPT ![0] = 0] /\ pc' = "lost"
                 \/ op # "fromU64" /\ pc' = "refused" /\ UNCHANGED number
              /\ UNCHANGED <<call, driver, m, loop, exact, history>>
AppendEnd == /\ pc = "append" /\ carry = 0
             /\ pc' = IF op \in {"append", "fromU64"} THEN "done" ELSE "factors"
             /\ UNCHANGED <<number, call, driver, m, loop, exact, history>>

\* The move of ryu_bigint_mul_pow10; the other drivers have nothing to move.
ShiftLimbs ==
  [k \in Index |-> IF k < shift THEN 0 ELSE IF k < len + shift THEN limb[k - shift] ELSE limb[k]]
Shift ==
  /\ pc = "factors" /\ left = 0
  /\ \/ (shift = 0 \/ IsZero) /\ pc' = "done" /\ UNCHANGED <<number, want>>
     \/ /\ shift # 0 /\ ~IsZero /\ len + shift > MaxLimbs
        /\ pc' = "refused"
        /\ UNCHANGED <<number, want>>
     \/ /\ shift # 0 /\ ~IsZero /\ len + shift <= MaxLimbs
        /\ limb' = ShiftLimbs /\ len' = len + shift
        /\ want' = want * Power[shift]
        /\ pc' = "done"
  /\ UNCHANGED <<call, driver, m, loop, exact, old, start>>

\* The dry run of ryu_bigint_mul10_add_digit: only the carry is computed.
ProbeTurn == /\ pc = "probe" /\ i < len
             /\ carry' = Product \div Base
             /\ i' = i + 1
             /\ UNCHANGED <<number, call, driver, m, exact, pc, history>>
ProbeEnd == /\ pc = "probe" /\ i >= len
            /\ \/ carry # 0 /\ pc' = "refused" /\ UNCHANGED loop
               \/ carry = 0 /\ pc' = "mul" /\ i' = 0 /\ carry' = arg
            /\ UNCHANGED <<number, call, driver, m, exact, history>>

\* a->limb[i] of the growing loops, where the number is extended by a zero limb.
Extended == IF i < len THEN limb[i] ELSE 0
Extend == len' = IF i < len THEN len ELSE i + 1

AddSmallTurn == /\ pc = "addSmall" /\ carry # 0 /\ i < MaxLimbs
                /\ limb' = [limb EXCEPT ![i] = (Extended + carry) % Base]
                /\ carry' = (Extended + carry) \div Base
                /\ Extend
                /\ i' = i + 1
                /\ UNCHANGED <<call, driver, m, exact, pc, history>>
\* A slip: a sum that equals the base is left in the limb.
MutAddTurn ==
  LET sum == Extended + carry + (IF i < b.len THEN b.limb[i] ELSE 0)
  IN  /\ pc = "add" /\ i < MaxLimbs /\ (i < MaxLen \/ carry # 0)
      /\ \/ sum > Base /\ limb' = [limb EXCEPT ![i] = sum - Base] /\ carry' = 1
         \/ sum <= Base /\ limb' = [limb EXCEPT ![i] = sum] /\ carry' = 0
      /\ Extend
      /\ i' = i + 1
      /\ UNCHANGED <<call, driver, m, exact, pc, history>>
\* A sum of two limbs and a carry is at most one subtraction away from a limb.
AddTurn ==
  LET sum == Extended + carry + (IF i < b.len THEN b.limb[i] ELSE 0)
  IN  /\ pc = "add" /\ i < MaxLimbs /\ (i < MaxLen \/ carry # 0)
      /\ \/ sum >= Base /\ limb' = [limb EXCEPT ![i] = sum - Base] /\ carry' = 1
         \/ sum < Base /\ limb' = [limb EXCEPT ![i] = sum] /\ carry' = 0
      /\ Extend
      /\ i' = i + 1
      /\ UNCHANGED <<call, driver, m, exact, pc, history>>
GrowFull == /\ pc \in {"add", "addSmall"} /\ carry # 0 /\ i >= MaxLimbs
            /\ pc' = "refused"
            /\ UNCHANGED <<number, call, driver, m, loop, exact, history>>
GrowEnd == /\ \/ pc = "addSmall" /\ carry = 0 /\ pc' = "done"
              \/ pc = "add" /\ carry = 0 /\ i >= MaxLen /\ pc' = "normalize"
           /\ UNCHANGED <<number, call, driver, m, loop, exact, history>>

\* sub and sub_small: borrow is what is to be taken from the next limb.
BorrowTurn ==
  LET take == carry + (IF pc = "sub" /\ i < b.len THEN b.limb[i] ELSE 0)
  IN  /\ i < len
      /\ pc = "sub" \/ (pc = "subSmall" /\ carry # 0)
      /\ \/ limb[i] >= take /\ limb' = [limb EXCEPT ![i] = limb[i] - take] /\ carry' = 0
         \/ limb[i] < take /\ limb' = [limb EXCEPT ![i] = limb[i] + Base - take] /\ carry' = 1
      /\ i' = i + 1
      /\ UNCHANGED <<len, call, driver, m, exact, pc, history>>
BorrowEnd == /\ \/ pc = "sub" /\ i >= len
                \/ pc = "subSmall" /\ (i >= len \/ carry = 0)
             /\ pc' = IF carry # 0 THEN "refused" ELSE "normalize"
             /\ UNCHANGED <<number, call, driver, m, loop, exact, history>>

\* A slip: a zero limb passes the remainder on unscaled.
MutDividend == IF limb[i - 1] = 0 THEN carry ELSE carry * Base + limb[i - 1]
\* Most significant limb first; carry is the remainder.
Dividend == carry * Base + limb[i - 1]
DivTurn == /\ pc = "div" /\ i > 0
           /\ limb' = [limb EXCEPT ![i - 1] = Dividend \div m]
           /\ carry' = Dividend % m
           /\ i' = i - 1
           /\ UNCHANGED <<len, call, driver, m, exact, pc, history>>
DivEnd == /\ pc = "div" /\ i = 0
          /\ exact' = (exact /\ carry = 0)
          /\ pc' = "normalize"
          /\ UNCHANGED <<number, call, driver, m, loop, history>>

\* ryu_bigint_normalize.
StripLimb == /\ pc = "normalize" /\ len > 1 /\ limb[len - 1] = 0
             /\ len' = len - 1
             /\ UNCHANGED <<limb, call, driver, m, loop, exact, pc, history>>
\* A slip: a zero limb on top is kept.
MutStripped == /\ pc = "normalize" /\ pc' = "done"
               /\ UNCHANGED <<number, call, driver, m, loop, exact, history>>
Stripped == /\ pc = "normalize" /\ (len = 1 \/ limb[len - 1] # 0)
            /\ pc' = "done"
            /\ UNCHANGED <<number, call, driver, m, loop, exact, history>>

\* The second guard looks for a sum that wrapped around.
ToU64Turn ==
  LET next == (carry * Base + limb[i - 1]) % Word
  IN  /\ pc = "toU64" /\ i > 0
      /\ \/ /\ carry > (Word - 1) \div Base \/ next < carry
            /\ pc' = "refused"
            /\ UNCHANGED loop
         \/ /\ carry <= (Word - 1) \div Base /\ next >= carry
            /\ carry' = next /\ i' = i - 1
            /\ UNCHANGED pc
      /\ UNCHANGED <<number, call, driver, m, exact, history>>
ToU64End == /\ pc = "toU64" /\ i = 0
            /\ pc' = "done"
            /\ UNCHANGED <<number, call, driver, m, loop, exact, history>>

\* The number is left as the call left it.  A refusal ends the work on it, except that
\* the lexer goes on with a number no digit could be appended to, and a uint64_t that
\* does not come back leaves the number whole.
Return == /\ \/ pc = "done"
             \/ pc = "refused" /\ op \in {"append", "toU64"}
          /\ pc' = "idle"
          /\ op' = "none" /\ b' = [limb |-> Zeros, len |-> 1] /\ arg' = 0
          /\ table' = <<>> /\ left' = 0 /\ shift' = 0 /\ m' = 0
          /\ i' = 0 /\ carry' = 0 /\ exact' = TRUE
          /\ old' = Zeros /\ start' = 0 /\ want' = 0
          /\ UNCHANGED number

Call == \/ \E x \in Words : FromU64(x)
        \/ \E s \in Smalls : MulSmall(s) \/ AddSmall(s) \/ SubSmall(s) \/ DivSmall(s)
        \/ \E t \in Tables, p \in Exponents : MulPower(t, p)
        \/ \E p \in Exponents : MulPow10(p) \/ DivPow10(p)
        \/ \E d \in AppendedDigits : AppendDigit(d)
        \/ \E x \in Operands : Add(x) \/ Sub(x)
        \/ ToU64
Next == \/ Call \/ NextFactor \/ MulTurn \/ MulEnd \/ AppendLimb \/ AppendFull \/ AppendEnd \/ Shift
        \/ ProbeTurn \/ ProbeEnd \/ AddSmallTurn \/ AddTurn \/ GrowFull \/ GrowEnd
        \/ BorrowTurn \/ BorrowEnd \/ DivTurn \/ DivEnd \/ StripLimb \/ Stripped
        \/ ToU64Turn \/ ToU64End \/ Return

Spec == Init /\ [][Next]_vars
---------------------------------------------------------------------------
Grows == {"fromU64", "mulSmall", "mulPower", "mulPow10", "append", "addSmall", "add"}
Divides == {"divSmall", "divPow10"}
Ops == Grows \cup Divides \cup {"none", "sub", "subSmall", "toU64"}
Where == {"new", "idle", "factors", "mul", "append", "probe", "addSmall", "add", "sub", "subSmall",
          "div", "normalize", "toU64", "done", "refused", "lost"}

\* Limbs are below the base and there are never more than the array holds.
TypeOK == /\ limb \in Arrays /\ len \in 0 .. MaxLimbs
          /\ op \in Ops /\ b \in [limb : Arrays, len : 1 .. MaxLimbs] /\ arg \in Nat
          /\ table \in Seq(Nat) /\ left \in Nat /\ shift \in Nat
          /\ m \in Nat /\ i \in 0 .. MaxLimbs /\ carry \in Nat
          /\ exact \in BOOLEAN /\ pc \in Where
          /\ old \in Arrays /\ start \in Nat /\ want \in Int

\* What the call has to answer.
Result == CASE op = "fromU64" -> arg
            [] op = "mulSmall" -> start * arg
            [] op = "mulPower" -> start * table[1] ^ arg
            [] op = "mulPow10" -> start * Radix ^ arg
            [] op = "append" -> start * Radix + arg
            [] op = "addSmall" -> start + arg
            [] op = "subSmall" -> start - arg
            [] op = "add" -> start + Value(b.limb, b.len)
            [] op = "sub" -> start - Value(b.limb, b.len)
            [] op = "divPow10" -> start \div Radix ^ arg
            [] OTHER -> start

(***************************************************************************)
(* Whatever calls came before and whatever they left in the unused limbs,  *)
(* a call that succeeds leaves exactly the number it is named for, and the *)
(* remainder where there is one.                                           *)
(***************************************************************************)
Answers ==
  pc = "done" /\ op \notin {"mulPower", "mulPow10", "divPow10"} =>
    CASE op = "toU64" -> carry = start
      [] op = "divSmall" -> start = arg * Number + carry /\ carry < arg
      [] OTHER -> Number = Result

\* The same for the calls that split an exponent: into powers the table has, and into
\* digits and whole limbs.  The flag of the floor says whether something was lost.
AnswersPowers ==
  /\ pc = "done" /\ op \in {"mulPower", "mulPow10", "divPow10"} => Number = Result
  /\ pc = "done" /\ op = "divPow10" => (exact <=> Number * Radix ^ arg = start)

\* A refusal is for want of room, never of a number that fits: only a sum with a number
\* of full length is refused unseen.
RefusesOnlyTooLarge ==
  pc \in {"refused", "lost"} =>
    CASE op \in {"sub", "subSmall"} -> Result < 0
      [] op = "divSmall" -> arg < 2
      [] op = "toU64" -> start >= Word
      [] op = "add" -> len = MaxLimbs \/ b.len = MaxLimbs
      [] OTHER -> Result >= Power[MaxLimbs]

\* The lexer counts the digits that no longer fit and goes on with the number before
\* them: it must be what it was, although the product is computed in place.
KeepsOnRefusal ==
  pc = "refused" /\ op \in {"append", "toU64"} => Proper(limb, len) /\ Number = start

\* No product or dividend of two machine words exceeds a uint64_t.
NoWrap == /\ pc \in {"mul", "probe"} /\ i < len => Product < Word
          /\ pc = "div" /\ i > 0 => Dividend < Word

---------------------------------------------------------------------------
\* The second operand with zeros where it has no limbs.
Operand == [k \in Index |-> IF k < b.len THEN b.limb[k] ELSE 0]
\* The limbs from k on are those the loop began with.
Untouched(k) == \A j \in k .. MaxLimbs - 1 : IF j < len THEN limb[j] = old[j] ELSE old[j] = 0
Digit == IF op = "append" THEN arg ELSE 0

FactorsInv == /\ Proper(limb, len) /\ Number = want
              /\ left > 0 => Len(table) > 0
              /\ \A k \in 1 .. Len(table) : IsSmall(table[k])
              /\ op \in {"mulSmall", "mulPower", "mulPow10"}

\* The limbs done and the carry are m times the limbs they were made from.
MulInv == /\ i <= len /\ m > 0 /\ IsSmall(m) /\ carry < m
          /\ Untouched(i)
          /\ Value(limb, i) + carry * Power[i] = m * Value(old, i) + Digit
          /\ want = m * Value(old, len) + Digit
          /\ Proper(old, len)
          /\ i > 0 /\ old[i - 1] # 0 => carry # 0 \/ limb[i - 1] # 0
          /\ op = "append" => m = Radix /\ (len = MaxLimbs => want < Power[MaxLimbs])
          /\ op # "append" => /\ op \in {"mulSmall", "mulPower", "mulPow10"}
                              /\ left > 0 => Len(table) > 0
                              /\ \A k \in 1 .. Len(table) : IsSmall(table[k])

AppendInv == /\ Value(limb, len) + carry * Power[len] = want
             /\ carry # 0 \/ Proper(limb, len)
             /\ op = "append" => carry < Base /\ (carry # 0 => len < MaxLimbs)
             /\ op \notin {"append", "fromU64"} =>
                  /\ op \in {"mulSmall", "mulPower", "mulPow10"}
                  /\ left > 0 => Len(table) > 0
                  /\ \A k \in 1 .. Len(table) : IsSmall(table[k])

\* The carry is the product so far without its low limbs.
ProbeInv == /\ len = MaxLimbs /\ i <= len /\ limb = old /\ Proper(limb, len)
            /\ op = "append" /\ m = Radix /\ carry < m /\ arg < Radix
            /\ carry * Power[i] <= m * Value(limb, i) + arg
            /\ m * Value(limb, i) + arg < (carry + 1) * Power[i]
            /\ want = m * Value(limb, len) + arg /\ start = Value(limb, len)

AddSmallInv == /\ i <= len /\ Untouched(i) /\ op = "addSmall"
               /\ Value(limb, i) + carry * Power[i] = Value(old, i) + arg
               /\ want = Value(old, MaxLimbs) + arg
               /\ len = 1 \/ (len > 1 /\ limb[len - 1] # 0) \/ (carry # 0 /\ i = len)

AddInv == /\ i <= len /\ len >= 1 /\ Untouched(i) /\ carry <= 1 /\ op = "add"
          /\ Value(limb, i) + carry * Power[i] = Value(old, i) + Value(Operand, i)
          /\ want = Value(old, MaxLimbs) + Value(Operand, MaxLimbs)

SubInv == /\ i <= len /\ len >= 1 /\ b.len <= len /\ Untouched(i) /\ carry <= 1 /\ op = "sub"
          /\ Value(limb, i) - carry * Power[i] = Value(old, i) - Value(Operand, i)
          /\ want = Value(old, len) - Value(Operand, len)

SubSmallInv == /\ i <= len /\ len >= 1 /\ Untouched(i) /\ carry <= Base /\ op = "subSmall"
               /\ Value(limb, i) - carry * Power[i] = Value(old, i) - arg
               /\ want = Value(old, len) - arg

\* The quotient of the limbs done, and what is left of the number to divide.
DivInv == /\ i <= len /\ len >= 1 /\ m > 1 /\ IsSmall(m) /\ carry < m /\ op \in Divides
          /\ m * (Value(limb, len) - Value(limb, i)) + carry * Power[i] + Value(limb, i) = want

NormalizeInv == /\ len >= 1
                /\ op \in {"add", "sub", "subSmall"} => Number = want
                /\ op \in Divides => want = m * Number + carry /\ carry < m
                /\ op \in Divides \cup {"add", "sub", "subSmall"}

ToU64Inv == /\ i <= len /\ Proper(limb, len) /\ op = "toU64" /\ want = Number /\ carry < Word
            /\ carry * Power[i] + Value(limb, i) = want

DoneInv == /\ Proper(limb, len) /\ op # "none"
           /\ op \in Grows \cup {"sub", "subSmall"} => Number = want
           /\ op \in Divides => want = m * Number + carry /\ carry < m
           /\ op = "toU64" => carry = want

\* What the loop has to leave is what the call has to answer.
WantInv ==
  /\ op \in {"fromU64", "append", "addSmall", "add", "sub", "subSmall", "toU64"} => want = Result
  /\ op = "divSmall" => want = start /\ m = arg
  /\ op = "mulSmall" => /\ table = <<arg>> /\ shift = 0 /\ left \in 0 .. 1
                        /\ left = 1 => pc = "factors" /\ want = start
                        /\ left = 0 => want = start * arg

\* What the limbs done so far and the carry, borrow or remainder are together, in every loop.
LoopInv == /\ TypeOK
           /\ pc = "idle" => Proper(limb, len) /\ shift = 0
           /\ pc = "factors" => FactorsInv
           /\ pc = "mul" => MulInv
           /\ pc = "append" => AppendInv
           /\ pc = "probe" => ProbeInv
           /\ pc = "addSmall" => AddSmallInv
           /\ pc = "add" => AddInv
           /\ pc = "sub" => SubInv
           /\ pc = "subSmall" => SubSmallInv
           /\ pc = "div" => DivInv
           /\ pc = "normalize" => NormalizeInv
           /\ pc = "toU64" => ToU64Inv
           /\ pc = "done" => DoneInv
           /\ KeepsOnRefusal
           /\ pc \in {"new", "idle", "lost"} \/ WantInv

(***************************************************************************)
(* The invariant behind the theorems on powers.  A product: the number     *)
(* reached, times the power still to come, is the answer.  A floor: what   *)
(* the dropped limbs and the remainder are worth is less than the divisor, *)
(* and the flag says whether it is 0.                                      *)
(***************************************************************************)
Root == IF op = "mulPower" THEN table[1] ELSE Radix
ToCome == left + (IF pc = "done" THEN 0 ELSE BaseDigits * shift)
DroppedUnit == Radix ^ (BaseDigits * (arg \div BaseDigits))
DroppedValue == start - want * DroppedUnit
PowersInv ==
  /\ op = "mulPower" => table \in Tables /\ shift = 0
  /\ op = "mulPow10" => table = Pow10Small
  /\ op \in {"mulPower", "mulPow10"} =>
       /\ arg <= MaxExponent /\ ToCome <= arg
       /\ want * Root ^ ToCome = Result
       /\ pc = "done" => left = 0
  /\ op = "divPow10" =>
       /\ arg \in Exponents
       /\ m = Radix ^ (arg % BaseDigits)
       /\ DroppedValue \in 0 .. DroppedUnit - 1
       /\ exact <=> DroppedValue = 0 /\ (pc # "div" => carry = 0)

\* The inductive invariant behind the theorems of BigintLimbs_proof.
IInv == LoopInv /\ PowersInv
=============================================================================
