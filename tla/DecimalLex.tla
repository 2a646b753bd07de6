----------------------------- MODULE DecimalLex -----------------------------
(***************************************************************************)
(* ryu_parse_full_decimal_lex and ryu_parse_append_digit                   *)
(* (src/src/ryu64_parse_full.c): the one pass over the text that every     *)
(* path of the full parser starts from.  Each action is one turn of one of *)
(* its loops or one branch between them.                                   *)
(*                                                                         *)
(* The text is revealed as it is read: text holds the symbols up to and    *)
(* including s[i], the last one, and moving on appends any symbol.  The    *)
(* words inf(inity), nan and a well-formed (payload) are one symbol each.  *)
(*                                                                         *)
(* The significand is kept as long as it fits: first in a uint64_t, then   *)
(* in a ryu_bigint; later digits are only counted.  exact, weight and      *)
(* truePart are history: the number that all the digits spell, 10^dropped, *)
(* and the exponent the text spells.  No action depends on them.           *)
(***************************************************************************)
EXTENDS DecimalText, Powers

CONSTANTS
  Alphabet,     \* the symbols the text may hold, End among them
  MaxLen,       \* bound: the text has at most so many symbols, the mark of its end apart
  U64Max,       \* UINT64_MAX
  SigMax,       \* the largest number a ryu_bigint holds
  ExpCap        \* the exponent stops growing once it is at least this

Symbols == 0 .. 19

ASSUME AlphabetAssumption == Alphabet \subseteq Symbols /\ End \in Alphabet
ASSUME BoundsAssumption == /\ MaxLen \in Nat \ {0}
                           /\ U64Max \in Nat
                           /\ SigMax \in Nat
                           /\ ExpCap \in Nat
\* A number that no longer fits a uint64_t still fits a ryu_bigint with one more digit.
ASSUME RoomAssumption == 10 * U64Max + 9 <= SigMax
\* Powers of ten are products, up to one digit more than a text holds.
ASSUME PowersAssumption == PowersUpTo(10, MaxLen)

VARIABLES
  text,         \* s[0 .. i]
  phase,        \* the loop or branch the lexer is in, "done" at the end
  outcome,      \* "none" until done; then "number", "inf", "nan" or "invalid"
  parsedLen,    \* parsed_len, end_pos before that
  negative, sawDigit, sawNonzero,
  sigIsU64, truncated, droppedNonzero,
  sig,          \* sig_u64 or sig, whichever sig_is_u64 says
  sigDigits, dropped, exp10,
  expNeg, haveExp, expPart,
  exact, weight, truePart

outcomes == <<outcome, parsedLen>>
digitsRead == <<sawDigit, sawNonzero, sigIsU64, truncated, droppedNonzero, sig,
                sigDigits, dropped, exact, weight>>
exponent == <<expNeg, haveExp, expPart, truePart>>
vars == <<text, phase, outcomes, negative, digitsRead, exp10, exponent>>

\* The exponent that the text spells, when exp10 has come to include the capped one.
TrueExp10 == exp10 + (IF ~haveExp THEN 0 ELSE IF expNeg THEN expPart - truePart
                                                        ELSE truePart - expPart)

Phases == {"space", "word", "payload", "int", "frac", "digitsEnd", "expSign", "exp", "done"}
Outcomes == {"none", "number", "inf", "nan", "invalid"}

Here == text[Len(text)]         \* s[i], or End when i == n
Index == Len(text) - 1          \* i

Advance == \E c \in IF Len(text) < MaxLen THEN Alphabet ELSE {End} : text' = Append(text, c)

Finish(result, length) == /\ phase' = "done"
                          /\ outcome' = result
                          /\ parsedLen' = length

---------------------------------------------------------------------------
Init == /\ text \in {<<c>> : c \in Alphabet}
        /\ phase = "space"
        /\ outcome = "none"
        /\ parsedLen = 0
        /\ negative = FALSE
        /\ sawDigit = FALSE /\ sawNonzero = FALSE
        /\ sigIsU64 = TRUE /\ truncated = FALSE /\ droppedNonzero = FALSE
        /\ sig = 0
        /\ sigDigits = 0 /\ dropped = 0 /\ exp10 = 0
        /\ expNeg = FALSE /\ haveExp = FALSE /\ expPart = 0
        /\ exact = 0 /\ weight = 1 /\ truePart = 0

SkipSpace == /\ phase = "space" /\ Here = Space
             /\ Advance
             /\ UNCHANGED <<phase, outcomes, negative, digitsRead, exp10, exponent>>

Empty == /\ phase = "space" /\ Here = End
         /\ Finish("invalid", 0)
         /\ UNCHANGED <<text, negative, digitsRead, exp10, exponent>>

Sign == /\ phase = "space" /\ Here \notin {Space, End}
        /\ \/ /\ Here \in {Plus, Minus}
              /\ negative' = (Here = Minus)
              /\ Advance
           \/ /\ Here \notin {Plus, Minus}
              /\ UNCHANGED <<negative, text>>
        /\ phase' = "word"
        /\ UNCHANGED <<outcomes, digitsRead, exp10, exponent>>

Infinity == /\ phase = "word" /\ Here = Inf
            /\ Finish("inf", Index + 1)
            /\ UNCHANGED <<text, negative, digitsRead, exp10, exponent>>

NotANumber == /\ phase = "word" /\ Here = Nan
              /\ Advance
              /\ phase' = "payload"
              /\ UNCHANGED <<outcomes, negative, digitsRead, exp10, exponent>>

NanPayload == /\ phase = "payload"
              /\ Finish("nan", IF Here = Payload THEN Index + 1 ELSE Index)
              /\ UNCHANGED <<text, negative, digitsRead, exp10, exponent>>

NoWord == /\ phase = "word" /\ Here \notin {Inf, Nan}
          /\ phase' = "int"
          /\ UNCHANGED <<text, outcomes, negative, digitsRead, exp10, exponent>>

\* A slip: only the last dropped digit decides whether anything was dropped.
MutDropLast(d) == /\ dropped' = dropped + 1
                  /\ droppedNonzero' = (d # 0)
                  /\ truncated' = TRUE
                  /\ weight' = 10 * weight
                  /\ UNCHANGED sig

\* ryu_parse_append_digit(out, d), and what the history says of the digit.
DropDigit(d) == /\ dropped' = IF truncated THEN dropped + 1 ELSE 1
                /\ droppedNonzero' = ((truncated /\ droppedNonzero) \/ d # 0)
                /\ truncated' = TRUE
                /\ weight' = 10 * weight
                /\ UNCHANGED sig

KeepDigit(d) == /\ sig' = 10 * sig + d
                /\ UNCHANGED <<truncated, dropped, droppedNonzero, weight>>

\* A slip: the overflow check forgets the digit that is added.
MutAppendDigit(d) ==
  LET next == 10 * sig + d
      fitsU64 == sigIsU64 /\ 10 * sig <= U64Max
  IN  /\ sigIsU64' = (sigIsU64 /\ (truncated \/ fitsU64))
      /\ \/ ~truncated /\ (fitsU64 \/ next <= SigMax) /\ KeepDigit(d)
         \/ ~truncated /\ ~(fitsU64 \/ next <= SigMax) /\ DropDigit(d)
         \/ truncated /\ DropDigit(d)

AppendDigit(d) ==
  LET next == 10 * sig + d
      fitsU64 == sigIsU64 /\ next <= U64Max
  IN  /\ sigIsU64' = (sigIsU64 /\ (truncated \/ fitsU64))
      /\ \/ ~truncated /\ (fitsU64 \/ next <= SigMax) /\ KeepDigit(d)
         \/ ~truncated /\ ~(fitsU64 \/ next <= SigMax) /\ DropDigit(d)
         \/ truncated /\ DropDigit(d)

\* A slip: the zeros before the first other digit are counted.
MutTakeDigit(d) ==
  /\ sawDigit' = TRUE
  /\ sawNonzero' = (sawNonzero \/ d # 0)
  /\ exact' = 10 * exact + d
  /\ sigDigits' = sigDigits + 1
  /\ AppendDigit(d)

\* A digit of the mantissa; leading zeros count for nothing.
TakeDigit(d) ==
  /\ sawDigit' = TRUE
  /\ sawNonzero' = (sawNonzero \/ d # 0)
  /\ exact' = 10 * exact + d
  /\ \/ /\ sawNonzero \/ d # 0
        /\ sigDigits' = sigDigits + 1
        /\ AppendDigit(d)
     \/ /\ ~(sawNonzero \/ d # 0)
        /\ UNCHANGED <<sigDigits, sigIsU64, truncated, droppedNonzero, sig, dropped, weight>>

IntDigit == /\ phase = "int" /\ Here \in Digits
            /\ TakeDigit(Here)
            /\ Advance
            /\ UNCHANGED <<phase, outcomes, negative, exp10, exponent>>

IntEnd == /\ phase = "int" /\ Here \notin Digits
          /\ \/ Here = Point /\ phase' = "frac" /\ Advance
             \/ Here # Point /\ phase' = "digitsEnd" /\ UNCHANGED text
          /\ UNCHANGED <<outcomes, negative, digitsRead, exp10, exponent>>

FracDigit == /\ phase = "frac" /\ Here \in Digits
             /\ TakeDigit(Here)
             /\ exp10' = exp10 - 1
             /\ Advance
             /\ UNCHANGED <<phase, outcomes, negative, exponent>>

FracEnd == /\ phase = "frac" /\ Here \notin Digits
           /\ phase' = "digitsEnd"
           /\ UNCHANGED <<text, outcomes, negative, digitsRead, exp10, exponent>>

NoDigits == /\ phase = "digitsEnd" /\ ~sawDigit
            /\ Finish("invalid", 0)
            /\ UNCHANGED <<text, negative, digitsRead, exp10, exponent>>

NoExponent == /\ phase = "digitsEnd" /\ sawDigit /\ Here # Exp
              /\ Finish("number", Index)
              /\ UNCHANGED <<text, negative, digitsRead, exp10, exponent>>

\* end_pos = i, and j starts behind the e.
Exponent == /\ phase = "digitsEnd" /\ sawDigit /\ Here = Exp
            /\ parsedLen' = Index
            /\ Advance
            /\ phase' = "expSign"
            /\ UNCHANGED <<outcome, negative, digitsRead, exp10, exponent>>

ExpSign == /\ phase = "expSign"
           /\ \/ Here \in {Plus, Minus} /\ expNeg' = (Here = Minus) /\ Advance
              \/ Here \notin {Plus, Minus} /\ UNCHANGED <<expNeg, text>>
           /\ phase' = "exp"
           /\ UNCHANGED <<outcomes, negative, digitsRead, exp10, haveExp, expPart, truePart>>

ExpDigit == /\ phase = "exp" /\ Here \in Digits
            /\ haveExp' = TRUE
            /\ expPart' = IF expPart < ExpCap THEN 10 * expPart + Here ELSE expPart
            /\ truePart' = 10 * truePart + Here
            /\ Advance
            /\ UNCHANGED <<phase, outcomes, negative, digitsRead, exp10, expNeg>>

\* A slip: the e is consumed even when no digit follows it.
MutExpEnd == /\ phase = "exp" /\ Here \notin Digits
             /\ exp10' = IF expNeg THEN exp10 - expPart ELSE exp10 + expPart
             /\ Finish("number", Index)
             /\ UNCHANGED <<text, negative, digitsRead, exponent>>

\* Without a digit the e belongs to whatever follows the number.
ExpEnd == /\ phase = "exp" /\ Here \notin Digits
          /\ exp10' = CASE ~haveExp -> exp10
                        [] haveExp /\ expNeg -> exp10 - expPart
                        [] haveExp /\ ~expNeg -> exp10 + expPart
          /\ Finish("number", IF haveExp THEN Index ELSE parsedLen)
          /\ UNCHANGED <<text, negative, digitsRead, exponent>>

Next == \/ SkipSpace \/ Empty \/ Sign \/ Infinity \/ NotANumber \/ NanPayload \/ NoWord
        \/ IntDigit \/ IntEnd \/ FracDigit \/ FracEnd
        \/ NoDigits \/ NoExponent \/ Exponent \/ ExpSign \/ ExpDigit \/ ExpEnd

Spec == Init /\ [][Next]_vars

---------------------------------------------------------------------------
\* The fields of the lexer keep their types; the text read is never empty.
TypeOK ==
  /\ text \in Seq(Symbols) /\ text # <<>>
  /\ phase \in Phases /\ outcome \in Outcomes /\ parsedLen \in Nat
  /\ negative \in BOOLEAN /\ sawDigit \in BOOLEAN /\ sawNonzero \in BOOLEAN
  /\ sigIsU64 \in BOOLEAN /\ truncated \in BOOLEAN /\ droppedNonzero \in BOOLEAN
  /\ sig \in Nat /\ sigDigits \in Nat /\ dropped \in Nat /\ exp10 \in Int
  /\ expNeg \in BOOLEAN /\ haveExp \in BOOLEAN /\ expPart \in Nat
  /\ exact \in Nat /\ weight \in Nat /\ truePart \in Nat

(***************************************************************************)
(* What is kept encloses what was read: the digits spell a number in       *)
(* [sig, sig + 1) * 10^dropped, and it is the lower end exactly when       *)
(* dropped_nonzero says so.  The truncated-interval resolver converts both *)
(* ends; were the interval wrong, its answer would be.                     *)
(***************************************************************************)
Enclosed == /\ sig * weight <= exact
            /\ exact < (sig + 1) * weight
            /\ droppedNonzero <=> exact # sig * weight

(***************************************************************************)
(* Digits are dropped only when the bigint is full, and neither the        *)
(* uint64_t nor the bigint ever holds more than it can.                    *)
(***************************************************************************)
DropsOnlyWhenFull == /\ sig <= IF sigIsU64 THEN U64Max ELSE SigMax
                     /\ truncated => ~sigIsU64 /\ 10 * sig + 9 > SigMax
                     /\ ~truncated => dropped = 0 /\ ~droppedNonzero

(***************************************************************************)
(* sig_digits is the decimal length of the number read, leading zeros      *)
(* apart, and dropped_digits the number of those that were not kept: the   *)
(* range checks, the choice of a fast path and the exponent trust them.    *)
(***************************************************************************)
CountsDigits ==
  /\ weight = 10 ^ dropped /\ dropped <= sigDigits
  /\ sawNonzero => 10 ^ (sigDigits - 1) <= exact /\ exact < 10 ^ sigDigits
  /\ ~sawNonzero => exact = 0 /\ sigDigits = 0

\* The text read, without the mark of its end.
Revealed == IF Here = End THEN SubSeq(text, 1, Index) ELSE text
NumeralPrefixes == {k \in 1 .. Len(Revealed) : IsNumeral(SubSeq(Revealed, 1, k))}

(***************************************************************************)
(* parsed_len delimits the longest prefix of the text that is a number by  *)
(* the grammar of DecimalText, and a text without such a prefix is         *)
(* refused.                                                                *)
(***************************************************************************)
ParsesLongestPrefix ==
  outcome \in {"number", "invalid"} =>
    LET prefixes == NumeralPrefixes
    IN  IF outcome = "invalid" THEN prefixes = {}
        ELSE parsedLen \in prefixes /\ \A k \in prefixes : k <= parsedLen

---------------------------------------------------------------------------
\* The text ends where its mark is, and no later than the bound; every digit that counts
\* is a symbol before s[i].
TextInv == /\ Len(text) <= MaxLen \/ (Len(text) = MaxLen + 1 /\ Here = End)
           /\ sigDigits < Len(text)
           /\ sawNonzero => sigDigits > 0

\* The inductive invariant behind the theorems of Parsers_proof on the digits: the
\* enclosure, a weight of 1 until a digit is dropped, nothing kept before the first other
\* digit than 0.
DigitsInv == /\ TypeOK /\ Enclosed /\ DropsOnlyWhenFull /\ CountsDigits /\ TextInv
             /\ weight > 0
             /\ ~truncated => weight = 1
             /\ ~sawNonzero => sig = 0 /\ ~truncated /\ sigIsU64

\* Where what follows a sign at position k starts, sign or no sign.
SignEnd(k) == IF text[k] \in {Plus, Minus} THEN k + 1 ELSE k
Begins(a, b) == /\ AllIn(text, 1, a - 1, {Space}) /\ text[a] # Space
                /\ b = SignEnd(a) /\ b <= Len(text)
\* Digits with a point perhaps at positions b .. e - 1.
Mantissa(b, e) == /\ AllIn(text, b, e - 1, Digits \cup {Point})
                  /\ \A k \in b .. e - 1 : text[k] = Point => AllIn(text, k + 1, e - 1, Digits)
                  /\ sawDigit <=> \E k \in b .. e - 1 : text[k] \in Digits
\* The e of an exponent behind the mantissa, whose end is noted.
ExpRead(b) == /\ sawDigit /\ parsedLen + 1 \in b .. Index
              /\ text[parsedLen + 1] = Exp /\ Mantissa(b, parsedLen + 1)

\* In the middle of a numeral: its sign or first digit is at a, its digits start at b.
Parts(a, b) ==
  /\ Begins(a, b)
  /\ phase = "word" => b = Len(text)
  /\ phase \in {"int", "frac", "digitsEnd"} => Mantissa(b, Len(text))
  /\ phase = "int" => AllIn(text, b, Index, Digits)
  /\ phase = "frac" => \E k \in b .. Index : text[k] = Point
  /\ phase = "digitsEnd" => /\ Here \notin Digits
                            /\ Here = Point => \E k \in b .. Index : text[k] = Point
  /\ phase \in {"expSign", "exp"} => ExpRead(b)
  /\ phase = "expSign" => Len(text) = parsedLen + 2
  /\ phase = "exp" => LET d == SignEnd(parsedLen + 2)
                      IN  /\ d <= Len(text) /\ AllIn(text, d, Index, Digits)
                          /\ haveExp <=> d < Len(text)

\* And on the grammar: where the parts of the numeral read so far start and end.
ReadInv ==
  /\ \A k \in 1 .. Index : text[k] # End
  /\ phase = "space" => AllIn(text, 1, Index, {Space})
  /\ phase \in {"space", "word"} => ~sawDigit
  /\ phase \notin {"exp", "done"} => ~haveExp
  /\ phase # "done" => outcome = "none"
  /\ phase \in {"word", "int", "frac", "digitsEnd", "expSign", "exp"} =>
       \E a \in 1 .. Len(text) : \E b \in a .. a + 1 : Parts(a, b)

\* Both.
IInv == DigitsInv /\ ReadInv
=============================================================================
