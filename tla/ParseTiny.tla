----------------------------- MODULE ParseTiny -----------------------------
(***************************************************************************)
(* ryu64_from_decimal_tiny (src/src/ryu64_parse_tiny.c): the bounded       *)
(* parser, which reads a text on its own, into a word and with limits of   *)
(* its own, and divides on 128-bit words.  It keeps no state between       *)
(* calls, so one action stands for a call.  It is made with the text that  *)
(* the lexer of the full parser has just read, so that the two can be held *)
(* against each other; neither reads on where the other stops, except for  *)
(* the payload of a nan.                                                   *)
(***************************************************************************)
EXTENDS DecimalLex, BinaryFormat, Words

CONSTANTS
  MaxSigDigits,     \* RYU_PARSE_TINY_MAX_SIG_DIGITS                  (19)
  MaxExp10,         \* RYU_PARSE_TINY_MAX_EXP10, and less _MIN_EXP10  (19)
  TinyExpCap        \* the exponent stops growing once it is this   (10^6)

ASSUME TinyAssumption == /\ MaxSigDigits \in Nat \ {0} /\ MaxExp10 \in Nat /\ TinyExpCap \in Nat
                         /\ Word = 2 ^ WordBits /\ 10 ^ MaxSigDigits <= Word /\ 10 ^ MaxExp10 < Word
                         /\ 2 * 10 ^ (MaxSigDigits + MaxExp10) <= Word * Word /\ Prec + 2 <= WordBits
\* Every number within the limits is a normal one, and the powers told apart reach as far.
ASSUME RangeAssumption == /\ EMin <= 0 /\ EMax \in Nat /\ 10 ^ MaxExp10 <= 2 ^ (-EMin)
                          /\ 10 ^ (MaxSigDigits + MaxExp10) <= 2 ^ EMax
                          /\ MaxExp10 <= SmallExp10 /\ MaxExp10 <= LargeExp10
\* Powers of ten and of two are products, as far as the parser and the format go.
ASSUME TinyPowersAssumption == /\ PowersUpTo(10, MaxSigDigits + MaxExp10)
                               /\ PowersUpTo(10, SmallExp10) /\ PowersUpTo(10, LargeExp10)
                               /\ PowersUpTo(2, 2 * WordBits) /\ PowersUpTo(2, UnitExp + EMax + 2)

\* A text is too short for its digits to make up for an exponent that no longer grows.
ShortTexts == MaxLen + MaxExp10 <= TinyExpCap

VARIABLE tiny       \* what the call answered

Answer(status, bits, length) == [status |-> status, bits |-> bits, length |-> length]
NotCalled == Answer("none", 0, 0)
Rejected == Answer("INVALID", 0, 0)

---------------------------------------------------------------------------
(* The parts of the text: positions are those of the sequence, from 1 on.  *)

\* The first position from k on that holds none of these symbols.
RunEnd(k, symbols) == CHOOSE e \in k .. Len(text) : text[e] \notin symbols /\ AllIn(text, k, e - 1, symbols)
AfterSignAt(k) == IF text[k] \in {Plus, Minus} THEN k + 1 ELSE k

\* What the loops over the digits have come to.
Nothing == [sawDigit |-> FALSE, sawNonzero |-> FALSE, tooManySig |-> FALSE,
            sig |-> 0, sigDigits |-> 0, exp10 |-> 0]

\* A slip: the limit counts leading zeros.
MutTaken(r, d, behind) ==
  LET room == r.sigDigits < MaxSigDigits
  IN  [sawDigit |-> TRUE,
       sawNonzero |-> r.sawNonzero \/ d # 0,
       tooManySig |-> r.tooManySig \/ ~room,
       sig |-> IF room THEN (10 * r.sig + d) % Word ELSE r.sig,
       sigDigits |-> IF room THEN r.sigDigits + 1 ELSE r.sigDigits,
       exp10 |-> IF behind THEN r.exp10 - 1 ELSE r.exp10]

\* One more digit, before or behind the point.
Taken(r, d, behind) ==
  LET counts == r.sawNonzero \/ d # 0
      room == counts /\ r.sigDigits < MaxSigDigits
  IN  [sawDigit |-> TRUE,
       sawNonzero |-> counts,
       tooManySig |-> r.tooManySig \/ (counts /\ ~room),
       sig |-> IF room THEN (10 * r.sig + d) % Word ELSE r.sig,
       sigDigits |-> IF room THEN r.sigDigits + 1 ELSE r.sigDigits,
       exp10 |-> IF behind THEN r.exp10 - 1 ELSE r.exp10]

\* The digits of w at positions k .. e, but for the point at p.
Gathered(w, k, p, e) ==
  LET upTo[j \in 0 .. e] == IF j < k THEN Nothing
                            ELSE IF j = p THEN upTo[j - 1] ELSE Taken(upTo[j - 1], w[j], j > p)
  IN  upTo[e]

\* The exponent with one more digit, while it grows; and the one at positions k .. e.
Grown(part, d) == IF part < TinyExpCap THEN 10 * part + d ELSE part
ExpPart(w, k, e) ==
  LET upTo[j \in 0 .. e] == IF j < k THEN 0 ELSE Grown(upTo[j - 1], w[j])
  IN  upTo[e]

\* The number whose digits start at k.
Number(k) ==
  LET intEnd == RunEnd(k, Digits)
      end == IF text[intEnd] = Point THEN RunEnd(intEnd + 1, Digits) ELSE intEnd
      digits == Gathered(text, k, intEnd, end - 1)
      expStart == AfterSignAt(end + 1)
      expEnd == RunEnd(expStart, Digits)
      hasExponent == digits.sawDigit /\ text[end] = Exp /\ expEnd > expStart
      part == IF hasExponent THEN ExpPart(text, expStart, expEnd - 1) ELSE 0
  IN  [digits |-> digits,
       exp10 |-> IF hasExponent /\ text[end + 1] = Minus THEN digits.exp10 - part
                                                         ELSE digits.exp10 + part,
       length |-> (IF hasExponent THEN expEnd ELSE end) - 1]

---------------------------------------------------------------------------
(* ryu_tiny_mq_to_double: m * 10^e, divided bit by bit on two words.       *)

\* One comparison: what is left of the remainder, and the bit.
Subtracted(rem, den) == IF Less(rem, den) THEN <<rem, 0>> ELSE <<Difference(rem, den), 1>>

\* 2^q is the largest power of two that num / den holds.
FloorLog2(num, den) ==
  LET apart == PairLen(num) - PairLen(den)
      less == IF apart >= 0 THEN Less(num, Shifted(den, apart)) ELSE Less(Shifted(num, -apart), den)
  IN  IF less THEN apart - 1 ELSE apart

\* num / den with Prec + 1 bits behind the first, and what is left.
NextBit(r, den) == LET step == Subtracted(Twice(r.rem), den)
                   IN  [rem |-> step[1], quo |-> 2 * r.quo + step[2]]
Divide(num, den) ==
  LET turn[k \in 0 .. Prec + 1] == IF k = 0 THEN [rem |-> Difference(num, den), quo |-> 1]
                                  ELSE NextBit(turn[k - 1], den)
  IN  turn[Prec + 1]

\* The number of which such a quotient leads at 2^q, ties to even.
NearestDouble(q, divided, length) ==
  LET down == divided.quo \div 4
      last == divided.quo % 4
      sticky == ~IsZero(divided.rem)
      up == last = 3 \/ (last = 2 /\ (sticky \/ down % 2 = 1))
      near == IF up THEN down + 1 ELSE down
      carry == near = 2 * Hidden
      power2 == IF carry THEN q + 1 ELSE q
  IN  IF power2 \notin EMin .. EMax THEN Answer("OUT_OF_RANGE", 0, length)
      ELSE Answer(IF last # 0 \/ sticky THEN "INEXACT" ELSE "OK",
                  (power2 + Bias) * Hidden + ((IF carry THEN Hidden ELSE near) % Hidden), length)

MqToDouble(m, e, length) ==
  LET num == IF e >= 0 THEN Product(m, 10 ^ e) ELSE FromWord(m)
      den == FromWord(IF e >= 0 THEN 1 ELSE 10 ^ (-e))
      q == FloorLog2(num, den)
      n == IF q >= 0 THEN num ELSE Shifted(num, -q)
      d == IF q >= 0 THEN Shifted(den, q) ELSE den
  IN  IF Less(n, d) THEN Rejected ELSE NearestDouble(q, Divide(n, d), length)

---------------------------------------------------------------------------
(* ryu64_from_decimal_tiny *)

Decimal(number) ==
  LET digits == number.digits
      inRange == ~digits.tooManySig /\ number.exp10 \in -MaxExp10 .. MaxExp10
  IN  CASE ~digits.sawDigit -> Rejected
        [] digits.sawDigit /\ ~digits.sawNonzero -> Answer("OK", 0, number.length)
        [] digits.sawDigit /\ digits.sawNonzero /\ ~inRange -> Answer("OUT_OF_RANGE", 0, number.length)
        [] digits.sawDigit /\ digits.sawNonzero /\ inRange ->
             MqToDouble(digits.sig, number.exp10, number.length)

Tiny ==
  LET start == RunEnd(1, {Space})
      k == AfterSignAt(start)
  IN  CASE text[start] = End -> Rejected
        [] text[start] # End /\ text[k] = Inf -> Answer("OK", InfBits, k)
        [] text[start] # End /\ text[k] = Nan -> Answer("OK", InfBits + (Hidden \div 2), k)
        [] text[start] # End /\ text[k] \notin {Inf, Nan} -> Decimal(Number(k))

TInit == Init /\ tiny = NotCalled
ReadOn == Next /\ UNCHANGED tiny
CallTiny == phase = "done" /\ tiny = NotCalled /\ tiny' = Tiny /\ UNCHANGED vars
TNext == ReadOn \/ CallTiny
TSpec == TInit /\ [][TNext]_<<vars, tiny>>

---------------------------------------------------------------------------
Answers == tiny # NotCalled
HasNumber == Answers /\ outcome = "number" /\ tiny.status \in {"OK", "INEXACT"}

(***************************************************************************)
(* Within its bounds the tiny parser is right: the number nearest to the   *)
(* text, ties to even, and OK exactly when nothing was lost.               *)
(***************************************************************************)
TinyIsNearest ==
  HasNumber => /\ IsNearest(exact, TrueExp10, tiny.bits)
               /\ tiny.status = "OK" <=> IsExactly(exact, TrueExp10, tiny.bits)

(***************************************************************************)
(* "Nonzero values are accepted when they have <= 19 significant digits    *)
(* and effective base-10 exponent in [-19, 19]" (include/ryu64.h:105),     *)
(* and nothing else is refused; what the full parser finds no number in is *)
(* none here, and both end at the same place, a nan's payload apart.       *)
(***************************************************************************)
TinyKeepsItsContract ==
  Answers =>
    /\ tiny.status = "INVALID" <=> outcome = "invalid"
    /\ tiny.status = "OUT_OF_RANGE" <=>
         outcome = "number" /\ sawNonzero
           /\ (sigDigits > MaxSigDigits \/ TrueExp10 \notin -MaxExp10 .. MaxExp10)
    /\ tiny.length = IF outcome = "nan" /\ Here = Payload THEN parsedLen - 1 ELSE parsedLen

---------------------------------------------------------------------------
\* The exponent of the digits, when the one that is spelled has not yet come to it.
DigitsExp10 == CASE phase # "done" \/ ~haveExp -> exp10
                 [] phase = "done" /\ haveExp -> IF expNeg THEN exp10 + expPart ELSE exp10 - expPart

\* What the tiny parser has gathered is what the lexer has counted.
ReadAlike(r) == /\ r.sawDigit = sawDigit /\ r.sawNonzero = sawNonzero
                /\ r.tooManySig <=> sigDigits > MaxSigDigits
                /\ r.sigDigits = IF sigDigits > MaxSigDigits THEN MaxSigDigits ELSE sigDigits
                /\ ~r.tooManySig => r.sig = exact
                /\ r.exp10 = DigitsExp10

\* Where a word or number starts: behind spaces, a at its sign and b at what is signed.
Begun(a, b) == Begins(a, b) /\ text[a] # End
\* Digits at b .. e - 1, with a point at p unless p = e.
DigitsRead(b, p, e) == /\ text[b] \notin {Inf, Nan} /\ AllIn(text, b, p - 1, Digits)
                       /\ p < e => text[p] = Point /\ AllIn(text, p + 1, e - 1, Digits)
                       /\ ReadAlike(Gathered(text, b, p, e - 1))
                       /\ DigitsExp10 = IF p < e THEN p + 1 - e ELSE 0
\* And none behind them.
DigitsOver(p, e) == /\ text[e] \notin Digits
                    /\ p = e => text[e] # Point
\* An exponent behind the e at e, of which the digits up to Index are read.
ExpAlike(e) == LET d == SignEnd(e + 1)
                   part == ExpPart(text, d, Index)
               IN  /\ sawDigit /\ text[e] = Exp /\ d <= Len(text) /\ AllIn(text, d, Index, Digits)
                   /\ haveExp <=> d < Len(text)
                   /\ expNeg <=> text[e + 1] = Minus
                   /\ part = truePart \/ (TinyExpCap <= part /\ part <= truePart)

\* By phases: what is known of a number whose digits are those, and of its end.
NumberRead(b, p, e) ==
  /\ DigitsRead(b, p, e)
  /\ phase \in {"int", "frac", "digitsEnd"} => e = Len(text)
  /\ phase = "int" => p = e
  /\ phase = "frac" => p < e
  /\ phase \notin {"int", "frac"} => DigitsOver(p, e)
  /\ phase \in {"expSign", "exp"} => e = parsedLen + 1
  /\ phase = "expSign" => sawDigit /\ text[e] = Exp /\ Len(text) = e + 1 /\ truePart = 0 /\ ~expNeg
  /\ phase = "exp" => ExpAlike(e)
  /\ outcome = "invalid" => ~sawDigit
  /\ outcome = "number" =>
       /\ sawDigit /\ parsedLen = IF haveExp THEN Index ELSE e - 1
       /\ Here \notin Digits
       /\ haveExp \/ text[e] = Exp => ExpAlike(e)

TwinInv ==
  /\ phase = "done" <=> outcome # "none"
  /\ phase \in {"space", "word", "payload", "int", "frac", "digitsEnd", "expSign"} =>
       truePart = 0 /\ ~expNeg
  /\ phase \in {"space", "word"} =>
       sigDigits = 0 /\ exp10 = 0 /\ exact = 0 /\ ~sawNonzero
  /\ phase \in {"word", "payload"} \/ outcome \in {"inf", "nan"} =>
       \E a \in 1 .. Len(text) : \E b \in a .. a + 1 :
         /\ Begun(a, b)
         /\ phase = "word" => b = Len(text)
         /\ phase = "payload" => b = Index /\ text[b] = Nan
         /\ outcome = "inf" => b = Len(text) /\ text[b] = Inf /\ parsedLen = b
         /\ outcome = "nan" => /\ b = Index /\ text[b] = Nan
                               /\ parsedLen = IF Here = Payload THEN Len(text) ELSE Index
  /\ outcome = "invalid" => parsedLen = 0
  /\ \/ phase \in {"space", "word", "payload"} \/ outcome \in {"inf", "nan"}
     \/ outcome = "invalid" /\ Here = End /\ AllIn(text, 1, Index, {Space})
     \/ \E a \in 1 .. Len(text) : \E b \in a .. a + 1 :
          /\ Begun(a, b)
          /\ \E p, e \in 1 .. Len(text) : b <= p /\ p <= e /\ NumberRead(b, p, e)

\* The call is made once, at the end; the inductive invariant behind the theorems on it.
TinyInv == tiny # NotCalled => phase = "done" /\ tiny = Tiny
CallInv == DigitsInv /\ ReadInv /\ TwinInv /\ TinyInv
=============================================================================
