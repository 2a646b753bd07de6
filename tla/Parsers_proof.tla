---------------------------- MODULE Parsers_proof ----------------------------
(***************************************************************************)
(* Proofs about the parsers.  First the lexer, for texts of any length and *)
(* any capacity: the digits dropped are enclosed and counted, and what is  *)
(* read is the longest prefix.  Then the words that both parsers compute   *)
(* with, for every size of a word: arithmetic on pairs is that of the      *)
(* numbers they stand for, and so is that on triples, which Eisel-Lemire   *)
(* needs.  Then the full parser: which of its paths are taken, and when a  *)
(* conversion runs out of room.  Last the tiny parser: that it reads what  *)
(* the lexer reads, divides as numbers are divided, rounds to nearest, and *)
(* keeps its contract.                                                     *)
(***************************************************************************)
EXTENDS ParseTiny, ParseFull, Texts_proof

---------------------------------------------------------------------------
(* The lexer *)

\* The symbol under the cursor is a symbol, and moving on keeps the text one.
LEMMA HereType == TypeOK => Here \in Symbols /\ Index \in Nat
BY DEF TypeOK, Here, Index

\* Revealing the next symbol keeps text a non-empty sequence of symbols.
LEMMA AdvanceType == TypeOK /\ Advance => text' \in Seq(Symbols) /\ text' # <<>>
<1> SUFFICES ASSUME TypeOK, Advance PROVE text' \in Seq(Symbols) /\ text' # <<>>
  OBVIOUS
<1>1. PICK c \in Symbols : text' = Append(text, c)
  BY AlphabetAssumption DEF Advance, Symbols, End
<1>. QED  BY <1>1 DEF TypeOK

\* Moving on from any symbol but the mark of the end keeps the text within the bound.
LEMMA AdvanceBound ==
  ASSUME TypeOK, TextInv, Advance, Here # End
  PROVE  /\ Len(text') = Len(text) + 1
         /\ Len(text') <= MaxLen \/ (Len(text') = MaxLen + 1 /\ Here' = End)
<1>1. text \in Seq(Symbols) /\ Len(text) \in Nat /\ MaxLen \in Nat
  BY BoundsAssumption DEF TypeOK
<1>2. PICK c \in Symbols : text' = Append(text, c) /\ (Len(text) >= MaxLen => c = End)
  BY <1>1, AlphabetAssumption DEF Advance, Symbols, End
<1>3. Len(text') = Len(text) + 1 /\ text'[Len(text) + 1] = c
  BY <1>1, <1>2
<1>4. Here' = c
  BY <1>3 DEF Here
<1>. QED  BY <1>1, <1>2, <1>3, <1>4 DEF TextInv

\* Powers of ten, as far as the digits of a text go.
LEMMA PowersOfTen ==
  ASSUME NEW n \in 0 .. MaxLen
  PROVE  /\ 10 ^ n \in Nat \ {0} /\ 10 ^ 0 = 1
         /\ n < MaxLen => 10 ^ (n + 1) = 10 * 10 ^ n
<1>1. MaxLen \in Nat
  BY BoundsAssumption
<1>2. 10 ^ n \in Nat \ {0}
  BY <1>1, PowersAssumption, PowerPositive
<1>. QED  BY <1>1, <1>2, PowersAssumption DEF PowersUpTo

\* A digit more makes a number of so many digits one of one digit more.
LEMMA OneDigitMore ==
  ASSUME NEW n \in 1 .. MaxLen - 1, NEW x \in Nat, NEW d \in 0 .. 9,
         10 ^ (n - 1) <= x, x < 10 ^ n
  PROVE  10 ^ n <= 10 * x + d /\ 10 * x + d < 10 ^ (n + 1)
<1>1. n - 1 \in 0 .. MaxLen /\ n \in 0 .. MaxLen /\ (n - 1) + 1 = n /\ n - 1 < MaxLen /\ n < MaxLen
  BY BoundsAssumption
<1>2. 10 ^ ((n - 1) + 1) = 10 * 10 ^ (n - 1) /\ 10 ^ (n - 1) \in Nat
  BY <1>1, PowersOfTen
<1>3. 10 ^ (n + 1) = 10 * 10 ^ n /\ 10 ^ n \in Nat
  BY <1>1, PowersOfTen
<1>. QED  BY <1>1, <1>2, <1>3

\* Dropping or keeping one digit keeps the enclosure.
LEMMA DropEncloses ==
  ASSUME NEW s \in Nat, NEW w \in Nat, NEW x \in Nat, NEW d \in 0 .. 9,
         w > 0, s * w <= x, x < (s + 1) * w
  PROVE  /\ s * (10 * w) <= 10 * x + d
         /\ 10 * x + d < (s + 1) * (10 * w)
         /\ 10 * x + d = s * (10 * w) <=> x = s * w /\ d = 0
<1> DEFINE a == s * w
           b == (s + 1) * w
<1>1. a \in Nat /\ b \in Nat /\ a <= x /\ x < b
  OBVIOUS
<1>2. s * (10 * w) = 10 * a /\ (s + 1) * (10 * w) = 10 * b
  OBVIOUS
<1> HIDE DEF a, b
<1>3. /\ 10 * a <= 10 * x + d /\ 10 * x + d < 10 * b
      /\ 10 * x + d = 10 * a <=> x = a /\ d = 0
  BY <1>1
<1>. QED  BY <1>2, <1>3 DEF a

\* A digit of the mantissa, kept, dropped or a leading zero, keeps what DigitsInv says
\* of the significand.
LEMMA TakeDigitKeepsInv ==
  ASSUME DigitsInv, NEW d \in Digits, TakeDigit(d)
  PROVE  /\ sawDigit' \in BOOLEAN /\ sawNonzero' \in BOOLEAN /\ sigIsU64' \in BOOLEAN
         /\ truncated' \in BOOLEAN /\ droppedNonzero' \in BOOLEAN
         /\ sig' \in Nat /\ sigDigits' \in Nat /\ dropped' \in Nat
         /\ exact' \in Nat /\ weight' \in Nat
         /\ Enclosed' /\ DropsOnlyWhenFull'
         /\ weight' > 0
         /\ ~truncated' => weight' = 1
         /\ ~sawNonzero' => sig' = 0 /\ ~truncated' /\ sigIsU64'
<1> USE DEF DigitsInv, TypeOK, TakeDigit, Digits, CountsDigits
<1>1. CASE ~(sawNonzero \/ d # 0)
  <2>1. /\ exact' = exact /\ sawNonzero' = sawNonzero
        /\ UNCHANGED <<sigDigits, sigIsU64, truncated, droppedNonzero, sig, dropped, weight>>
    BY <1>1
  <2>2. Enclosed' /\ DropsOnlyWhenFull'
    BY <2>1 DEF Enclosed, DropsOnlyWhenFull
  <2>. QED  BY <2>1, <2>2
<1>2. CASE sawNonzero \/ d # 0
  <2> DEFINE next == 10 * sig + d
             fits == (sigIsU64 /\ next <= U64Max) \/ next <= SigMax
  <2>1. CASE ~truncated /\ fits
    <3>1. KeepDigit(d) /\ sigIsU64' = (sigIsU64 /\ next <= U64Max)
      BY <1>2, <2>1, BoundsAssumption DEF AppendDigit, DropDigit
    <3>. QED
      BY <1>2, <2>1, <3>1, BoundsAssumption DEF KeepDigit, Enclosed, DropsOnlyWhenFull
  <2>2. CASE truncated \/ ~fits
    <3>1. DropDigit(d) /\ sigIsU64' = FALSE
      BY <1>2, <2>2, BoundsAssumption DEF AppendDigit, KeepDigit, DropsOnlyWhenFull
    <3>2. /\ sig * (10 * weight) <= 10 * exact + d
          /\ 10 * exact + d < (sig + 1) * (10 * weight)
          /\ 10 * exact + d = sig * (10 * weight) <=> exact = sig * weight /\ d = 0
      BY DropEncloses DEF Enclosed
    <3>3. Enclosed'
      BY <1>2, <3>1, <3>2 DEF DropDigit, Enclosed, DropsOnlyWhenFull
    <3>4. DropsOnlyWhenFull'
      BY <1>2, <2>2, <3>1, BoundsAssumption, RoomAssumption DEF DropDigit, DropsOnlyWhenFull
    <3>5. /\ sawNonzero' /\ truncated' /\ sawDigit'
          /\ sawNonzero' \in BOOLEAN /\ truncated' \in BOOLEAN /\ sawDigit' \in BOOLEAN
          /\ sig' = sig /\ sigDigits' = sigDigits + 1 /\ weight' = 10 * weight
          /\ dropped' = IF truncated THEN dropped + 1 ELSE 1
          /\ exact' = 10 * exact + d /\ droppedNonzero' \in BOOLEAN
      BY <1>2, <3>1 DEF DropDigit
    <3>6. /\ sigDigits' \in Nat /\ dropped' \in Nat /\ exact' \in Nat
          /\ weight' \in Nat /\ weight' > 0
      BY <3>5
    <3>. QED  BY <3>1, <3>3, <3>4, <3>5, <3>6, Zenon
  <2>. QED  BY <2>1, <2>2
<1>. QED  BY <1>1, <1>2

\* The counts of digits go with the number they count.
LEMMA TakeDigitCounts ==
  ASSUME DigitsInv, NEW d \in Digits, TakeDigit(d), Advance, Here # End
  PROVE  CountsDigits' /\ TextInv'
<1>1. /\ Len(text') = Len(text) + 1
      /\ Len(text') <= MaxLen \/ (Len(text') = MaxLen + 1 /\ Here' = End)
  BY AdvanceBound DEF DigitsInv
<1>2. /\ Len(text) \in Nat /\ sigDigits \in Nat /\ dropped \in Nat /\ exact \in Nat /\ d \in 0 .. 9
      /\ sigDigits < Len(text) /\ Len(text) <= MaxLen /\ dropped <= sigDigits
      /\ sawNonzero \in BOOLEAN /\ truncated \in BOOLEAN /\ MaxLen \in Nat
  BY BoundsAssumption DEF DigitsInv, TypeOK, TextInv, CountsDigits, Digits
<1>3. CASE ~(sawNonzero \/ d # 0)
  <2>1. /\ exact' = exact /\ sawNonzero' = sawNonzero /\ UNCHANGED <<sigDigits, dropped, weight>>
    BY <1>2, <1>3 DEF TakeDigit, DigitsInv, CountsDigits
  <2>. QED  BY <1>1, <1>2, <1>3, <2>1 DEF DigitsInv, CountsDigits, TextInv
<1>4. CASE sawNonzero \/ d # 0
  <2>1. /\ sawNonzero' = TRUE /\ sigDigits' = sigDigits + 1 /\ exact' = 10 * exact + d
        /\ AppendDigit(d)
    BY <1>4 DEF TakeDigit
  <2>2. TextInv'
    BY <1>1, <1>2, <2>1 DEF TextInv
  <2>3. weight' = 10 ^ (dropped') /\ dropped' <= sigDigits'
    <3>1. CASE UNCHANGED <<dropped, weight>>
      BY <1>2, <2>1, <3>1 DEF DigitsInv, CountsDigits
    <3>2. CASE DropDigit(d)
      <4>1. dropped' = dropped + 1 /\ weight' = 10 * weight
        BY <1>2, <3>2 DEF DropDigit, DigitsInv, DropsOnlyWhenFull
      <4>2. 10 ^ (dropped + 1) = 10 * 10 ^ dropped
        BY <1>2, PowersOfTen
      <4>. QED  BY <1>2, <2>1, <4>1, <4>2 DEF DigitsInv, CountsDigits
    <3>. QED  BY <2>1, <3>1, <3>2 DEF AppendDigit, KeepDigit
  <2>4. 10 ^ (sigDigits' - 1) <= exact' /\ exact' < 10 ^ (sigDigits')
    <3>1. sigDigits' - 1 = sigDigits
      BY <1>2, <2>1
    <3>2. 10 ^ sigDigits <= 10 * exact + d /\ 10 * exact + d < 10 ^ (sigDigits + 1)
      <4>1. CASE sawNonzero
        <5>1. sigDigits \in 1 .. MaxLen - 1 /\ 10 ^ (sigDigits - 1) <= exact /\ exact < 10 ^ sigDigits
          BY <1>2, <4>1 DEF DigitsInv, TextInv, CountsDigits
        <5>. QED  BY <1>2, <5>1, OneDigitMore
      <4>2. CASE ~sawNonzero
        <5>1. exact = 0 /\ sigDigits = 0 /\ d # 0
          BY <1>4, <4>2 DEF DigitsInv, CountsDigits
        <5>2. 10 ^ 0 = 1 /\ 10 ^ (0 + 1) = 10 * 10 ^ 0
          BY <1>2, PowersOfTen
        <5>. QED  BY <1>2, <5>1, <5>2
      <4>. QED  BY <4>1, <4>2
    <3>. QED  BY <2>1, <3>1, <3>2
  <2>. QED  BY <2>1, <2>2, <2>3, <2>4 DEF CountsDigits
<1>. QED  BY <1>3, <1>4

\* The steps that read no digit of the mantissa leave the significand alone.
LEMMA Frame ==
  ASSUME DigitsInv, UNCHANGED digitsRead,
         text' \in Seq(Symbols), text' # <<>>, UNCHANGED text \/ (Advance /\ Here # End),
         phase' \in Phases, outcome' \in Outcomes, parsedLen' \in Nat,
         negative' \in BOOLEAN, exp10' \in Int,
         expNeg' \in BOOLEAN, haveExp' \in BOOLEAN, expPart' \in Nat, truePart' \in Nat
  PROVE  DigitsInv'
<1>1. Enclosed' /\ DropsOnlyWhenFull'
  BY DEF digitsRead, DigitsInv, Enclosed, DropsOnlyWhenFull
<1>2. TextInv'
  <2>1. CASE UNCHANGED text
    BY <2>1 DEF digitsRead, DigitsInv, TextInv, Here
  <2>2. CASE Advance /\ Here # End
    <3>1. /\ Len(text') = Len(text) + 1
          /\ Len(text') <= MaxLen \/ (Len(text') = MaxLen + 1 /\ Here' = End)
      BY <2>2, AdvanceBound DEF DigitsInv
    <3>2. Len(text) \in Nat /\ sigDigits \in Nat
      BY DEF DigitsInv, TypeOK
    <3>. QED  BY <3>1, <3>2 DEF digitsRead, DigitsInv, TextInv
  <2>. QED  BY <2>1, <2>2
<1>3. CountsDigits'
  BY DEF digitsRead, DigitsInv, CountsDigits
<1>. QED  BY <1>1, <1>2, <1>3 DEF digitsRead, DigitsInv, TypeOK

\* Every step of the lexer keeps the invariant.
LEMMA InvStep == DigitsInv /\ [Next]_vars => DigitsInv'
<1> SUFFICES ASSUME DigitsInv, [Next]_vars PROVE DigitsInv'
  OBVIOUS
<1>0. Here \in Symbols /\ Index \in Nat
  BY HereType DEF DigitsInv
<1>a. Advance => text' \in Seq(Symbols) /\ text' # <<>>
  BY AdvanceType DEF DigitsInv
<1>1. CASE SkipSpace \/ Sign \/ NotANumber \/ NoWord \/ IntEnd \/ FracEnd \/ Exponent
  <2>1. UNCHANGED text \/ (Advance /\ Here # End)
    BY <1>1 DEF SkipSpace, Sign, NotANumber, NoWord, IntEnd, FracEnd, Exponent,
                Space, Plus, Minus, Nan, Point, Exp, End
  <2>. QED
    BY <1>0, <1>a, <1>1, <2>1, Frame
       DEF SkipSpace, Sign, NotANumber, NoWord, IntEnd, FracEnd, Exponent, outcomes,
           exponent, DigitsInv, TypeOK, Phases
<1>2. CASE Empty \/ Infinity \/ NanPayload \/ NoDigits \/ NoExponent
  BY <1>0, <1>2, Frame
     DEF Empty, Infinity, NanPayload, NoDigits, NoExponent, Finish,
         exponent, DigitsInv, TypeOK, Phases, Outcomes
<1>3. CASE IntDigit \/ FracDigit
  <2>1. Here \in Digits /\ TakeDigit(Here) /\ Advance
    BY <1>3 DEF IntDigit, FracDigit
  <2>2. text' \in Seq(Symbols) /\ text' # <<>>
    BY <2>1, AdvanceType DEF DigitsInv
  <2>3. /\ UNCHANGED <<phase, outcome, parsedLen, negative, expNeg, haveExp, expPart, truePart>>
        /\ exp10' \in Int
    BY <1>3 DEF IntDigit, FracDigit, outcomes, exponent, DigitsInv, TypeOK
  <2>4. Here # End
    BY <2>1 DEF Digits, End
  <2>. QED  BY <2>1, <2>2, <2>3, <2>4, TakeDigitKeepsInv, TakeDigitCounts DEF DigitsInv, TypeOK
<1>4. CASE ExpSign \/ ExpDigit \/ ExpEnd
  <2>1. text' \in Seq(Symbols) /\ text' # <<>>
    BY <1>4, <1>a DEF ExpSign, ExpDigit, ExpEnd, DigitsInv, TypeOK
  <2>2. CASE ExpSign
    <3>1. UNCHANGED text \/ (Advance /\ Here # End)
      BY <2>2 DEF ExpSign, Plus, Minus, End
    <3>. QED  BY <2>1, <2>2, <3>1, Frame DEF ExpSign, outcomes, DigitsInv, TypeOK, Phases
  <2>3. CASE ExpDigit
    <3>1. expPart' \in Nat /\ truePart' \in Nat
      BY <2>3 DEF ExpDigit, Digits, DigitsInv, TypeOK
    <3>2. Advance /\ Here # End
      BY <2>3 DEF ExpDigit, Digits, End
    <3>. QED  BY <2>1, <2>3, <3>1, <3>2, Frame DEF ExpDigit, outcomes, DigitsInv, TypeOK
  <2>4. CASE ExpEnd
    <3>1. exp10' \in Int
      BY <2>4 DEF ExpEnd, DigitsInv, TypeOK
    <3>. QED
      BY <1>0, <2>1, <2>4, <3>1, Frame
         DEF ExpEnd, Finish, exponent, DigitsInv, TypeOK, Phases, Outcomes
  <2>. QED  BY <1>4, <2>2, <2>3, <2>4
<1>5. CASE UNCHANGED vars
  BY <1>5, Frame DEF vars, outcomes, exponent, DigitsInv, TypeOK
<1>. QED  BY <1>1, <1>2, <1>3, <1>4, <1>5 DEF Next

---------------------------------------------------------------------------
(* What was read of a numeral: where its parts start and end. *)

LEMMA TextRead ==
  ASSUME TypeOK
  PROVE  /\ text \in Seq(Symbols) /\ Len(text) \in Nat \ {0} /\ Index = Len(text) - 1
         /\ Index \in Nat /\ Here = text[Len(text)]
         /\ \A k \in 1 .. Len(text) : text[k] \in Symbols
BY DEF TypeOK, Index, Here

\* The symbols already read stay when one is revealed.
LEMMA Revealing ==
  ASSUME TypeOK, Advance
  PROVE  /\ Len(text') = Len(text) + 1 /\ Index' = Len(text)
         /\ \A k \in 1 .. Len(text) : text'[k] = text[k]
<1>1. PICK c \in Symbols : text' = Append(text, c)
  BY AlphabetAssumption DEF Advance, Symbols, End
<1>2. text \in Seq(Symbols) /\ Len(text) \in Nat
  BY DEF TypeOK
<1>. QED  BY <1>1, <1>2 DEF Index

LEMMA NoEndBefore ==
  ASSUME TypeOK, ReadInv, UNCHANGED text \/ (Advance /\ Here # End)
  PROVE  \A k \in 1 .. Index' : text'[k] # End
<1>1. CASE UNCHANGED text
  BY <1>1 DEF ReadInv, Index
<1>2. CASE Advance /\ Here # End
  BY <1>2, TextRead, Revealing DEF ReadInv
<1>. QED  BY <1>1, <1>2

\* What stands at positions read keeps standing there.
LEMMA PartsStay ==
  ASSUME TypeOK, UNCHANGED text \/ Advance
  PROVE  /\ \A a, b \in Int : \A S : a >= 1 /\ b <= Len(text) /\ AllIn(text, a, b, S) => AllIn(text', a, b, S)
         /\ \A k \in 1 .. Len(text) : SignEnd(k)' = SignEnd(k)
         /\ \A a \in 1 .. Len(text), b \in Int : Begins(a, b) => Begins(a, b)'
         /\ Len(text') >= Len(text) /\ Len(text') \in Nat
<1>1. \A k \in 1 .. Len(text) : text'[k] = text[k]
  BY Revealing
<1>2. Len(text') >= Len(text) /\ Len(text') \in Nat /\ Len(text) \in Nat
  BY TextRead, Revealing
<1>3. \A a, b \in Int : \A S : a >= 1 /\ b <= Len(text) /\ AllIn(text, a, b, S) => AllIn(text', a, b, S)
  BY <1>1, <1>2 DEF AllIn
<1>4. \A k \in 1 .. Len(text) : SignEnd(k)' = SignEnd(k)
  BY <1>1 DEF SignEnd
<1>5. ASSUME NEW a \in 1 .. Len(text), NEW b \in Int, Begins(a, b)
      PROVE  Begins(a, b)'
  <2>1. AllIn(text', 1, a - 1, {Space})
    <3>1. AllIn(text, 1, a - 1, {Space}) /\ a - 1 \in Int /\ 1 \in Int /\ a - 1 <= Len(text)
      BY <1>2, <1>5 DEF Begins
    <3>. QED  BY <1>3, <3>1
  <2>2. text'[a] # Space /\ b = SignEnd(a)' /\ b <= Len(text')
    BY <1>1, <1>2, <1>4, <1>5 DEF Begins
  <2>. QED  BY <2>1, <2>2 DEF Begins
<1>. QED  BY <1>2, <1>3, <1>4, <1>5

LEMMA MantissaStays ==
  ASSUME TypeOK, UNCHANGED text \/ Advance, sawDigit' = sawDigit,
         NEW b \in Int, NEW e \in Int, b >= 1, e <= Len(text) + 1, Mantissa(b, e)
  PROVE  Mantissa(b, e)'
<1>1. \A k \in b .. e - 1 : k \in 1 .. Len(text) /\ k \in Int
  BY TextRead
<1>2. \A k \in b .. e - 1 : text'[k] = text[k]
  BY <1>1, Revealing
<1>3. AllIn(text', b, e - 1, Digits \cup {Point})
  BY <1>2 DEF Mantissa, AllIn
<1>4. \A k \in b .. e - 1 : text'[k] = Point => AllIn(text', k + 1, e - 1, Digits)
  BY <1>1, <1>2 DEF Mantissa, AllIn
<1>5. sawDigit' <=> \E k \in b .. e - 1 : text'[k] \in Digits
  BY <1>2 DEF Mantissa
<1>. QED  BY <1>3, <1>4, <1>5 DEF Mantissa

\* One symbol more of the mantissa: a digit, or the first point.
LEMMA MantissaGrows ==
  ASSUME TypeOK, Advance, NEW b \in 1 .. Len(text), Mantissa(b, Len(text)),
         \/ Here \in Digits /\ sawDigit' = TRUE
         \/ Here = Point /\ AllIn(text, b, Index, Digits) /\ sawDigit' = sawDigit
  PROVE  Mantissa(b, Len(text))'
<1> DEFINE n == Len(text)
<1>1. n \in Nat /\ Len(text') = n + 1 /\ \A k \in 1 .. n : text'[k] = text[k]
  BY TextRead, Revealing
<1>2. Here = text[n] /\ Index = n - 1
  BY TextRead
<1> HIDE DEF n
<1>3. /\ AllIn(text, b, n - 1, Digits \cup {Point})
      /\ \A k \in b .. n - 1 : text[k] = Point => AllIn(text, k + 1, n - 1, Digits)
      /\ sawDigit <=> \E k \in b .. n - 1 : text[k] \in Digits
  BY DEF Mantissa, n
<1>4. b \in 1 .. n /\ \A k \in b .. n : k \in 1 .. n /\ (k = n \/ k \in b .. n - 1)
  BY <1>1 DEF n
<1>5. AllIn(text', b, n, Digits \cup {Point})
  BY <1>1, <1>2, <1>3, <1>4 DEF AllIn
<1>6. \A k \in b .. n : text'[k] = Point => AllIn(text', k + 1, n, Digits)
  <2> SUFFICES ASSUME NEW k \in b .. n, text'[k] = Point, NEW j \in k + 1 .. n
               PROVE  text'[j] \in Digits
    BY DEF AllIn
  <2>1. k \in b .. n - 1 /\ text[k] = Point /\ j \in 1 .. n /\ (j = n \/ j \in k + 1 .. n - 1)
        /\ text'[j] = text[j]
    BY <1>1, <1>4
  <2>2. CASE Here \in Digits
    BY <2>1, <2>2, <1>2, <1>3 DEF AllIn
  <2>3. CASE AllIn(text, b, Index, Digits)
    BY <2>1, <2>3, <1>2 DEF AllIn, Digits, Point
  <2>. QED  BY <2>2, <2>3
<1>7. sawDigit' <=> \E k \in b .. n : text'[k] \in Digits
  <2>1. CASE Here \in Digits /\ sawDigit' = TRUE
    BY <2>1, <1>1, <1>2, <1>4
  <2>2. CASE Here = Point /\ sawDigit' = sawDigit
    <3>1. text'[n] \notin Digits
      BY <2>2, <1>1, <1>2, <1>4 DEF Digits, Point
    <3>2. \A k \in b .. n - 1 : k \in b .. n /\ text'[k] = text[k]
      BY <1>1, <1>4
    <3>. QED  BY <2>2, <3>1, <3>2, <1>3, <1>4
  <2>. QED  BY <2>1, <2>2
<1>8. Len(text') - 1 = n
  BY <1>1
<1>. QED  BY <1>5, <1>6, <1>7, <1>8 DEF Mantissa

LEMMA ExpStays ==
  ASSUME TypeOK, UNCHANGED text \/ Advance, UNCHANGED <<sawDigit, parsedLen>>,
         NEW b \in Int, b >= 1, ExpRead(b)
  PROVE  ExpRead(b)'
<1>1. /\ Index = Len(text) - 1 /\ Len(text) \in Nat /\ parsedLen \in Nat
      /\ parsedLen + 1 \in b .. Index /\ text[parsedLen + 1] = Exp /\ Mantissa(b, parsedLen + 1)
      /\ sawDigit
  BY TextRead DEF ExpRead, TypeOK
<1>2. Index' >= Index /\ Index' \in Int
  BY <1>1, Revealing DEF Index
<1>3. text'[parsedLen + 1] = Exp
  BY <1>1, Revealing
<1>4. Mantissa(b, parsedLen + 1)'
  <2> DEFINE e == parsedLen + 1
  <2>1. e \in Int /\ e <= Len(text) + 1 /\ Mantissa(b, e) /\ e' = e
    BY <1>1
  <2> HIDE DEF e
  <2>. QED  
    <3>1. e \in Int
      BY <2>1
    <3>. QED  BY <2>1, MantissaStays DEF e, Mantissa
<1>. QED  BY <1>1, <1>2, <1>3, <1>4 DEF ExpRead

\* Where no part of a numeral is under way, only its beginning matters.
LEMMA QuietRead ==
  ASSUME ReadInv, TypeOK, UNCHANGED text \/ (Advance /\ Here # End),
         phase' \in {"payload", "done"}, UNCHANGED haveExp,
         phase' = "payload" => phase = "word" /\ outcome' = outcome
  PROVE  ReadInv'
<1>1. \A k \in 1 .. Index' : text'[k] # End
  BY NoEndBefore
<1>. QED  BY <1>1 DEF ReadInv

LEMMA SpaceRead ==
  ASSUME ReadInv, TypeOK, SkipSpace \/ Sign
  PROVE  ReadInv'
<1> DEFINE n == Len(text)
<1>1. /\ phase = "space" /\ AllIn(text, 1, n - 1, {Space}) /\ Here = text[n] /\ n \in Nat \ {0}
      /\ ~sawDigit /\ ~haveExp /\ outcome = "none" /\ Index = n - 1
      /\ UNCHANGED <<sawDigit, haveExp, outcome, parsedLen>>
  BY TextRead DEF SkipSpace, Sign, ReadInv, digitsRead, exponent, outcomes
<1>2. UNCHANGED text \/ (Advance /\ Here # End)
  BY DEF SkipSpace, Sign, Space, End, Plus, Minus
<1>3. \A k \in 1 .. Index' : text'[k] # End
  BY <1>2, NoEndBefore
<1>4. CASE SkipSpace
  <2>1. phase' = "space" /\ Advance /\ text[n] = Space
    BY <1>1, <1>4 DEF SkipSpace
  <2>2. Index' = n /\ \A k \in 1 .. n : text'[k] = text[k]
    BY <2>1, Revealing
  <2>3. AllIn(text', 1, n, {Space})
    <3>1. \A k \in 1 .. n : k = n \/ k \in 1 .. n - 1
      BY <1>1
    <3>. QED  BY <3>1, <2>1, <2>2, <1>1 DEF AllIn
  <2>. QED  BY <1>1, <1>3, <2>1, <2>2, <2>3 DEF ReadInv
<1>5. CASE Sign
  <2>1. phase' = "word" /\ text[n] # Space
    BY <1>1, <1>5 DEF Sign
  <2>2. n \in 1 .. Len(text') /\ Len(text') \in n .. n + 1 /\ Len(text') \in 1 .. Len(text')
        /\ \A k \in 1 .. n : text'[k] = text[k]
    BY <1>1, <1>2, Revealing
  <2>3. AllIn(text', 1, n - 1, {Space})
    BY <2>2, <1>1 DEF AllIn
  <2>4. Len(text') = IF text[n] \in {Plus, Minus} THEN n + 1 ELSE n
    BY <1>1, <1>5, Revealing DEF Sign
  <2>5. PICK a \in Nat, b \in Nat : a = n /\ b = Len(text')
    BY <2>2, <1>1
  <2>6. Begins(a, b)'
    <3>1. text'[a] = text[a] /\ b <= Len(text')
      BY <2>2, <2>5, <1>1
    <3>. QED  BY <3>1, <2>1, <2>3, <2>4, <2>5 DEF Begins, SignEnd
  <2>7. a \in 1 .. Len(text') /\ b \in a .. a + 1 /\ b = Len(text')
    BY <2>2, <2>5, <1>1
  <2>8. Parts(a, b)'
    BY <2>1, <2>6, <2>7 DEF Parts
  <2>. QED  BY <1>1, <1>3, <2>1, <2>7, <2>8 DEF ReadInv
<1>. QED  BY <1>4, <1>5

LEMMA NumeralRead ==
  ASSUME ReadInv, TypeOK,
         NoWord \/ IntDigit \/ IntEnd \/ FracDigit \/ FracEnd \/ Exponent \/ ExpSign \/ ExpDigit
  PROVE  ReadInv'
<1> DEFINE n == Len(text)
<1>1. /\ phase \in {"word", "int", "frac", "digitsEnd", "expSign", "exp"}
      /\ phase' \in {"word", "int", "frac", "digitsEnd", "expSign", "exp"}
      /\ UNCHANGED text \/ (Advance /\ Here # End)
      /\ phase' # "exp" => ~haveExp'
      /\ outcome' = "none" /\ phase' # "word"
  <2>1. outcome = "none" /\ (phase # "exp" => ~haveExp)
    BY DEF NoWord, IntDigit, IntEnd, FracDigit, FracEnd, Exponent, ExpSign, ExpDigit, ReadInv
  <2>. QED
    BY <2>1 DEF NoWord, IntDigit, IntEnd, FracDigit, FracEnd, Exponent, ExpSign, ExpDigit,
                outcomes, exponent, Digits, Point, Exp, Plus, Minus, End
<1>a. PICK a \in 1 .. n : \E b \in a .. a + 1 : Parts(a, b)
  BY <1>1 DEF ReadInv
<1>2. PICK b \in a .. a + 1 : Parts(a, b)
  BY <1>a
<1>3. /\ n \in Nat \ {0} /\ b \in 1 .. n /\ a \in Nat /\ Index = n - 1 /\ Here = text[n]
      /\ \A k \in 1 .. n : text[k] \in Symbols
  <2>1. b <= n
    BY <1>2 DEF Parts, Begins
  <2>. QED  BY <2>1, TextRead
<1>4. Begins(a, b)' /\ Len(text') >= n /\ Len(text') \in Nat
  BY <1>1, <1>2, <1>3, PartsStay DEF Parts
<1>5. \A k \in 1 .. Index' : text'[k] # End
  BY <1>1, NoEndBefore
<1>6. SUFFICES Parts(a, b)'
  <2>1. a \in 1 .. Len(text')
    BY <1>3, <1>4
  <2>. QED  BY <2>1, <1>1, <1>5 DEF ReadInv
<1> HIDE DEF n
<1>7. CASE NoWord
  <2>1. phase = "word" /\ phase' = "int" /\ UNCHANGED <<text, sawDigit>> /\ ~sawDigit /\ b = n
    BY <1>2, <1>7 DEF NoWord, Parts, ReadInv, digitsRead, n
  <2>2. \A k \in Int : ~(k \in b .. n - 1)
    BY <2>1, <1>3
  <2>3. Mantissa(b, Len(text))'
    BY <2>1, <2>2 DEF Mantissa, AllIn, n
  <2>4. AllIn(text, b, Index, Digits)'
    BY <2>1, <2>2, <1>3 DEF AllIn, Index, n
  <2>. QED  BY <2>1, <2>3, <2>4, <1>4 DEF Parts
<1>8. CASE IntDigit
  <2>1. phase = "int" /\ phase' = "int" /\ Here \in Digits /\ sawDigit' = TRUE /\ Advance
        /\ Mantissa(b, Len(text)) /\ AllIn(text, b, n - 1, Digits)
    BY <1>2, <1>3, <1>8 DEF IntDigit, TakeDigit, Parts
  <2>2. Mantissa(b, Len(text))'
    BY <2>1, <1>3, MantissaGrows DEF n
  <2>3. AllIn(text', b, Index', Digits)
    <3>1. Index' = n /\ \A k \in 1 .. n : text'[k] = text[k]
      BY <2>1, Revealing DEF n
    <3>2. \A k \in b .. n : k \in 1 .. n /\ (k = n \/ k \in b .. n - 1)
      BY <1>3
    <3>. QED  BY <3>1, <3>2, <2>1, <1>3 DEF AllIn
  <2>. QED  BY <2>1, <2>2, <2>3, <1>4 DEF Parts
<1>9. CASE IntEnd
  <2>1. phase = "int" /\ Here \notin Digits /\ sawDigit' = sawDigit
        /\ Mantissa(b, Len(text)) /\ AllIn(text, b, Index, Digits)
        /\ \/ Here = Point /\ phase' = "frac" /\ Advance
           \/ Here # Point /\ phase' = "digitsEnd" /\ UNCHANGED text
    BY <1>2, <1>3, <1>9 DEF IntEnd, Parts, digitsRead
  <2>2. CASE Here = Point /\ phase' = "frac" /\ Advance
    <3>1. Mantissa(b, Len(text))'
      BY <2>1, <2>2, <1>3, MantissaGrows DEF n
    <3>2. \E k \in b .. Index' : text'[k] = Point
      <4>1. Index' = n /\ \A k \in 1 .. n : text'[k] = text[k]
        BY <2>2, Revealing DEF n
      <4>2. n \in b .. n /\ n \in 1 .. n
        BY <1>3
      <4>. QED  BY <4>1, <4>2, <2>2, <1>3
    <3>. QED  BY <2>2, <3>1, <3>2, <1>4 DEF Parts
  <2>3. CASE Here # Point /\ phase' = "digitsEnd" /\ UNCHANGED text
    <3>1. Mantissa(b, Len(text))'
      BY <2>1, <2>3 DEF Mantissa
    <3>. QED  BY <2>1, <2>3, <3>1, <1>4 DEF Parts, Here
  <2>. QED  BY <2>1, <2>2, <2>3
<1>10. CASE FracDigit
  <2>1. phase = "frac" /\ phase' = "frac" /\ Here \in Digits /\ sawDigit' = TRUE /\ Advance
        /\ Mantissa(b, Len(text)) /\ \E k \in b .. Index : text[k] = Point
    BY <1>2, <1>10 DEF FracDigit, TakeDigit, Parts
  <2>2. Mantissa(b, Len(text))'
    BY <2>1, <1>3, MantissaGrows DEF n
  <2>3. \E k \in b .. Index' : text'[k] = Point
    <3>1. Index' = n /\ \A k \in 1 .. n : text'[k] = text[k]
      BY <2>1, Revealing DEF n
    <3>2. \A k \in b .. n - 1 : k \in b .. n /\ k \in 1 .. n
      BY <1>3
    <3>. QED  BY <3>1, <3>2, <2>1, <1>3
  <2>. QED  BY <2>1, <2>2, <2>3, <1>4 DEF Parts
<1>11. CASE FracEnd
  <2>1. phase = "frac" /\ phase' = "digitsEnd" /\ Here \notin Digits /\ UNCHANGED <<text, sawDigit>>
        /\ Mantissa(b, Len(text)) /\ \E k \in b .. Index : text[k] = Point
    BY <1>2, <1>11 DEF FracEnd, Parts, digitsRead
  <2>2. Mantissa(b, Len(text))'
    BY <2>1 DEF Mantissa
  <2>. QED  BY <2>1, <2>2, <1>4 DEF Parts, Here, Index
<1>12. CASE Exponent
  <2>1. phase = "digitsEnd" /\ phase' = "expSign" /\ Here = Exp /\ Advance /\ parsedLen' = n - 1
        /\ sawDigit /\ sawDigit' = sawDigit /\ Mantissa(b, n)
    BY <1>2, <1>3, <1>12 DEF Exponent, Parts, digitsRead, n
  <2>2. Index' = n /\ Len(text') = n + 1 /\ \A k \in 1 .. n : text'[k] = text[k]
    BY <2>1, Revealing DEF n
  <2>3. Mantissa(b, parsedLen + 1)'
    <3>1. parsedLen' + 1 = n
      BY <2>1, <1>3
    <3>2. n \in Int /\ b \in Int /\ b >= 1 /\ n <= Len(text) + 1
      BY <1>3 DEF n
    <3> DEFINE e == parsedLen' + 1
    <3>3. \A k \in b .. n - 1 : k \in 1 .. n /\ text'[k] = text[k]
      BY <2>2, <1>3
    <3>. QED  BY <2>1, <3>1, <3>3 DEF Mantissa, AllIn
  <2>4. ExpRead(b)'
    <3>1. parsedLen' + 1 = n /\ n \in b .. n /\ n \in 1 .. n
      BY <2>1, <1>3
    <3>. QED  BY <2>1, <2>2, <2>3, <3>1, <1>3 DEF ExpRead
  <2>5. Len(text') = parsedLen' + 2
    BY <2>1, <2>2, <1>3
  <2>. QED  BY <2>1, <2>4, <2>5, <1>4 DEF Parts
<1>13. CASE ExpSign
  <2>1. phase = "expSign" /\ phase' = "exp" /\ UNCHANGED <<sawDigit, parsedLen, haveExp>> /\ ~haveExp
        /\ ExpRead(b) /\ n = parsedLen + 2 /\ parsedLen \in Nat
        /\ \/ Here \in {Plus, Minus} /\ Advance
           \/ Here \notin {Plus, Minus} /\ UNCHANGED text
    BY <1>2, <1>13 DEF ExpSign, Parts, ReadInv, digitsRead, outcomes, TypeOK, n
  <2>2. ExpRead(b)'
    BY <2>1, <1>3, ExpStays
  <2>3. parsedLen' + 2 = n /\ text'[n] = text[n] /\ Index' = Len(text') - 1
    BY <2>1, <1>3, Revealing DEF n, Index
  <2>4. SignEnd(parsedLen + 2)' = Len(text')
    <3>1. SignEnd(parsedLen + 2)' = IF text[n] \in {Plus, Minus} THEN n + 1 ELSE n
      BY <2>1, <2>3 DEF SignEnd
    <3>. QED  BY <3>1, <2>1, <1>3, Revealing DEF n
  <2>5. AllIn(text', Len(text'), Index', Digits)
    BY <2>3, <1>4 DEF AllIn
  <2>. QED  BY <2>1, <2>2, <2>4, <2>5, <1>4 DEF Parts
<1>14. CASE ExpDigit
  <2> DEFINE p == parsedLen + 2
             d == SignEnd(p)
  <2>1. phase = "exp" /\ phase' = "exp" /\ UNCHANGED <<sawDigit, parsedLen>> /\ haveExp' = TRUE
        /\ ExpRead(b) /\ Here \in Digits /\ Advance
        /\ d <= n /\ AllIn(text, d, n - 1, Digits) /\ parsedLen \in Nat
    BY <1>2, <1>3, <1>14 DEF ExpDigit, Parts, digitsRead, outcomes, TypeOK, n
  <2>2. ExpRead(b)'
    BY <2>1, <1>3, ExpStays
  <2>3. Index' = n /\ Len(text') = n + 1 /\ \A k \in 1 .. n : text'[k] = text[k]
    BY <2>1, Revealing DEF n
  <2>4. p \in 1 .. n
    BY <2>1, <1>3 DEF ExpRead
  <2>5. d' = d /\ d \in 1 .. n
    <3>1. d' = d
      BY <2>1, <2>3, <2>4 DEF SignEnd
    <3>2. d >= p /\ d \in Int
      BY <2>1 DEF SignEnd
    <3>. QED  BY <3>1, <3>2, <2>1, <2>4, <1>3
  <2>6. AllIn(text', d, n, Digits)
    <3> HIDE DEF d
    <3>1. \A k \in d .. n : k \in 1 .. n /\ (k = n \/ k \in d .. n - 1)
      BY <2>5, <1>3
    <3>. QED  BY <3>1, <2>1, <2>3, <1>3 DEF AllIn
  <2>7. d' <= Len(text') /\ (haveExp' <=> d' < Len(text')) /\ AllIn(text', d', Index', Digits)
    BY <2>1, <2>3, <2>5, <2>6, <1>3
  <2>. QED  BY <2>1, <2>2, <2>7, <1>4 DEF Parts
<1>. QED  BY <1>7, <1>8, <1>9, <1>10, <1>11, <1>12, <1>13, <1>14

LEMMA ReadStep ==
  ASSUME ReadInv, TypeOK, [Next]_vars
  PROVE  ReadInv'
<1>1. CASE SkipSpace \/ Sign
  BY <1>1, SpaceRead
<1>2. CASE NoWord \/ IntDigit \/ IntEnd \/ FracDigit \/ FracEnd \/ Exponent \/ ExpSign \/ ExpDigit
  BY <1>2, NumeralRead
<1>3. CASE Empty \/ Infinity \/ NotANumber \/ NanPayload \/ NoDigits \/ NoExponent \/ ExpEnd
  <2>1. /\ UNCHANGED text \/ (Advance /\ Here # End)
        /\ phase' \in {"payload", "done"} /\ UNCHANGED haveExp
        /\ phase' = "payload" => phase = "word" /\ outcome' = outcome
    BY <1>3 DEF Empty, Infinity, NotANumber, NanPayload, NoDigits, NoExponent, ExpEnd, Finish, exponent,
                outcomes, Nan, End
  <2>. QED  BY <2>1, QuietRead
<1>4. CASE UNCHANGED vars
  <2>1. UNCHANGED <<text, phase, outcome, parsedLen, sawDigit, haveExp>>
    BY <1>4 DEF vars, outcomes, digitsRead, exponent
  <2>2. UNCHANGED <<Here, Index>>
    BY <2>1 DEF Here, Index
  <2>3. \A a, b : /\ Begins(a, b)' = Begins(a, b) /\ Mantissa(a, b)' = Mantissa(a, b)
                 /\ SignEnd(a)' = SignEnd(a)
    BY <2>1, ZenonT(60) DEF Begins, Mantissa, SignEnd
  <2>4. \A b : ExpRead(b)' = ExpRead(b)
    BY <2>1, <2>2, <2>3, Zenon DEF ExpRead, Mantissa
  <2>5. \A a, b : Parts(a, b)' = Parts(a, b)
    BY <2>1, <2>2 DEF Parts, SignEnd, Begins, ExpRead, Mantissa
  <2>. QED  BY <2>1, <2>2, <2>5, Zenon DEF ReadInv
<1>. QED  BY <1>1, <1>2, <1>3, <1>4 DEF Next

---------------------------------------------------------------------------
(* The numerals among the prefixes of the text, told by positions in it.   *)

ExponentUpTo(e, k) ==
  /\ e < k /\ text[e] = Exp
  /\ \E d \in e + 1 .. e + 2 : /\ d = e + 1 \/ text[e + 1] \in {Plus, Minus}
                               /\ d <= k /\ AllIn(text, d, k, Digits)
NumeralFrom(a, b, e, k) ==
  /\ a \in 1 .. k /\ b \in a .. a + 1 /\ e \in 1 .. k + 1
  /\ AllIn(text, 1, a - 1, {Space})
  /\ b = a \/ text[a] \in {Plus, Minus}
  /\ e = k + 1 \/ ExponentUpTo(e, k)
  /\ AllIn(text, b, e - 1, Digits \cup {Point})
  /\ \E j \in b .. e - 1 : text[j] \in Digits
  /\ \A j \in b .. e - 1 : text[j] = Point => AllIn(text, j + 1, e - 1, Digits)
NumeralUpTo(k) == \E a, b, e \in Nat : NumeralFrom(a, b, e, k)

\* The prefix of length k is the grammar's numeral, if it is one.
LEMMA PrefixRead ==
  ASSUME TypeOK
  PROVE  /\ Len(Revealed) = (IF Here = End THEN Index ELSE Len(text))
         /\ \A k \in 1 .. Len(Revealed) : LET w == SubSeq(Revealed, 1, k)
                                          IN  Len(w) = k /\ \A j \in 1 .. k : w[j] = text[j]
<1>1. text \in Seq(Symbols) /\ Len(text) \in Nat \ {0} /\ Index = Len(text) - 1
  BY TextRead
<1>2. CASE Here = End
  <2>1. Revealed = SubSeq(text, 1, Index)
    BY <1>2 DEF Revealed
  <2>2. /\ Revealed \in Seq(Symbols) /\ Len(Revealed) = Index
        /\ \A j \in 1 .. Index : Revealed[j] = text[j]
    <3>1. ASSUME NEW T, NEW w \in Seq(T), NEW m \in Nat, m <= Len(w)
          PROVE  /\ SubSeq(w, 1, m) \in Seq(T) /\ Len(SubSeq(w, 1, m)) = m
                 /\ \A j \in 1 .. m : SubSeq(w, 1, m)[j] = w[j]
      BY <3>1
    <3>2. Index \in Nat /\ Index <= Len(text)
      BY <1>1
    <3>. QED  BY <1>1, <2>1, <3>1, <3>2
  <2> DEFINE r == Revealed
  <2>3. \A k \in 1 .. Len(r) : Len(SubSeq(r, 1, k)) = k /\ \A j \in 1 .. k : SubSeq(r, 1, k)[j] = r[j]
    <3> HIDE DEF r
    <3>1. r \in Seq(Symbols)
      BY <2>2 DEF r
    <3>. QED  BY <3>1
  <2>4. \A k \in 1 .. Len(r), j \in Int : j \in 1 .. k => j \in 1 .. Index
    BY <1>1, <2>2
  <2>. QED  BY <1>2, <2>2, <2>3, <2>4
<1>3. CASE Here # End
  <2>1. Revealed = text
    BY <1>3 DEF Revealed
  <2>. QED  BY <1>1, <1>3, <2>1
<1>. QED  BY <1>2, <1>3

LEMMA PrefixIsNumeral ==
  ASSUME TypeOK, NEW k \in 1 .. Len(Revealed)
  PROVE  k \in NumeralPrefixes <=> NumeralUpTo(k)
<1> DEFINE w == SubSeq(Revealed, 1, k)
<1>1. Len(w) = k /\ (\A j \in 1 .. k : w[j] = text[j]) /\ k \in Nat \ {0}
  <2>1. Len(Revealed) \in Nat
    BY TextRead, PrefixRead
  <2>. QED  BY <2>1, PrefixRead
<1> SUFFICES IsNumeral(w) <=> NumeralUpTo(k)
  BY DEF NumeralPrefixes
<1> HIDE DEF w
<1>2. \A x, y \in Int : \A S : x >= 1 /\ y <= k => (AllIn(w, x, y, S) <=> AllIn(text, x, y, S))
  BY <1>1 DEF AllIn
<1>3. \A e \in 1 .. k : IsExponent(w, e) <=> ExponentUpTo(e, k)
  <2> TAKE e \in 1 .. k
  <2>1. CASE ~(e < k)
    BY <2>1, <1>1 DEF IsExponent, ExponentUpTo
  <2>2. CASE e < k
    <3>1. w[e] = text[e] /\ w[e + 1] = text[e + 1] /\ e + 1 <= k /\ e \in Nat
      BY <2>2, <1>1
    <3>2. \A d \in Int : d \in AfterSign(w, e + 1) <=>
             d \in e + 1 .. e + 2 /\ (d = e + 1 \/ text[e + 1] \in {Plus, Minus})
      BY <3>1, <1>1 DEF AfterSign
    <3>3. \A d \in AfterSign(w, e + 1) : d \in Int
      BY <3>1 DEF AfterSign
    <3>4. \A d \in e + 1 .. e + 2 : d <= k => (AllIn(w, d, k, Digits) <=> AllIn(text, d, k, Digits))
      BY <1>1, <1>2, <3>1
    <3>. QED  BY <2>2, <1>1, <3>1, <3>2, <3>3, <3>4 DEF IsExponent, ExponentUpTo
  <2>. QED  BY <2>1, <2>2
<1>4. \A a \in 1 .. k, b \in Int : b \in AfterSign(w, a) <=>
         b \in a .. a + 1 /\ (b = a \/ text[a] \in {Plus, Minus})
  BY <1>1 DEF AfterSign
<1>5. ASSUME NEW a \in 1 .. k, NEW b \in Nat, NEW e \in 1 .. k + 1, b \in a .. a + 1
      PROVE  /\ AllIn(w, 1, a - 1, {Space}) <=> AllIn(text, 1, a - 1, {Space})
             /\ AllIn(w, b, e - 1, Digits \cup {Point}) <=> AllIn(text, b, e - 1, Digits \cup {Point})
             /\ (\E j \in b .. e - 1 : w[j] \in Digits) <=> (\E j \in b .. e - 1 : text[j] \in Digits)
             /\ (\A j \in b .. e - 1 : w[j] = Point => AllIn(w, j + 1, e - 1, Digits))
                <=> (\A j \in b .. e - 1 : text[j] = Point => AllIn(text, j + 1, e - 1, Digits))
             /\ e = k + 1 \/ e \in 1 .. k
  <2>0. k \in Nat
    BY <1>1
  <2>2. a - 1 \in Int /\ a - 1 <= k /\ e - 1 \in Int /\ e - 1 <= k /\ 1 \in Int /\ b \in Int /\ b >= 1
    BY <2>0, b \in a .. a + 1
  <2>a. \A j \in b .. e - 1 : j \in 1 .. k /\ j + 1 \in Int
    BY <2>0, <2>2
  <2>1. \A j \in b .. e - 1 : j \in 1 .. k /\ j + 1 \in Int /\ j + 1 >= 1 /\ w[j] = text[j]
    BY <1>1, <2>a
  <2>3. /\ AllIn(w, 1, a - 1, {Space}) <=> AllIn(text, 1, a - 1, {Space})
        /\ AllIn(w, b, e - 1, Digits \cup {Point}) <=> AllIn(text, b, e - 1, Digits \cup {Point})
    BY <1>2, <2>2
  <2>4. \A j \in b .. e - 1 : AllIn(w, j + 1, e - 1, Digits) <=> AllIn(text, j + 1, e - 1, Digits)
    BY <1>2, <2>1, <2>2
  <2>5. e = k + 1 \/ e \in 1 .. k
    BY <1>1
  <2>. QED  BY <2>1, <2>3, <2>4, <2>5
<1>6. ASSUME IsNumeral(w) PROVE NumeralUpTo(k)
  <2>1. PICK a \in 1 .. k :
          /\ AllIn(w, 1, a - 1, {Space})
          /\ \E b \in AfterSign(w, a), e \in 1 .. k + 1 :
               /\ e = k + 1 \/ IsExponent(w, e)
               /\ AllIn(w, b, e - 1, Digits \cup {Point})
               /\ \E j \in b .. e - 1 : w[j] \in Digits
               /\ \A j \in b .. e - 1 : w[j] = Point => AllIn(w, j + 1, e - 1, Digits)
    BY <1>1, <1>6 DEF IsNumeral
  <2>2. PICK b \in AfterSign(w, a), e \in 1 .. k + 1 :
          /\ e = k + 1 \/ IsExponent(w, e)
          /\ AllIn(w, b, e - 1, Digits \cup {Point})
          /\ \E j \in b .. e - 1 : w[j] \in Digits
          /\ \A j \in b .. e - 1 : w[j] = Point => AllIn(w, j + 1, e - 1, Digits)
    BY <2>1
  <2>3. b \in Int
    BY <1>1 DEF AfterSign
  <2>4. b \in a .. a + 1 /\ (b = a \/ text[a] \in {Plus, Minus}) /\ b \in Nat /\ a \in Nat /\ e \in Nat
    BY <1>1, <1>4, <2>3
  <2>5. NumeralFrom(a, b, e, k)
    BY <1>3, <1>5, <2>1, <2>2, <2>4 DEF NumeralFrom
  <2>. QED  BY <2>4, <2>5 DEF NumeralUpTo
<1>7. ASSUME NumeralUpTo(k) PROVE IsNumeral(w)
  <2>1. PICK a, b, e \in Nat : NumeralFrom(a, b, e, k)
    BY <1>7 DEF NumeralUpTo
  <2>2. a \in 1 .. k /\ b \in a .. a + 1 /\ e \in 1 .. k + 1 /\ b \in AfterSign(w, a)
    BY <2>1, <1>4 DEF NumeralFrom
  <2>a. e = k + 1 \/ e \in 1 .. k
    BY <1>5, <2>2
  <2>b. e = k + 1 \/ IsExponent(w, e)
    BY <1>3, <2>1, <2>a DEF NumeralFrom
  <2>3. /\ AllIn(w, 1, a - 1, {Space})
        /\ AllIn(w, b, e - 1, Digits \cup {Point})
        /\ \E j \in b .. e - 1 : w[j] \in Digits
        /\ \A j \in b .. e - 1 : w[j] = Point => AllIn(w, j + 1, e - 1, Digits)
    BY <1>5, <2>1, <2>2 DEF NumeralFrom
  <2>. QED  BY <1>1, <2>2, <2>b, <2>3 DEF IsNumeral
<1>. QED  BY <1>6, <1>7

\* The parts of a numeral are where the lexer has them: its digits start no later, and
\* there is none before.
LEMMA PartsAgree ==
  ASSUME TypeOK, NEW a \in 1 .. Len(text), NEW b \in a .. a + 1, Begins(a, b),
         NEW k \in 1 .. Len(text), NEW a1 \in Nat, NEW b1 \in Nat, NEW e1 \in Nat,
         NumeralFrom(a1, b1, e1, k)
  PROVE  /\ b1 <= b
         /\ \A j \in b1 .. e1 - 1 : text[j] \in Digits => j >= b
         /\ \A j \in 1 .. b - 1 : text[j] \notin Digits \cup {Point, Exp}
<1>1. Len(text) \in Nat
  BY TextRead
<1>2. /\ AllIn(text, 1, a - 1, {Space}) /\ text[a] # Space
      /\ b = IF text[a] \in {Plus, Minus} THEN a + 1 ELSE a
  BY DEF Begins, SignEnd
<1>3. /\ a1 \in 1 .. k /\ b1 \in a1 .. a1 + 1 /\ e1 \in 1 .. k + 1
      /\ AllIn(text, 1, a1 - 1, {Space}) /\ (b1 = a1 \/ text[a1] \in {Plus, Minus})
  BY DEF NumeralFrom
<1>4. \A j \in 1 .. b - 1 : text[j] \notin Digits \cup {Point, Exp}
  <2> TAKE j \in 1 .. b - 1
  <2>0. a \in Nat
    BY <1>1
  <2>1. CASE text[a] \in {Plus, Minus}
    <3>1. j \in 1 .. a - 1 \/ j = a
      BY <2>0, <2>1, <1>2
    <3>2. CASE j \in 1 .. a - 1
      BY <3>2, <1>2, SMTT(60) DEF AllIn, Digits, Point, Exp, Space
    <3>3. CASE j = a
      <4>1. text[j] \in {Plus, Minus}
        BY <2>1, <3>3, Zenon
      <4>2. {Plus, Minus} \cap (Digits \cup {Point, Exp}) = {}
        BY DEF Digits, Point, Exp, Plus, Minus
      <4>. QED  BY <4>1, <4>2
    <3>. QED  BY <3>1, <3>2, <3>3
  <2>2. CASE text[a] \notin {Plus, Minus}
    <3>1. j \in 1 .. a - 1
      BY <2>2, <1>2
    <3>. QED  BY <3>1, <1>2, SMTT(60) DEF AllIn, Digits, Point, Exp, Space
  <2>. QED  BY <2>1, <2>2
<1>5. a1 <= a
  BY <1>1, <1>2, <1>3 DEF AllIn
<1>6. b1 <= b
  <2>1. CASE a1 < a
    <3>1. text[a1] = Space
      BY <2>1, <1>1, <1>2, <1>3 DEF AllIn
    <3>. QED  BY <3>1, <2>1, <1>1, <1>3 DEF Space, Plus, Minus
  <2>2. CASE a1 = a
    BY <2>2, <1>1, <1>2, <1>3
  <2>. QED  BY <2>1, <2>2, <1>1, <1>3, <1>5
<1>7. \A j \in b1 .. e1 - 1 : text[j] \in Digits => j >= b
  <2> SUFFICES ASSUME NEW j \in b1 .. e1 - 1, text[j] \in Digits, ~(j >= b) PROVE FALSE
    OBVIOUS
  <2>1. j \in 1 .. b - 1
    BY <1>1, <1>3
  <2>. QED  BY <2>1, <1>4
<1>. QED  BY <1>4, <1>6, <1>7

\* Behind the digits the text does not go on as a numeral without an e.
LEMMA NoLongerNumeral ==
  ASSUME TypeOK, NEW a \in 1 .. Len(text), NEW b \in a .. a + 1, Begins(a, b),
         NEW e \in b .. Len(text), Mantissa(b, e), text[e] \notin Digits,
         text[e] = Point => \E j \in b .. e - 1 : text[j] = Point,
         NEW k \in e .. Len(text), NEW a1 \in Nat, NEW b1 \in Nat, NEW e1 \in Nat,
         NumeralFrom(a1, b1, e1, k)
  PROVE  text[e] = Exp /\ e1 = e /\ ExponentUpTo(e, k)
<1>1. Len(text) \in Nat /\ k \in 1 .. Len(text)
  BY TextRead
<1>2. /\ b1 <= b
      /\ \A j \in b1 .. e1 - 1 : text[j] \in Digits => j >= b
      /\ \A j \in 1 .. b - 1 : text[j] \notin Digits \cup {Point, Exp}
  BY <1>1, PartsAgree
<1>3. /\ a1 \in 1 .. k /\ b1 \in a1 .. a1 + 1 /\ e1 \in 1 .. k + 1
      /\ e1 = k + 1 \/ ExponentUpTo(e1, k)
      /\ AllIn(text, b1, e1 - 1, Digits \cup {Point})
      /\ \A j \in b1 .. e1 - 1 : text[j] = Point => AllIn(text, j + 1, e1 - 1, Digits)
      /\ \E j \in b1 .. e1 - 1 : text[j] \in Digits
  BY DEF NumeralFrom
<1>4. ~(e1 > e)
  <2> SUFFICES ASSUME e1 > e PROVE FALSE
    OBVIOUS
  <2>1. e \in b1 .. e1 - 1
    BY <1>1, <1>2, <1>3
  <2>2. text[e] = Point
    BY <2>1, <1>3 DEF AllIn
  <2>3. PICK j \in b .. e - 1 : text[j] = Point
    BY <2>2
  <2>4. j \in b1 .. e1 - 1 /\ e \in j + 1 .. e1 - 1
    BY <2>1, <1>1, <1>2, <1>3
  <2>. QED  BY <2>3, <2>4, <1>3 DEF AllIn
<1>5. ExponentUpTo(e1, k)
  BY <1>1, <1>3, <1>4
<1>6. text[e1] = Exp
  BY <1>5 DEF ExponentUpTo
<1>7. ~(e1 < e)
  <2> SUFFICES ASSUME e1 < e PROVE FALSE
    OBVIOUS
  <2>1. e1 \in b .. e - 1
    BY <1>1, <1>2, <1>3, <1>6
  <2>2. text[e1] \in Digits \cup {Point}
    BY <2>1 DEF Mantissa, AllIn
  <2>. QED  BY <2>2, <1>6 DEF Digits, Point, Exp
<1>. QED  BY <1>1, <1>3, <1>4, <1>5, <1>6, <1>7

\* The digits alone are a numeral.
LEMMA MantissaIsNumeral ==
  ASSUME TypeOK, NEW a \in 1 .. Len(text), NEW b \in a .. a + 1, Begins(a, b),
         NEW e \in b .. Len(text), Mantissa(b, e), sawDigit
  PROVE  e - 1 \in 1 .. Len(text) /\ NumeralUpTo(e - 1)
<1> DEFINE k == e - 1
<1>1. Len(text) \in Nat /\ a \in Nat /\ b \in Nat /\ e \in Nat
  BY TextRead
<1>2. \E j \in b .. e - 1 : text[j] \in Digits
  BY DEF Mantissa
<1>3. k \in 1 .. Len(text) /\ e = k + 1 /\ a \in 1 .. k /\ e \in 1 .. k + 1
  BY <1>1, <1>2
<1>4. AllIn(text, 1, a - 1, {Space}) /\ (b = a \/ text[a] \in {Plus, Minus})
  BY DEF Begins, SignEnd
<1>5. NumeralFrom(a, b, e, k)
  <2> HIDE DEF k
  <2>. QED  BY <1>2, <1>3, <1>4 DEF NumeralFrom, Mantissa
<1>. QED  BY <1>1, <1>3, <1>5 DEF NumeralUpTo

\* Without a digit there is no numeral.
LEMMA NoDigitNoNumeral ==
  ASSUME TypeOK, \A j \in 1 .. Len(text) : text[j] \notin Digits
  PROVE  NumeralPrefixes = {}
<1>1. ASSUME NEW k \in 1 .. Len(Revealed), NumeralUpTo(k)
      PROVE  FALSE
  <2>1. PICK a, b, e \in Nat : NumeralFrom(a, b, e, k)
    BY <1>1 DEF NumeralUpTo
  <2>2. PICK j \in b .. e - 1 : text[j] \in Digits
    BY <2>1 DEF NumeralFrom
  <2>3. j \in 1 .. Len(text)
    <3>1. Len(Revealed) <= Len(text) /\ Len(text) \in Nat /\ Len(Revealed) \in Nat
      BY TextRead, PrefixRead
    <3>2. b >= 1 /\ e <= k + 1 /\ k \in Nat
      BY <2>1, <3>1 DEF NumeralFrom
    <3>. QED  BY <3>1, <3>2
  <2>. QED  BY <2>2, <2>3
<1>2. \A k \in 1 .. Len(Revealed) : k \notin NumeralPrefixes
  BY <1>1, PrefixIsNumeral
<1>. QED  BY <1>2 DEF NumeralPrefixes

LEMMA FinishStep ==
  ASSUME ReadInv, TypeOK, Empty \/ NoDigits \/ NoExponent \/ ExpEnd
  PROVE  ParsesLongestPrefix'
<1> DEFINE n == Len(text)
<1>1. text' = text /\ NumeralPrefixes' = NumeralPrefixes
  BY DEF Empty, NoDigits, NoExponent, ExpEnd, NumeralPrefixes, Revealed, Here, Index
<1>2. /\ n \in Nat \ {0} /\ Index = n - 1 /\ Here = text[n]
      /\ Len(Revealed) = IF Here = End THEN n - 1 ELSE n
  BY TextRead, PrefixRead
<1>3. CASE Empty
  <2>1. outcome' = "invalid" /\ AllIn(text, 1, n - 1, {Space}) /\ text[n] = End
    BY <1>2, <1>3 DEF Empty, Finish, ReadInv
  <2>2. \A j \in 1 .. n : text[j] \notin Digits
    <3>1. \A j \in 1 .. n : j = n \/ j \in 1 .. n - 1
      BY <1>2
    <3>. QED  BY <3>1, <2>1 DEF AllIn, Digits, Space, End
  <2>. QED  BY <2>1, <2>2, <1>1, NoDigitNoNumeral DEF ParsesLongestPrefix
<1>4. CASE NoDigits \/ NoExponent
  <2>1. phase = "digitsEnd"
    BY <1>4 DEF NoDigits, NoExponent
  <2>a. PICK a \in 1 .. n : \E b \in a .. a + 1 : Parts(a, b)
    BY <2>1 DEF ReadInv
  <2>2. PICK b \in a .. a + 1 : Parts(a, b)
    BY <2>a
  <2>3. /\ Begins(a, b) /\ b <= n /\ Mantissa(b, n) /\ text[n] \notin Digits
        /\ text[n] = Point => \E k \in b .. n - 1 : text[k] = Point
    BY <2>1, <2>2, <1>2 DEF Parts, Begins
  <2> HIDE DEF n
  <2>4. CASE NoDigits
    <3>1. outcome' = "invalid" /\ ~sawDigit
      BY <2>4 DEF NoDigits, Finish
    <3>2. \A j \in 1 .. n : text[j] \notin Digits
      <4> TAKE j \in 1 .. n
      <4>1. j \in 1 .. a - 1 \/ (j = a /\ text[a] \in {Plus, Minus}) \/ j \in b .. n - 1 \/ j = n
        BY <2>3, <1>2 DEF Begins, SignEnd
      <4>. QED  BY <4>1, <3>1, <2>3, SMTT(60) DEF Begins, Mantissa, AllIn, Digits, Space, Plus, Minus
    <3>. QED  BY <3>1, <3>2, <1>1, NoDigitNoNumeral DEF ParsesLongestPrefix, n
  <2>5. CASE NoExponent
    <3>1. outcome' = "number" /\ parsedLen' = n - 1 /\ sawDigit /\ text[n] # Exp
      BY <2>5, <1>2 DEF NoExponent, Finish
    <3>2. n \in b .. Len(text)
      BY <2>3, <1>2 DEF n
    <3>3. n - 1 \in 1 .. n /\ NumeralUpTo(n - 1)
      BY <2>3, <3>1, <3>2, MantissaIsNumeral DEF n
    <3>4. n - 1 \in NumeralPrefixes
      <4> DEFINE k == n - 1
      <4>1. k \in 1 .. Len(Revealed) /\ NumeralUpTo(k)
        BY <3>3, <1>2
      <4> HIDE DEF k
      <4>2. k \in NumeralPrefixes
        BY <4>1, PrefixIsNumeral
      <4>. QED  BY <4>2 DEF k
    <3>5. ASSUME NEW k \in NumeralPrefixes PROVE k <= n - 1
      <4>1. k \in 1 .. Len(Revealed) /\ k \in Int /\ k <= n
        BY <1>2 DEF NumeralPrefixes
      <4>2. NumeralUpTo(k)
        BY <3>5, <4>1, PrefixIsNumeral
      <4>3. PICK a1, b1, e1 \in Nat : NumeralFrom(a1, b1, e1, k)
        BY <4>2 DEF NumeralUpTo
      <4> SUFFICES ASSUME k = n PROVE FALSE
        BY <4>1, <1>2
      <4>4. k \in n .. Len(text)
        BY <1>2 DEF n
      <4>5. text[n] = Exp
        BY <2>3, <3>2, <4>3, <4>4, NoLongerNumeral
      <4>. QED  BY <4>5, <3>1
    <3>. QED  BY <3>1, <3>4, <3>5, <1>1 DEF ParsesLongestPrefix
  <2>. QED  BY <1>4, <2>4, <2>5
<1>5. CASE ExpEnd
  <2>1. phase = "exp" /\ outcome' = "number" /\ text[n] \notin Digits
        /\ parsedLen' = (IF haveExp THEN n - 1 ELSE parsedLen) /\ parsedLen \in Nat /\ haveExp \in BOOLEAN
    BY <1>2, <1>5 DEF ExpEnd, Finish, TypeOK
  <2>a. PICK a \in 1 .. n : \E b \in a .. a + 1 : Parts(a, b)
    BY <2>1 DEF ReadInv
  <2>2. PICK b \in a .. a + 1 : Parts(a, b)
    BY <2>a
  <2> DEFINE e == parsedLen + 1
             d == SignEnd(parsedLen + 2)
  <2>3. /\ Begins(a, b) /\ sawDigit /\ e \in b .. n - 1 /\ text[e] = Exp /\ Mantissa(b, e)
        /\ d <= n /\ AllIn(text, d, n - 1, Digits) /\ (haveExp <=> d < n)
    BY <2>1, <2>2, <1>2 DEF Parts, ExpRead
  <2>4. /\ e \in Nat /\ d = (IF text[e + 1] \in {Plus, Minus} THEN e + 2 ELSE e + 1) /\ parsedLen = e - 1
        /\ e \in b .. Len(text) /\ b \in Nat /\ a \in Nat /\ e >= 1 /\ e < n
    BY <2>1, <2>3, <1>2 DEF SignEnd
  <2> HIDE DEF n, e, d
  <2>5. /\ text[e] \notin Digits /\ text[e] # Point
    BY <2>3 DEF Digits, Point, Exp
  \* The longest prefix goes up to its last digit.
  <2>6. ASSUME NEW k \in NumeralPrefixes, k >= e
        PROVE  k \in Int /\ k <= n - 1 /\ d <= k
    <3>1. k \in 1 .. Len(Revealed) /\ k \in Int /\ k <= n
      BY <1>2 DEF NumeralPrefixes
    <3>2. NumeralUpTo(k)
      BY <2>6, <3>1, PrefixIsNumeral
    <3>3. PICK a1, b1, e1 \in Nat : NumeralFrom(a1, b1, e1, k)
      BY <3>2 DEF NumeralUpTo
    <3>4. k \in e .. Len(text)
      BY <2>4, <2>6, <3>1 DEF n
    <3>5. ExponentUpTo(e, k)
      BY <2>3, <2>4, <2>5, <3>3, <3>4, NoLongerNumeral DEF n
    <3>6. PICK d1 \in e + 1 .. e + 2 : /\ d1 = e + 1 \/ text[e + 1] \in {Plus, Minus}
                                       /\ d1 <= k /\ AllIn(text, d1, k, Digits)
      BY <3>5 DEF ExponentUpTo
    <3>7. text[k] \in Digits /\ (d1 = e + 1 => text[e + 1] \in Digits)
      BY <3>1, <3>6, <2>4 DEF AllIn
    <3>8. k # n
      BY <3>7, <2>1
    <3>9. d1 = d
      BY <3>6, <3>7, <2>4 DEF Digits, Plus, Minus
    <3>. QED  BY <3>1, <3>6, <3>8, <3>9, <1>2
  <2>7. CASE haveExp
    <3>1. d < n /\ parsedLen' = n - 1
      BY <2>1, <2>3, <2>7
    <3>2. n - 1 \in NumeralPrefixes
      <4> DEFINE k == n - 1
      <4>1. k \in 1 .. Len(Revealed) /\ k \in Nat
        BY <1>2, <2>4
      <4>2. ExponentUpTo(e, k)
        <5>1. e < k /\ d \in e + 1 .. e + 2 /\ d <= k
          BY <3>1, <1>2, <2>4
        <5>. QED  BY <5>1, <2>3, <2>4 DEF ExponentUpTo
      <4>3. NumeralFrom(a, b, e, k)
        <5>1. a \in 1 .. k /\ e \in 1 .. k + 1
          BY <1>2, <2>4
        <5>2. AllIn(text, 1, a - 1, {Space}) /\ (b = a \/ text[a] \in {Plus, Minus})
          BY <2>3 DEF Begins, SignEnd
        <5> HIDE DEF k
        <5>. QED  BY <4>2, <5>1, <5>2, <2>3 DEF NumeralFrom, Mantissa
      <4>4. NumeralUpTo(k)
        BY <4>3, <2>4 DEF NumeralUpTo
      <4> HIDE DEF k
      <4>5. k \in NumeralPrefixes
        BY <4>1, <4>4, PrefixIsNumeral
      <4>. QED  BY <4>5 DEF k
    <3>3. \A k \in NumeralPrefixes : k <= n - 1
      <4> TAKE k \in NumeralPrefixes
      <4>1. k \in Int
        BY <1>2 DEF NumeralPrefixes
      <4>2. k >= e => k <= n - 1
        BY <2>6
      <4>. QED  BY <4>1, <4>2, <1>2, <2>4
    <3>. QED  BY <3>1, <3>2, <3>3, <2>1, <1>1 DEF ParsesLongestPrefix
  <2>8. CASE ~haveExp
    <3>1. d = n /\ parsedLen' = e - 1
      BY <2>1, <2>3, <2>4, <2>8, <1>2
    <3>2. e - 1 \in NumeralPrefixes
      <4> DEFINE k == e - 1
      <4>1. k \in 1 .. Len(text) /\ NumeralUpTo(k)
        BY <2>3, <2>4, MantissaIsNumeral DEF n
      <4>2. k \in 1 .. Len(Revealed)
        BY <4>1, <1>2, <2>4
      <4> HIDE DEF k
      <4>3. k \in NumeralPrefixes
        BY <4>1, <4>2, PrefixIsNumeral
      <4>. QED  BY <4>3 DEF k
    <3>3. \A k \in NumeralPrefixes : k <= e - 1
      <4> TAKE k \in NumeralPrefixes
      <4>1. k \in Int
        BY <1>2 DEF NumeralPrefixes
      <4>2. k >= e => n <= k /\ k <= n - 1
        BY <2>6, <3>1
      <4>. QED  BY <4>1, <4>2, <1>2, <2>4
    <3>. QED  BY <3>1, <3>2, <3>3, <2>1, <1>1 DEF ParsesLongestPrefix
  <2>. QED  BY <2>1, <2>7, <2>8
<1>. QED  BY <1>3, <1>4, <1>5

LEMMA PrefixStep ==
  ASSUME ReadInv, TypeOK, ParsesLongestPrefix, [Next]_vars
  PROVE  ParsesLongestPrefix'
<1>1. CASE Empty \/ NoDigits \/ NoExponent \/ ExpEnd
  BY <1>1, FinishStep
<1>2. CASE \/ SkipSpace \/ Sign \/ Infinity \/ NotANumber \/ NanPayload \/ NoWord \/ IntDigit \/ IntEnd
           \/ FracDigit \/ FracEnd \/ Exponent \/ ExpSign \/ ExpDigit
  <2>1. outcome' \in {"none", "inf", "nan"}
    BY <1>2 DEF SkipSpace, Sign, Infinity, NotANumber, NanPayload, NoWord, IntDigit, IntEnd, FracDigit,
                FracEnd, Exponent, ExpSign, ExpDigit, Finish, outcomes, ReadInv
  <2>. QED  BY <2>1 DEF ParsesLongestPrefix
<1>3. CASE UNCHANGED vars
  <2>1. UNCHANGED <<text, outcome, parsedLen>>
    BY <1>3 DEF vars, outcomes
  <2>. QED  BY <2>1 DEF ParsesLongestPrefix, NumeralPrefixes, Revealed, Here, Index
<1>. QED  BY <1>1, <1>2, <1>3 DEF Next

---------------------------------------------------------------------------
\* A text of which nothing is read yet.
LEMMA LexerStarts == Init => DigitsInv
<1> SUFFICES ASSUME Init PROVE DigitsInv
  OBVIOUS
<1>1. text \in Seq(Symbols) /\ text # <<>>
  <2>1. PICK c \in Alphabet : text = <<c>>
    BY DEF Init
  <2>2. c \in Symbols
    BY AlphabetAssumption
  <2>. QED  BY <2>1, <2>2
<1>2. /\ sig = 0 /\ weight = 1 /\ exact = 0 /\ droppedNonzero = FALSE
      /\ sigIsU64 = TRUE /\ truncated = FALSE /\ dropped = 0 /\ sigDigits = 0
  BY DEF Init
<1>3. Enclosed /\ DropsOnlyWhenFull
  BY <1>2, BoundsAssumption DEF Enclosed, DropsOnlyWhenFull
<1>4. TypeOK
  <2>1. /\ negative = FALSE /\ sawDigit = FALSE /\ sawNonzero = FALSE
        /\ expNeg = FALSE /\ haveExp = FALSE
        /\ exp10 = 0 /\ expPart = 0 /\ truePart = 0 /\ parsedLen = 0
    BY DEF Init
  <2>2. phase \in Phases /\ outcome \in Outcomes
    BY DEF Init, Phases, Outcomes
  <2>3. 0 \in Nat /\ 1 \in Nat /\ 0 \in Int
    OBVIOUS
  <2>. QED  BY <1>1, <1>2, <2>1, <2>2, <2>3, Zenon DEF TypeOK
<1>5. CountsDigits
  <2>1. 10 ^ 0 = 1
    BY PowersAssumption DEF PowersUpTo
  <2>2. sawNonzero = FALSE
    BY DEF Init
  <2>3. weight = 10 ^ dropped /\ dropped <= sigDigits
    BY <1>2, <2>1
  <2>. QED  BY <1>2, <2>2, <2>3 DEF CountsDigits
<1>6. TextInv
  <2>1. Len(text) = 1 /\ sawNonzero = FALSE /\ MaxLen >= 1
    BY BoundsAssumption DEF Init
  <2>. QED  BY <1>2, <2>1 DEF TextInv
<1>. QED
  BY <1>2, <1>3, <1>4, <1>5, <1>6 DEF DigitsInv

LEMMA ReadStarts == Init => ReadInv
<1> SUFFICES ASSUME Init PROVE ReadInv
  OBVIOUS
<1>1. Len(text) = 1 /\ Index = 0 /\ phase = "space" /\ sawDigit = FALSE /\ haveExp = FALSE
      /\ outcome = "none"
  BY DEF Init, Index
<1>2. \A k \in 1 .. Index : FALSE
  BY <1>1
<1>. QED  BY <1>1, <1>2 DEF ReadInv, AllIn

\* The lexer keeps its types, the enclosure of what it read and the capacity of
\* what it reads it into, on every text and for every size of the word and the bigint.
THEOREM Invariance == Spec => []IInv
<1>1. Init => DigitsInv
  BY LexerStarts
<1>2. Init => ReadInv
  BY ReadStarts
<1>3. IInv /\ [Next]_vars => IInv'
  <2> SUFFICES ASSUME IInv, [Next]_vars PROVE IInv'
    OBVIOUS
  <2>1. DigitsInv /\ ReadInv /\ TypeOK
    BY DEF IInv, DigitsInv
  <2>2. DigitsInv'
    BY <2>1, InvStep
  <2>3. ReadInv'
    BY <2>1, ReadStep
  <2>. QED  BY <2>2, <2>3 DEF IInv
<1>. QED  BY <1>1, <1>2, <1>3, PTL DEF Spec, IInv

(***************************************************************************)
(* Whatever the text and however small the bigint, the digits read spell a *)
(* number in the interval the truncated-interval resolver converts.        *)
(***************************************************************************)
THEOREM Enclosure == Spec => []Enclosed
<1>1. IInv => Enclosed
  BY DEF IInv, DigitsInv
<1>. QED  BY <1>1, Invariance, PTL

(***************************************************************************)
(* Neither store of the significand overflows, and no digit is dropped     *)
(* while there is room for it.                                             *)
(***************************************************************************)
THEOREM Capacity == Spec => []DropsOnlyWhenFull
<1>1. IInv => DropsOnlyWhenFull
  BY DEF IInv, DigitsInv
<1>. QED  BY <1>1, Invariance, PTL

(***************************************************************************)
(* sig_digits is the length of the number read and dropped_digits the      *)
(* number of digits not kept, on a text of any length.                     *)
(***************************************************************************)
THEOREM Counts == Spec => []CountsDigits
<1>1. IInv => CountsDigits
  BY DEF IInv, DigitsInv
<1>. QED  BY <1>1, Invariance, PTL

(***************************************************************************)
(* parsed_len is the length of the longest prefix that the grammar takes   *)
(* for a number, and only a text without one is refused, whatever the text *)
(* and wherever it ends.                                                   *)
(***************************************************************************)
THEOREM LongestPrefix == Spec => []ParsesLongestPrefix
<1>1. Init => ParsesLongestPrefix
  BY DEF Init, ParsesLongestPrefix
<1>2. IInv /\ ParsesLongestPrefix /\ [Next]_vars => ParsesLongestPrefix'
  <2> SUFFICES ASSUME IInv, ParsesLongestPrefix, [Next]_vars PROVE ParsesLongestPrefix'
    OBVIOUS
  <2>. QED  BY PrefixStep DEF IInv, DigitsInv
<1>. QED  BY <1>1, <1>2, Invariance, PTL DEF Spec

---------------------------------------------------------------------------
(* The words *)

LEMMA IntDivMod ==
  ASSUME NEW a \in Int, NEW d \in Nat \ {0}
  PROVE  /\ a \div d \in Int /\ a % d \in 0 .. d - 1
         /\ a = d * (a \div d) + (a % d)
OBVIOUS

LEMMA Sizes == HalfWord \in Nat \ {0} /\ Word \in Nat \ {0} /\ Word > 1 /\ HalfWord > 1
<1>1. HalfWord \in Nat /\ HalfWord > 1
  BY WordAssumption
<1>2. HalfWord * HalfWord > HalfWord
  BY <1>1
<1> QED BY <1>1, <1>2 DEF Word

LEMMA ProductBelow ==
  ASSUME NEW d \in Nat \ {0}, NEW x \in 0 .. d - 1, NEW y \in 0 .. d - 1
  PROVE  x * y <= (d - 1) * (d - 1) /\ x * y >= 0
<1>1. x * y <= x * (d - 1)
  OBVIOUS
<1>2. x * (d - 1) <= (d - 1) * (d - 1)
  OBVIOUS
<1> QED BY <1>1, <1>2

\* The multiple of d that leaves a remainder is the only one.
LEMMA Modulo ==
  ASSUME NEW x \in Int, NEW k \in Int, NEW d \in Nat \ {0}, x - k * d \in 0 .. d - 1
  PROVE  x % d = x - k * d /\ x \div d = k
<1> DEFINE q == x \div d
           r == x % d
<1>1. q \in Int /\ r \in 0 .. d - 1 /\ x = d * q + r
  BY IntDivMod
<1> HIDE DEF q, r
<1>2. (x - k * d) - r = d * (q - k)
  BY <1>1
<1>3. -d < d * (q - k) /\ d * (q - k) < d
  BY <1>1, <1>2
<1>4. q - k = 0
  <2>1. SUFFICES ASSUME q - k >= 1 \/ q - k <= -1 PROVE FALSE
    BY <1>1
  <2>2. CASE q - k >= 1
    <3>1. d * (q - k) >= d * 1
      BY <2>2, <1>1
    <3> QED BY <3>1, <1>3, <1>1
  <2>3. CASE q - k <= -1
    <3>1. d * (k - q) >= d * 1
      BY <2>3, <1>1
    <3>2. d * (k - q) = -(d * (q - k))
      BY <1>1
    <3> QED BY <3>1, <3>2, <1>3, <1>1
  <2> QED BY <2>1, <2>2, <2>3
<1> QED BY <1>1, <1>4 DEF q, r

(***************************************************************************)
(* Pairs are ordered as the numbers they stand for (ryu_u128_cmp).         *)
(***************************************************************************)
THEOREM LessIsLess ==
  ASSUME NEW a \in Pairs, NEW b \in Pairs
  PROVE  Less(a, b) <=> OfPair(a) < OfPair(b)
<1> DEFINE W == Word
<1>1. /\ a.hi \in 0 .. W - 1 /\ a.lo \in 0 .. W - 1
      /\ b.hi \in 0 .. W - 1 /\ b.lo \in 0 .. W - 1 /\ W \in Nat \ {0}
  BY Sizes DEF Pairs, Words
<1> HIDE DEF W
<1>2. OfPair(b) - OfPair(a) = (b.hi - a.hi) * W + (b.lo - a.lo)
  BY <1>1 DEF OfPair, W
<1>3. CASE a.hi = b.hi
  BY <1>1, <1>2, <1>3 DEF Less, OfPair, W
<1>4. CASE a.hi < b.hi
  <2>1. (b.hi - a.hi) * W >= 1 * W
    BY <1>1, <1>4
  <2> QED BY <1>1, <1>2, <1>4, <2>1 DEF Less, OfPair, W
<1>5. CASE a.hi > b.hi
  <2>1. (a.hi - b.hi) * W >= 1 * W
    BY <1>1, <1>5
  <2>2. (b.hi - a.hi) * W = -((a.hi - b.hi) * W)
    BY <1>1
  <2> QED BY <1>1, <1>2, <1>5, <2>1, <2>2 DEF Less, OfPair, W
<1> QED BY <1>1, <1>3, <1>4, <1>5

(***************************************************************************)
(* The difference of two pairs, with its borrow (ryu_u128_sub).            *)
(***************************************************************************)
THEOREM DifferenceIsDifference ==
  ASSUME NEW a \in Pairs, NEW b \in Pairs, ~Less(a, b)
  PROVE  Difference(a, b) \in Pairs /\ OfPair(Difference(a, b)) = OfPair(a) - OfPair(b)
<1> DEFINE W == Word
           borrow == IF a.lo < b.lo THEN 1 ELSE 0
           hi == a.hi - b.hi - borrow
           lo == a.lo - b.lo
<1>1. /\ a.hi \in 0 .. W - 1 /\ a.lo \in 0 .. W - 1
      /\ b.hi \in 0 .. W - 1 /\ b.lo \in 0 .. W - 1 /\ W \in Nat \ {0}
  BY Sizes DEF Pairs, Words
<1> HIDE DEF W
<1>2. hi \in 0 .. W - 1
  BY <1>1 DEF Less
<1>3. lo - (-borrow) * W \in 0 .. W - 1 /\ -borrow \in Int /\ lo \in Int
  BY <1>1
<1>4. hi % W = hi
  <2>1. hi - 0 * W \in 0 .. W - 1
    BY <1>1, <1>2
  <2> HIDE DEF hi
  <2> QED BY <2>1, <1>1, <1>2, Modulo
<1>5. lo % W = lo + borrow * W
  <2>1. lo % W = lo - (-borrow) * W
    BY <1>1, <1>3, Modulo
  <2> QED BY <2>1, <1>1
<1>6. Difference(a, b) = [hi |-> hi, lo |-> lo + borrow * W]
  BY <1>4, <1>5 DEF Difference, Pair, W
<1>7. lo + borrow * W \in 0 .. W - 1
  BY <1>1
<1>8. OfPair(Difference(a, b)) = hi * W + lo + borrow * W
  BY <1>6, <1>1, <1>2, <1>7 DEF OfPair, W
<1>9. OfPair(a) - OfPair(b) = (a.hi - b.hi) * W + lo
  BY <1>1 DEF OfPair, W
<1>10. hi * W + lo + borrow * W = (a.hi - b.hi) * W + lo
  BY <1>1
<1> QED BY <1>6, <1>2, <1>7, <1>8, <1>9, <1>10 DEF Pairs, Words, W

(***************************************************************************)
(* The double of a pair that is less than half of all (ryu_u128_shl1).     *)
(***************************************************************************)
THEOREM TwiceIsDouble ==
  ASSUME NEW a \in Pairs, 2 * a.hi + 1 < Word
  PROVE  Twice(a) \in Pairs /\ OfPair(Twice(a)) = 2 * OfPair(a)
<1> DEFINE W == Word
<1>1. a.hi \in 0 .. W - 1 /\ a.lo \in 0 .. W - 1 /\ W \in Nat \ {0} /\ 2 * a.hi + 1 < W
  BY Sizes DEF Pairs, Words
<1> HIDE DEF W
<1>2. PICK t \in {0, 1} : (2 * a.lo) - t * W \in 0 .. W - 1
  <2>1. CASE 2 * a.lo < W
    <3>1. (2 * a.lo) - 0 * W \in 0 .. W - 1
      BY <1>1, <2>1
    <3> QED BY <3>1
  <2>2. CASE 2 * a.lo >= W
    <3>1. (2 * a.lo) - 1 * W \in 0 .. W - 1
      BY <1>1, <2>2
    <3> QED BY <3>1
  <2> QED BY <1>1, <2>1, <2>2
<1>3. Top(a.lo) = t /\ Up(a.lo) = 2 * a.lo - t * W
  <2>1. (2 * a.lo) \div W = t /\ (2 * a.lo) % W = 2 * a.lo - t * W
    BY <1>1, <1>2, Modulo
  <2> QED BY <2>1 DEF Top, Up, W
<1>4. Up(a.hi) = 2 * a.hi
  <2>1. (2 * a.hi) - 0 * W \in 0 .. W - 1
    BY <1>1
  <2>2. (2 * a.hi) % W = 2 * a.hi - 0 * W
    BY <1>1, <2>1, Modulo
  <2> QED BY <1>1, <2>2 DEF Up, W
<1>5. Twice(a) = [hi |-> 2 * a.hi + t, lo |-> 2 * a.lo - t * W]
  BY <1>3, <1>4 DEF Twice, Pair
<1>6. 2 * a.hi + t \in 0 .. W - 1
  BY <1>1, <1>2
<1>7. OfPair(Twice(a)) = (2 * a.hi + t) * W + (2 * a.lo - t * W)
  BY <1>5 DEF OfPair, W
<1>8. (2 * a.hi + t) * W + (2 * a.lo - t * W) = 2 * (a.hi * W + a.lo)
  BY <1>1, <1>2
<1> QED BY <1>2, <1>5, <1>6, <1>7, <1>8 DEF Pairs, Words, OfPair, W

(***************************************************************************)
(* The product of two words by their halves (ryu_mul_u64_u64_128): the     *)
(* pair is the product.                                                    *)
(***************************************************************************)
THEOREM ProductIsProduct ==
  ASSUME NEW x \in Words, NEW y \in Words
  PROVE  Product(x, y) \in Pairs /\ OfPair(Product(x, y)) = x * y
<1> DEFINE H == HalfWord
           W == Word
           x0 == x % H
           x1 == x \div H
           y0 == y % H
           y1 == y \div H
<1>1. H \in Nat \ {0} /\ W \in Nat \ {0} /\ W = H * H /\ x \in 0 .. W - 1 /\ y \in 0 .. W - 1
  BY Sizes DEF Words, Word
<1>2. /\ x0 \in 0 .. H - 1 /\ y0 \in 0 .. H - 1 /\ x1 \in Int /\ y1 \in Int
      /\ x = H * x1 + x0 /\ y = H * y1 + y0
  BY <1>1, IntDivMod
<1> HIDE DEF H, W, x0, x1, y0, y1
<1>3. \A z, zh, zl \in Int : z \in 0 .. W - 1 /\ zl \in 0 .. H - 1 /\ z = H * zh + zl => zh \in 0 .. H - 1
  <2>1. SUFFICES ASSUME NEW z \in 0 .. W - 1, NEW zh \in Int, NEW zl \in 0 .. H - 1, z = H * zh + zl
                 PROVE  zh \in 0 .. H - 1
    BY <1>1
  <2>2. ~(zh >= H)
    <3>1. SUFFICES ASSUME zh >= H PROVE FALSE
      OBVIOUS
    <3>2. H * zh >= H * H
      BY <3>1, <1>1
    <3> QED BY <3>2, <2>1, <1>1
  <2>3. ~(zh <= -1)
    <3>1. SUFFICES ASSUME zh <= -1 PROVE FALSE
      OBVIOUS
    <3>2. H * zh <= H * (-1)
      BY <3>1, <1>1
    <3> QED BY <3>2, <2>1, <1>1
  <2> QED BY <2>1, <2>2, <2>3, <1>1
<1>4. x1 \in 0 .. H - 1 /\ y1 \in 0 .. H - 1
  BY <1>1, <1>2, <1>3
<1> DEFINE p0 == x0 * y0
           p1 == x0 * y1
           p2 == x1 * y0
           p3 == x1 * y1
<1>5. p0 \in Nat /\ p1 \in Nat /\ p2 \in Nat /\ p3 \in Nat
  BY <1>2, <1>4
<1>6. x * y = p3 * W + (p1 + p2) * H + p0
  <2>1. x * y = (H * x1 + x0) * (H * y1 + y0)
    BY <1>2
  <2>2. (H * x1 + x0) * (H * y1 + y0) = (x1 * y1) * (H * H) + (x0 * y1 + x1 * y0) * H + x0 * y0
    BY <1>1, <1>2
  <2> QED BY <2>1, <2>2, <1>1
<1> HIDE DEF p0, p1, p2, p3
<1> DEFINE a0 == p0 \div H
           b0 == p0 % H
           a1 == p1 \div H
           b1 == p1 % H
           a2 == p2 \div H
           b2 == p2 % H
           mid == a0 + b1 + b2
           m1 == mid \div H
           m0 == mid % H
           hi == p3 + a1 + a2 + m1
<1>7. /\ p0 = H * a0 + b0 /\ p1 = H * a1 + b1 /\ p2 = H * a2 + b2
      /\ b0 \in 0 .. H - 1 /\ b1 \in 0 .. H - 1 /\ b2 \in 0 .. H - 1
      /\ a0 \in Int /\ a1 \in Int /\ a2 \in Int
  BY <1>1, <1>5, IntDivMod
<1> HIDE DEF a0, a1, a2, b0, b1, b2
<1>8. mid \in Int
  BY <1>7
<1> HIDE DEF mid
<1>9. mid = H * m1 + m0 /\ m0 \in 0 .. H - 1 /\ m1 \in Int
  BY <1>1, <1>8, IntDivMod
<1> HIDE DEF m1, m0
<1>10. m0 * H \in 0 .. W - H /\ b0 + m0 * H \in 0 .. W - 1
  <2>1. m0 * H <= (H - 1) * H /\ m0 * H >= 0
    BY <1>1, <1>9
  <2> QED BY <2>1, <1>1, <1>7, <1>9
<1>11. (mid * H) % W = m0 * H
  <2>1. mid * H = m1 * W + m0 * H
    BY <1>1, <1>9
  <2>2. mid * H \in Int /\ m0 * H \in Int /\ mid * H - m1 * W = m0 * H
    BY <1>1, <1>8, <1>9, <2>1
  <2>3. m0 * H \in 0 .. W - 1
    BY <1>1, <1>10
  <2>4. mid * H - m1 * W \in 0 .. W - 1
    BY <2>2, <2>3
  <2>5. (mid * H) % W = mid * H - m1 * W
    BY <2>2, <2>4, <1>1, <1>9, Modulo
  <2> QED BY <2>5, <2>2
<1>12. hi * W + (b0 + m0 * H) = x * y
  <2>1. hi * W = p3 * W + (a1 * H) * H + (a2 * H) * H + (m1 * H) * H
    BY <1>1, <1>5, <1>7, <1>9
  <2>2. (m1 * H) * H + m0 * H = mid * H
    BY <1>1, <1>9
  <2>3. mid * H = a0 * H + b1 * H + b2 * H
    BY <1>1, <1>7 DEF mid
  <2>4. (p1 + p2) * H = (a1 * H) * H + b1 * H + (a2 * H) * H + b2 * H
    BY <1>1, <1>7
  <2>5. a0 * H + b0 = p0
    BY <1>1, <1>7
  <2> HIDE DEF hi
  <2> QED BY <2>1, <2>2, <2>3, <2>4, <2>5, <1>6, <1>1, <1>5, <1>7, <1>8, <1>9
<1>13. hi \in Int
  BY <1>5, <1>7, <1>9
<1> HIDE DEF hi
<1>14. hi \in 0 .. W - 1
  <2>1. x * y <= (W - 1) * (W - 1) /\ x * y >= 0
    BY <1>1, ProductBelow
  <2>2. hi < W
    <3>1. SUFFICES ASSUME hi >= W PROVE FALSE
      BY <1>13, <1>1
    <3>2. hi * W >= W * W
      BY <3>1, <1>13, <1>1
    <3>3. (W - 1) * (W - 1) < W * W
      BY <1>1
    <3> QED BY <3>2, <3>3, <2>1, <1>12, <1>10, <1>1, <1>13
  <2>3. hi >= 0
    <3>1. SUFFICES ASSUME hi <= -1 PROVE FALSE
      BY <1>13
    <3>2. hi * W <= (-1) * W
      BY <3>1, <1>13, <1>1
    <3> QED BY <3>2, <2>1, <1>12, <1>10, <1>1, <1>13
  <2> QED BY <2>2, <2>3, <1>13, <1>1
<1>15. hi % W = hi
  <2>1. hi - 0 * W \in 0 .. W - 1
    BY <1>14, <1>1
  <2>2. hi % W = hi - 0 * W
    BY <2>1, <1>13, <1>1, Modulo
  <2> QED BY <2>2, <1>13, <1>1
<1>16. Product(x, y) = [hi |-> hi, lo |-> b0 + m0 * H]
  <2>1. Product(x, y) = [hi |-> hi % W, lo |-> b0 + ((mid * H) % W)]
    BY Zenon DEF Product, Pair, H, W, p0, p1, p2, p3, x0, x1, y0, y1, a0, a1, a2, b0, b1, b2, mid, m1, hi
  <2> QED BY <2>1, <1>11, <1>15
<1> QED BY <1>16, <1>14, <1>10, <1>12 DEF Pairs, Words, OfPair, W

(***************************************************************************)
(* A word times a pair (ryu_mul_u64_u128_192, and Eisel-Lemire): the carry *)
(* is found by comparing, and the three words are the whole product.       *)
(***************************************************************************)
THEOREM WideProductIsProduct ==
  ASSUME NEW m \in Words, NEW a \in Pairs
  PROVE  /\ WideProduct(m, a) \in [hi : Words, mid : Words, lo : Words]
         /\ OfTriple(WideProduct(m, a)) = m * OfPair(a)
<1> DEFINE W == Word
           low == Product(m, a.lo)
           high == Product(m, a.hi)
           sum == high.lo + low.hi
           carry == IF sum >= W THEN 1 ELSE 0
           mid == sum - carry * W
           hi == high.hi + carry
<1>1. m \in 0 .. W - 1 /\ a.hi \in 0 .. W - 1 /\ a.lo \in 0 .. W - 1 /\ W \in Nat \ {0}
  BY Sizes DEF Pairs, Words
<1>2. /\ low \in Pairs /\ OfPair(low) = m * a.lo
      /\ high \in Pairs /\ OfPair(high) = m * a.hi
  BY ProductIsProduct DEF Pairs
<1> HIDE DEF W, low, high
<1>3. /\ low.hi \in 0 .. W - 1 /\ low.lo \in 0 .. W - 1
      /\ high.hi \in 0 .. W - 1 /\ high.lo \in 0 .. W - 1
      /\ low.hi * W + low.lo = m * a.lo /\ high.hi * W + high.lo = m * a.hi
  BY <1>2 DEF Pairs, Words, OfPair, W
<1>4. sum \in Int /\ carry \in {0, 1} /\ mid \in 0 .. W - 1 /\ sum - carry * W = mid
  BY <1>1, <1>3
<1>5. sum % W = mid
  BY <1>1, <1>4, Modulo
<1>6. (mid < high.lo) <=> sum >= W
  BY <1>1, <1>3
<1> HIDE DEF mid
<1>7. (hi * W + mid) * W + low.lo = m * OfPair(a)
  <2>1. (hi * W + mid) * W + low.lo = (high.hi * W + high.lo + low.hi) * W + low.lo
    <3>1. hi * W + mid = high.hi * W + high.lo + low.hi
      BY <1>1, <1>3 DEF mid
    <3> QED BY <3>1
  <2>2. (high.hi * W + high.lo + low.hi) * W + low.lo = (high.hi * W + high.lo) * W + (low.hi * W + low.lo)
    BY <1>1, <1>3
  <2>3. m * OfPair(a) = (m * a.hi) * W + m * a.lo
    BY <1>1 DEF OfPair, W
  <2> QED BY <2>1, <2>2, <2>3, <1>3
<1>8. hi \in 0 .. W - 1
  <2>1. CASE carry = 0
    BY <2>1, <1>3
  <2>2. CASE carry = 1
    <3>1. SUFFICES ASSUME high.hi = W - 1 PROVE FALSE
      BY <2>2, <1>1, <1>3
    <3>2. m * a.hi <= (W - 1) * (W - 1)
      BY <1>1, ProductBelow
    <3>3. high.hi * W + high.lo >= (W - 1) * W
      BY <3>1, <1>1, <1>3
    <3>4. (W - 1) * W = (W - 1) * (W - 1) + (W - 1)
      BY <1>1
    <3>5. W = 1
      BY <3>2, <3>3, <3>4, <1>3, <1>1
    <3> QED BY <3>5, Sizes DEF W
  <2> QED BY <1>4, <2>1, <2>2
<1>9. hi % W = hi
  <2>1. hi \in Int /\ hi - 0 * W \in 0 .. W - 1
    BY <1>1, <1>8
  <2> HIDE DEF hi
  <2>2. hi % W = hi - 0 * W
    BY <2>1, <1>1, Modulo
  <2> QED BY <2>1, <2>2, <1>1
<1>10. WideProduct(m, a) = [hi |-> hi, mid |-> mid, lo |-> low.lo]
  <2>1. WideProduct(m, a) = [hi |-> (high.hi + (IF sum % W < high.lo THEN 1 ELSE 0)) % W,
                             mid |-> sum % W, lo |-> low.lo]
    BY Zenon DEF WideProduct, Triple, low, high, W
  <2>2. (IF sum % W < high.lo THEN 1 ELSE 0) = carry
    BY <1>5, <1>6
  <2> QED BY <2>1, <2>2, <1>5, <1>9
<1> QED BY <1>3, <1>4, <1>7, <1>8, <1>10 DEF Words, OfTriple, W
---------------------------------------------------------------------------
(* The full parser: its numbers and their lengths *)

LEMMA ParserSizes ==
  /\ Prec \in Nat /\ Prec > 1 /\ Prec <= MaxBits /\ EMin \in Int /\ EMax \in Int /\ EMin <= 0 /\ EMin < EMax
  /\ UnitExp \in Nat /\ UnitExp <= MaxBits /\ UnitExp = Prec - 1 - EMin
  /\ MaxDigits \in Nat /\ MaxBits \in Nat /\ MaxDigits <= MaxBits
  /\ WordBits \in Nat \ {0} /\ WordBits <= MaxBits /\ Word = 2 ^ WordBits
  /\ SigMax \in Nat /\ MinDecExp10 \in Int /\ MaxDecExp10 \in 0 .. MaxDigits - 1
BY FormatAssumption, ParseAssumption, SizeAssumption, CapacityAssumption, BoundsAssumption, WordAssumption
   DEF UnitExp

LEMMA ParserPowers ==
  /\ \A k \in 0 .. MaxBits : 2 ^ k \in Nat \ {0}
  /\ \A k \in 0 .. MaxDigits : 5 ^ k \in Nat \ {0} /\ 10 ^ k \in Nat \ {0}
  /\ 2 ^ 0 = 1 /\ 5 ^ 0 = 1 /\ 10 ^ 0 = 1
<1>1. \A k \in 0 .. MaxBits : 2 ^ k \in Nat \ {0}
  BY SizeAssumption, PowerPositive
<1>2. \A k \in 0 .. MaxDigits : 5 ^ k \in Nat \ {0}
  BY SizeAssumption, PowerPositive
<1>3. \A k \in 0 .. MaxDigits : 10 ^ k \in Nat \ {0}
  BY SizeAssumption, PowerPositive
<1> QED
  BY <1>1, <1>2, <1>3, SizeAssumption DEF PowersUpTo

\* A number has a length in digits of any base.
LEMMA LengthExists ==
  ASSUME NEW b \in Nat \ {0}, NEW most \in Nat, PowersUpTo(b, most), NEW n \in Nat, n < b ^ most
  PROVE  \E k \in 0 .. most : b ^ k > n /\ (k > 0 => b ^ (k - 1) <= n)
<1> DEFINE T == {k \in 0 .. most : n < b ^ k}
<1>1. T \subseteq Nat /\ most \in T
  OBVIOUS
<1>2. PICK k \in T : \A y \in T : k <= y
  <2> HIDE DEF T
  <2> QED
    BY <1>1, LeastMember
<1>3. k \in 0 .. most /\ n < b ^ k
  OBVIOUS
<1>4. k > 0 => b ^ (k - 1) <= n
  <2> SUFFICES ASSUME k > 0, ~ (b ^ (k - 1) <= n) PROVE FALSE
    OBVIOUS
  <2>1. k - 1 \in 0 .. most
    BY <1>3
  <2>2. b ^ (k - 1) \in Nat
    BY <2>1, PowerType
  <2>3. k - 1 \in T
    BY <2>1, <2>2
  <2> QED
    BY <1>2, <1>3, <2>3
<1> QED
  BY <1>3, <1>4

LEMMA BitLenIs ==
  ASSUME NEW n \in Nat, n < 2 ^ MaxBits
  PROVE  /\ BitLen(n) \in 0 .. MaxBits /\ n < 2 ^ BitLen(n)
         /\ BitLen(n) > 0 => 2 ^ (BitLen(n) - 1) <= n
<1> DEFINE P(k) == 2 ^ k > n /\ (k > 0 => 2 ^ (k - 1) <= n)
<1>1. \E k \in 0 .. MaxBits : P(k)
  <2>1. 2 \in Nat \ {0} /\ MaxBits \in Nat /\ PowersUpTo(2, MaxBits)
    BY SizeAssumption
  <2> QED
    BY <2>1, LengthExists, Zenon
<1>2. BitLen(n) = CHOOSE k \in 0 .. MaxBits : P(k)
  BY DEF BitLen
<1> HIDE DEF P
<1>3. BitLen(n) \in 0 .. MaxBits /\ P(BitLen(n))
  BY <1>1, <1>2
<1>4. 2 ^ BitLen(n) \in Nat
  BY <1>3, ParserPowers
<1> QED
  BY <1>3, <1>4 DEF P

LEMMA WordLenIs ==
  ASSUME NEW n \in Words, Word = 2 ^ WordBits, PowersUpTo(2, WordBits)
  PROVE  /\ WordLen(n) \in 0 .. WordBits /\ n < 2 ^ WordLen(n)
         /\ WordLen(n) > 0 => 2 ^ (WordLen(n) - 1) <= n
<1> DEFINE P(k) == 2 ^ k > n /\ (k > 0 => 2 ^ (k - 1) <= n)
<1>1. n \in Nat /\ n < 2 ^ WordBits
  BY Sizes DEF Words
<1>2. WordBits \in Nat /\ PowersUpTo(2, WordBits)
  BY WordAssumption
<1>3. \E k \in 0 .. WordBits : P(k)
  <2>1. 2 \in Nat \ {0}
    OBVIOUS
  <2> QED
    BY <1>1, <1>2, <2>1, LengthExists, Zenon
<1>4. WordLen(n) = CHOOSE k \in 0 .. WordBits : P(k)
  BY DEF WordLen
<1> HIDE DEF P
<1>5. WordLen(n) \in 0 .. WordBits /\ P(WordLen(n))
  BY <1>3, <1>4
<1>6. 2 ^ WordLen(n) \in Nat
  BY <1>2, <1>5, PowerType
<1> QED
  BY <1>5, <1>6 DEF P

LEMMA DecimalLenIs ==
  ASSUME NEW n \in Nat, n < 10 ^ MaxDigits, MaxDigits > 0
  PROVE  /\ DecimalLen(n) \in 1 .. MaxDigits /\ n < 10 ^ DecimalLen(n)
         /\ DecimalLen(n) > 1 => 10 ^ (DecimalLen(n) - 1) <= n
<1> DEFINE P(k) == 10 ^ k > n /\ (k > 1 => 10 ^ (k - 1) <= n)
<1>1. PICK k \in 0 .. MaxDigits : 10 ^ k > n /\ (k > 0 => 10 ^ (k - 1) <= n)
  <2>1. 10 \in Nat \ {0} /\ MaxDigits \in Nat /\ PowersUpTo(10, MaxDigits)
    BY SizeAssumption
  <2> QED
    BY <2>1, LengthExists, Zenon
<1>2. \E j \in 1 .. MaxDigits : P(j)
  <2>1. CASE k > 0
    BY <1>1, <2>1
  <2>2. CASE k = 0
    <3>1. n = 0 /\ 1 \in 1 .. MaxDigits /\ 10 ^ 1 \in Nat \ {0}
      BY <1>1, <2>2, ParserPowers, ParserSizes
    <3>2. P(1)
      BY <3>1
    <3> HIDE DEF P
    <3> QED
      BY <3>1, <3>2
  <2> QED
    BY <2>1, <2>2
<1>3. DecimalLen(n) = CHOOSE j \in 1 .. MaxDigits : P(j)
  BY DEF DecimalLen
<1> HIDE DEF P
<1>4. DecimalLen(n) \in 1 .. MaxDigits /\ P(DecimalLen(n))
  BY <1>2, <1>3
<1>5. 10 ^ DecimalLen(n) \in Nat
  BY <1>4, ParserPowers
<1> QED
  BY <1>4, <1>5 DEF P

---------------------------------------------------------------------------
(* The paths of the full parser *)

\* What the code compares with 10^19: a significand that was read whole and is that short
\* fits a word, and is what the digits spell.
LEMMA WordFits ==
  ASSUME DigitsInv, FitsWord, sawNonzero
  PROVE  sig \in Words /\ sig > 0
<1>1. /\ sig \in Nat /\ exact \in Nat /\ sigDigits \in Nat /\ weight \in Nat
      /\ sigDigits \in 1 .. LemireDigits /\ ~truncated
  BY DEF DigitsInv, TypeOK, FitsWord
<1>2. weight = 1 /\ ~droppedNonzero
  BY <1>1 DEF DigitsInv, DropsOnlyWhenFull
<1>3. exact = sig
  BY <1>1, <1>2 DEF DigitsInv, Enclosed
<1>4. 10 ^ (sigDigits - 1) <= sig /\ sig < 10 ^ sigDigits
  BY <1>3 DEF DigitsInv, CountsDigits
<1>5. LemireDigits \in Nat /\ LemireDigits <= MaxDigits /\ 10 ^ LemireDigits <= Word
  BY ParseAssumption, SizeAssumption
<1>6. 10 ^ sigDigits <= 10 ^ LemireDigits
  <2>1. sigDigits \in 0 .. MaxDigits /\ LemireDigits \in 0 .. MaxDigits /\ sigDigits <= LemireDigits
    BY <1>1, <1>5, ParserSizes
  <2>2. 10 \in Nat \ {0} /\ MaxDigits \in Nat /\ PowersUpTo(10, MaxDigits)
    BY SizeAssumption
  <2> QED
    BY <2>1, <2>2, PowerOrder, Zenon
<1>7. 10 ^ (sigDigits - 1) \in Nat \ {0} /\ 10 ^ sigDigits \in Nat /\ 10 ^ LemireDigits \in Nat
  <2>1. sigDigits - 1 \in 0 .. MaxDigits /\ sigDigits \in 0 .. MaxDigits /\ LemireDigits \in 0 .. MaxDigits
    BY <1>1, <1>5, ParserSizes
  <2> QED
    BY <2>1, ParserPowers
<1>. QED  BY <1>1, <1>4, <1>5, <1>6, <1>7, Sizes DEF Words

\* Eisel-Lemire finds no word times one of the powers of the 128-bit path too small.
LEMMA LemireInRange ==
  ASSUME NEW w \in Words, w > 0, NEW e \in -FastExp10 .. FastExp10
  PROVE  Lemire(w, e) # OutOfRange
<1> DEFINE lz == WordBits - WordLen(w)
           z == WideProduct(w * 2 ^ lz, Pow5Table(e))
           upper == z.hi \div 2 ^ (WordBits - 1)
           shift == WordBits - (Prec + 2) + upper
           roundBit == (z.hi \div 2 ^ shift) % 2 = 1
           sticky == z.hi % 2 ^ shift # 0 \/ z.mid # 0 \/ z.lo # 0
           down == z.hi \div 2 ^ (shift + 1)
           near == IF roundBit /\ (sticky \/ down % 2 = 1) THEN down + 1 ELSE down
           carry == near >= 2 ^ Prec
           power2 == BinaryExp(e) + WordBits - 1 - lz + upper + (IF carry THEN 1 ELSE 0)
           value == Rounded(roundBit \/ sticky, Assemble(IF carry THEN near \div 2 ELSE near, power2))
<1>1. FastExp10 \in Nat /\ e \in Int /\ e \in LemireMinExp10 .. LemireMaxExp10
  BY ParseAssumption, LemireAssumption
<1>2. WordLen(w) \in 1 .. WordBits /\ w < 2 ^ WordLen(w)
  <2>1. WordLen(w) \in 0 .. WordBits /\ w < 2 ^ WordLen(w)
    <3>1. Word = 2 ^ WordBits /\ PowersUpTo(2, WordBits)
      BY ParserSizes, SizeAssumption DEF PowersUpTo
    <3>. QED  BY <3>1, WordLenIs
  <2>2. WordLen(w) # 0
    <3> SUFFICES ASSUME WordLen(w) = 0 PROVE FALSE
      OBVIOUS
    <3>1. w < 1
      BY <2>1, ParserPowers
    <3> QED
      BY <3>1, Sizes DEF Words
  <2> QED
    BY <2>1, <2>2, ParserSizes
<1>3. w * 2 ^ lz \in Words
  <2>1. lz \in Nat /\ WordLen(w) \in Nat /\ WordLen(w) + lz = WordBits /\ WordLen(w) + lz <= MaxBits
    BY <1>2, ParserSizes
  <2>2. 2 ^ WordBits = 2 ^ WordLen(w) * 2 ^ lz
    <3> HIDE DEF lz
    <3>1. 2 \in Nat /\ MaxBits \in Nat /\ PowersUpTo(2, MaxBits)
      BY SizeAssumption
    <3>2. 2 ^ (WordLen(w) + lz) = 2 ^ WordLen(w) * 2 ^ lz
      BY <2>1, <3>1, PowerSum, ZenonT(60)
    <3> QED
      BY <2>1, <3>2
  <2>3. 2 ^ lz \in Nat \ {0} /\ 2 ^ WordLen(w) \in Nat \ {0} /\ w \in Nat
    <3>1. lz \in 0 .. MaxBits /\ WordLen(w) \in 0 .. MaxBits
      BY <2>1, <1>2, ParserSizes
    <3> HIDE DEF lz
    <3> QED
      BY <3>1, ParserPowers, Sizes DEF Words
  <2> HIDE DEF lz
  <2>4. w * 2 ^ lz < 2 ^ WordLen(w) * 2 ^ lz /\ w * 2 ^ lz \in Nat
    BY <1>2, <2>3, Products
  <2> QED
    BY <2>2, <2>4, ParserSizes DEF Words
<1>4. upper \in Nat
  <2>1. Pow5Table(e) \in Pairs
    BY <1>1, LemireAssumption
  <2>2. z \in [hi : Words, mid : Words, lo : Words]
    <3> HIDE DEF lz
    <3> QED
      BY <1>3, <2>1, WideProductIsProduct
  <2> HIDE DEF z
  <2>3. z.hi \in Nat
    BY <2>2, Sizes DEF Words
  <2>4. 2 ^ (WordBits - 1) \in Nat \ {0}
    <3>1. WordBits - 1 \in 0 .. MaxBits
      BY ParserSizes
    <3> QED
      BY <3>1, ParserPowers
  <2> QED
    BY <2>3, <2>4
<1>5. BinaryExp(e) \in Int /\ BinaryExp(-FastExp10) <= BinaryExp(e)
  BY <1>1 DEF BinaryExp
<1>6. WordBits - 1 - lz \in Nat
  BY <1>2, ParserSizes
<1>7. power2 >= EMin /\ power2 \in Int
  <2>1. (IF carry THEN 1 ELSE 0) \in {0, 1}
    OBVIOUS
  <2> DEFINE more == IF carry THEN 1 ELSE 0
             lead == WordBits - 1 - lz
  <2>2. power2 = BinaryExp(e) + lead + upper + more
    <3>1. WordBits \in Int /\ lz \in Int
      BY <1>2, ParserSizes
    <3> HIDE DEF lz, upper, carry
    <3> QED
      BY <1>5, <3>1
  <2>3. EMin \in Int /\ BinaryExp(-FastExp10) \in Int /\ EMin <= BinaryExp(-FastExp10)
    BY <1>1, ParserSizes, LemireAssumption DEF BinaryExp
  <2>4. lead \in Nat /\ more \in {0, 1}
    BY <1>6, <2>1
  <2> HIDE DEF more, lead, upper, power2
  <2> QED
    BY <1>4, <1>5, <2>2, <2>3, <2>4
<1>8. Lemire(w, e) = CASE power2 > EMax -> Overflowed
                       [] power2 < EMin -> OutOfRange
                       [] OTHER -> value
  BY DEF Lemire
<1> HIDE DEF power2
<1>9. Lemire(w, e) \in {Overflowed, value}
  <2> HIDE DEF value
  <2> QED
    BY <1>7, <1>8, ParserSizes
<1>10. value.status \in {"OK", "INEXACT"}
  BY DEF Rounded, Magnitude
<1> HIDE DEF value
<1>11. Overflowed.status = "OVERFLOW" /\ OutOfRange.status = "OUT_OF_RANGE"
  BY DEF Overflowed, OutOfRange, Magnitude
<1>. QED  BY <1>9, <1>10, <1>11

\* What the lexer establishes holds while the result is computed and after.
LEMMA ParserStep == DigitsInv /\ [PNext]_<<vars, result>> => DigitsInv'
<1> SUFFICES ASSUME DigitsInv, [PNext]_<<vars, result>> PROVE DigitsInv'
  OBVIOUS
<1>1. [Next]_vars
  BY DEF PNext, Lex, Invalid, Special, Zero, EiselLemire, TooLarge, TooSmall, ResolveTruncated,
         ConvertExactly, Return
<1>. QED  BY <1>1, InvStep

LEMMA ParserInvariance == PSpec => []DigitsInv
<1>1. PInit => DigitsInv
  BY LexerStarts DEF PInit
<1>. QED  BY <1>1, ParserStep, PTL DEF PSpec

(***************************************************************************)
(* The 128-bit path of ryu64_from_decimal_full is dead code: Eisel-Lemire  *)
(* answers for each number it would accept, whatever the sizes.            *)
(***************************************************************************)
THEOREM FastPathUnused == PSpec => []FastPathIdle
<1>1. DigitsInv => FastPathIdle
  <2> SUFFICES ASSUME DigitsInv, PastLemire, FitsWord, exp10 \in -FastExp10 .. FastExp10
               PROVE  FALSE
    BY DEF FastPathIdle
  <2>1. sig \in Words /\ sig > 0
    BY WordFits DEF PastLemire
  <2>2. Lemire(sig, exp10) # OutOfRange
    BY <2>1, LemireInRange
  <2>3. TriesLemire
    <3>1. FastExp10 \in Nat /\ LemireMinExp10 \in Int /\ LemireMaxExp10 \in Int
      BY ParseAssumption
    <3>. QED  BY <3>1, LemireAssumption DEF TriesLemire
  <2>. QED  BY <2>2, <2>3 DEF PastLemire, LemireAnswers
<1>. QED  BY <1>1, ParserInvariance, PTL

---------------------------------------------------------------------------
(* The exact conversion: what it has room for *)

LEMMA Quotient ==
  ASSUME NEW a \in Nat, NEW d \in Nat \ {0}
  PROVE  /\ a \div d \in Nat /\ a % d \in 0 .. d - 1 /\ a = d * (a \div d) + (a % d)
         /\ a \div d <= a
OBVIOUS

\* The sum of two exponents is that of the product, of two and of ten.
LEMMA TwosTens ==
  /\ \A j, k \in Nat : j + k <= MaxBits => 2 ^ (j + k) = 2 ^ j * 2 ^ k
  /\ \A j, k \in Nat : j + k <= MaxDigits => 10 ^ (j + k) = 10 ^ j * 10 ^ k
  /\ \A j, k \in 0 .. MaxBits : j <= k => 2 ^ j <= 2 ^ k
  /\ \A j, k \in 0 .. MaxDigits : j <= k => 10 ^ j <= 10 ^ k /\ 5 ^ j <= 5 ^ k
<1>1. /\ 2 \in Nat \ {0} /\ 5 \in Nat \ {0} /\ 10 \in Nat \ {0} /\ 2 \in Nat /\ 10 \in Nat
      /\ MaxBits \in Nat /\ MaxDigits \in Nat
      /\ PowersUpTo(2, MaxBits) /\ PowersUpTo(5, MaxDigits) /\ PowersUpTo(10, MaxDigits)
  BY SizeAssumption
<1>2. \A j, k \in Nat : j + k <= MaxBits => 2 ^ (j + k) = 2 ^ j * 2 ^ k
  BY <1>1, PowerSum, Zenon
<1>3. \A j, k \in Nat : j + k <= MaxDigits => 10 ^ (j + k) = 10 ^ j * 10 ^ k
  BY <1>1, PowerSum, Zenon
<1>4. \A j, k \in 0 .. MaxBits : j <= k => 2 ^ j <= 2 ^ k
  BY <1>1, PowerOrder, Zenon
<1>5. \A j, k \in 0 .. MaxDigits : j <= k => 10 ^ j <= 10 ^ k
  BY <1>1, PowerOrder, Zenon
<1>6. \A j, k \in 0 .. MaxDigits : j <= k => 5 ^ j <= 5 ^ k
  BY <1>1, PowerOrder, Zenon
<1>. QED  BY <1>2, <1>3, <1>4, <1>5, <1>6

\* Twice a power of five is no more than that power of ten.
LEMMA FivesBelowTens ==
  ASSUME NEW k \in 1 .. MaxDigits
  PROVE  2 * 5 ^ k <= 10 ^ k
<1> DEFINE five == 5
           ten == 10
           S == {i \in Nat : i < MaxDigits => 2 * five ^ (i + 1) <= ten ^ (i + 1)}
<1>1. MaxDigits \in Nat /\ PowersUpTo(five, MaxDigits) /\ PowersUpTo(ten, MaxDigits)
  BY SizeAssumption
<1>2. \A i \in 0 .. MaxDigits : five ^ i \in Nat /\ ten ^ i \in Nat
  BY ParserPowers
<1> HIDE DEF five, ten
<1>3. 0 \in S
  <2> SUFFICES ASSUME 0 < MaxDigits PROVE 2 * five ^ (0 + 1) <= ten ^ (0 + 1)
    OBVIOUS
  <2>1. five ^ (0 + 1) = five * five ^ 0 /\ ten ^ (0 + 1) = ten * ten ^ 0 /\ five ^ 0 = 1 /\ ten ^ 0 = 1
    BY <1>1 DEF PowersUpTo
  <2>. QED  BY <2>1 DEF five, ten
<1>4. ASSUME NEW i \in Nat, i \in S PROVE i + 1 \in S
  <2> SUFFICES ASSUME i + 1 < MaxDigits PROVE 2 * five ^ ((i + 1) + 1) <= ten ^ ((i + 1) + 1)
    OBVIOUS
  <2>1. /\ five ^ ((i + 1) + 1) = five * five ^ (i + 1)
        /\ ten ^ ((i + 1) + 1) = ten * ten ^ (i + 1)
    BY <1>1 DEF PowersUpTo
  <2>2. five ^ (i + 1) \in Nat /\ ten ^ (i + 1) \in Nat /\ 2 * five ^ (i + 1) <= ten ^ (i + 1)
    BY <1>1, <1>2, <1>4
  <2>3. \A x, y \in Nat : 2 * x <= y => 2 * (5 * x) <= 10 * y
    OBVIOUS
  <2>4. 2 * (five * five ^ (i + 1)) <= ten * ten ^ (i + 1)
    BY <2>2, <2>3 DEF five, ten
  <2>. QED  BY <2>1, <2>4
<1>5. Nat \subseteq S
  <2> HIDE DEF S
  <2>. QED  BY <1>3, <1>4, Induction
<1>6. k - 1 \in S /\ (k - 1) + 1 = k /\ k - 1 < MaxDigits
  BY <1>1, <1>5
<1>. QED  BY <1>6 DEF five, ten

\* Dividing by a factor as often as that is possible leaves a number.
LEMMA DivisionsLeave ==
  ASSUME NEW n \in Nat \ {0}, NEW f \in Nat \ {0}, NEW limit \in Nat, PowersUpTo(f, limit)
  PROVE  LET k == Divisions(n, f, limit)
         IN  k \in 0 .. limit /\ n \div f ^ k \in 1 .. n
<1> DEFINE P(k) == /\ n % f ^ k = 0
                   /\ k < limit => n % f ^ (k + 1) # 0
           T == {k \in 0 .. limit : k < limit => n % f ^ (k + 1) # 0}
<1>1. \A k \in 0 .. limit : f ^ k \in Nat \ {0}
  BY PowerPositive
<1>2. \E k \in 0 .. limit : P(k)
  <2>1. T \subseteq Nat /\ limit \in T
    OBVIOUS
  <2>2. PICK k \in T : \A y \in T : k <= y
    <3> HIDE DEF T
    <3>. QED  BY <2>1, LeastMember
  <2>3. n % f ^ k = 0
    <3>1. CASE k = 0
      <4>1. f ^ 0 = 1
        BY DEF PowersUpTo
      <4>. QED  BY <3>1, <4>1
    <3>2. CASE k > 0
      <4>1. k - 1 \in 0 .. limit /\ k - 1 < limit /\ (k - 1) + 1 = k
        BY <3>2
      <4>2. k - 1 \notin T
        BY <2>2, <4>1
      <4>. QED  BY <4>1, <4>2
    <3>. QED  BY <3>1, <3>2
  <2>. QED  BY <2>3
<1>3. Divisions(n, f, limit) = CHOOSE k \in 0 .. limit : P(k)
  BY DEF Divisions
<1> DEFINE d == Divisions(n, f, limit)
<1> HIDE DEF P
<1>4. d \in 0 .. limit /\ P(d)
  BY <1>2, <1>3
<1>5. n % f ^ d = 0 /\ f ^ d \in Nat \ {0}
  BY <1>1, <1>4 DEF P
<1> HIDE DEF d
<1>6. \A p \in Nat \ {0} : n % p = 0 => n \div p \in 1 .. n
  <2> SUFFICES ASSUME NEW p \in Nat \ {0}, n % p = 0 PROVE n \div p \in 1 .. n
    OBVIOUS
  <2>1. n \div p \in Nat /\ n = p * (n \div p) + (n % p) /\ n \div p <= n
    BY Quotient
  <2>2. n \div p # 0
    BY <2>1
  <2>. QED  BY <2>1, <2>2
<1>7. n \div f ^ d \in 1 .. n
  BY <1>5, <1>6
<1>. QED  BY <1>4, <1>7 DEF d

\* What ryu_floor_log2_ratio finds: the leading power of two of a ratio.
LEMMA LeadingPower ==
  ASSUME NEW num \in Nat \ {0}, NEW den \in Nat \ {0}, num <= SigMax, den <= SigMax
  PROVE  LET q == FloorLog2Ratio(num, den)
         IN  /\ q \in -MaxBits .. MaxBits - 1
             /\ q >= 0 => den * 2 ^ q <= num /\ num < den * 2 ^ (q + 1)
             /\ q < 0 => den <= num * 2 ^ (-q) /\ num * 2 ^ (-q) < 2 * den
             /\ num >= den <=> q >= 0
<1> DEFINE q == FloorLog2Ratio(num, den)
<1> SUFFICES /\ q \in -MaxBits .. MaxBits - 1
             /\ q >= 0 => den * 2 ^ q <= num /\ num < den * 2 ^ (q + 1)
             /\ q < 0 => den <= num * 2 ^ (-q) /\ num * 2 ^ (-q) < 2 * den
             /\ num >= den <=> q >= 0
  OBVIOUS
<1>1. /\ MaxBits \in Nat /\ SigMax \in Nat /\ SigMax < 2 ^ MaxBits /\ 2 ^ MaxBits \in Nat
      /\ \A k \in 0 .. MaxBits : 2 ^ k \in Nat \ {0}
      /\ \A k \in 0 .. MaxBits - 1 : 2 ^ (k + 1) = 2 * 2 ^ k
  <2>1. MaxBits \in Nat /\ SigMax \in Nat /\ MaxBits \in 0 .. MaxBits
    BY ParserSizes
  <2>. QED  BY <2>1, ParserPowers, SizeAssumption DEF PowersUpTo
<1>2. CASE num >= den
  <2> DEFINE x == num \div den
             k == BitLen(x)
  <2>1. x \in Nat /\ x <= num /\ num = den * x + (num % den) /\ num % den \in 0 .. den - 1
    BY Quotient
  <2>2. x # 0
    BY <1>2, <2>1
  <2>3. q = k - 1
    BY <1>2 DEF FloorLog2Ratio
  <2> HIDE DEF x, q
  <2>4. k \in 0 .. MaxBits /\ x < 2 ^ k /\ (k > 0 => 2 ^ (k - 1) <= x)
    BY <1>1, <2>1, BitLenIs
  <2> HIDE DEF k
  <2>5. k # 0
    <3>1. k = 0 => x < 1
      BY <2>4, ParserPowers
    <3>. QED  BY <2>1, <2>2, <3>1
  <2>6. q \in 0 .. MaxBits - 1 /\ k = q + 1
    BY <1>1, <2>3, <2>4, <2>5
  <2>7. 2 ^ q \in Nat \ {0} /\ 2 ^ k \in Nat \ {0} /\ 2 ^ q <= x /\ x < 2 ^ k
    BY <1>1, <2>4, <2>6
  <2>8. 2 ^ q * den <= x * den /\ x * den + den <= 2 ^ k * den
    BY <2>1, <2>7, Products
  <2>9. \A y \in Nat : y * den = den * y /\ y * den \in Nat
    OBVIOUS
  <2>10. den * 2 ^ q <= num /\ num < den * 2 ^ k
    <3> DEFINE u == 2 ^ q * den
               v == x * den
               w == 2 ^ k * den
               r == num % den
    <3>1. u \in Nat /\ v \in Nat /\ w \in Nat /\ den * 2 ^ q = u /\ den * x = v /\ den * 2 ^ k = w
      BY <2>1, <2>7, <2>9
    <3>2. u <= v /\ v + den <= w /\ num = v + r /\ r \in 0 .. den - 1
      BY <2>1, <2>8, <3>1
    <3> HIDE DEF u, v, w, r
    <3>3. u <= num /\ num < w
      BY <3>1, <3>2
    <3>. QED  BY <3>1, <3>3
  <2>. QED  BY <1>1, <1>2, <2>6, <2>10
<1>3. CASE num < den
  <2> DEFINE x == (den - 1) \div num
             k == BitLen(x)
  <2>1. x \in Nat /\ x <= den - 1 /\ den - 1 = num * x + ((den - 1) % num) /\ (den - 1) % num \in 0 .. num - 1
    <3>1. den - 1 \in Nat
      OBVIOUS
    <3>. QED  BY <3>1, Quotient
  <2>2. x # 0
    BY <1>3, <2>1
  <2>3. q = -k
    BY <1>3 DEF FloorLog2Ratio
  <2> HIDE DEF x, q
  <2>4. k \in 0 .. MaxBits /\ x < 2 ^ k /\ (k > 0 => 2 ^ (k - 1) <= x)
    BY <1>1, <2>1, BitLenIs
  <2> HIDE DEF k
  <2>5. k # 0
    <3>1. k = 0 => x < 1
      BY <2>4, ParserPowers
    <3>. QED  BY <2>1, <2>2, <3>1
  <2>6. q \in -MaxBits .. -1 /\ k = -q /\ k \in 1 .. MaxBits
    BY <1>1, <2>3, <2>4, <2>5
  <2>7. 2 ^ (k - 1) \in Nat \ {0} /\ 2 ^ k \in Nat \ {0} /\ 2 ^ (k - 1) <= x /\ x < 2 ^ k /\ 2 ^ k = 2 * 2 ^ (k - 1)
    <3>1. k - 1 \in 0 .. MaxBits - 1 /\ (k - 1) + 1 = k /\ k - 1 \in 0 .. MaxBits
      BY <1>1, <2>6
    <3>2. 2 ^ ((k - 1) + 1) = 2 * 2 ^ (k - 1)
      BY <1>1, <3>1
    <3>. QED  BY <1>1, <2>4, <2>6, <3>1, <3>2
  <2>8. 2 ^ (k - 1) * num <= x * num /\ x * num + num <= 2 ^ k * num
    BY <2>1, <2>7, Products
  <2>9. \A y \in Nat : y * num = num * y /\ y * num \in Nat
    OBVIOUS
  <2>10. (2 * 2 ^ (k - 1)) * num = 2 * (2 ^ (k - 1) * num)
    BY <2>7
  <2>11. den <= num * 2 ^ k /\ num * 2 ^ k < 2 * den
    <3> DEFINE u == 2 ^ (k - 1) * num
               v == x * num
               w == 2 ^ k * num
               r == (den - 1) % num
    <3>1. u \in Nat /\ v \in Nat /\ w \in Nat /\ num * x = v /\ num * 2 ^ k = w /\ w = 2 * u
      BY <2>1, <2>7, <2>9, <2>10
    <3>2. u <= v /\ v + num <= w /\ den - 1 = v + r /\ r \in 0 .. num - 1
      BY <2>1, <2>8, <3>1
    <3> HIDE DEF u, v, w, r
    <3>3. den <= w /\ w < 2 * den
      BY <3>1, <3>2
    <3>. QED  BY <3>1, <3>3
  <2>. QED  BY <1>1, <1>3, <2>6, <2>11
<1>. QED  BY <1>2, <1>3

\* The bit-by-bit division has room when the doubled operands have.
LEMMA NormalFits ==
  ASSUME NEW num \in Nat \ {0}, NEW den \in Nat \ {0}, 2 * num <= SigMax, 2 * den <= SigMax,
         NEW exp2 \in Int
  PROVE  LET q == FloorLog2Ratio(num, den)
         IN  RoundNormal(num, den, q, q + exp2).status # "OUT_OF_RANGE"
<1> DEFINE q == FloorLog2Ratio(num, den)
           n == IF q >= 0 THEN num ELSE num * 2 ^ (-q)
           d == IF q >= 0 THEN den * 2 ^ q ELSE den
           RemAfter(i) == (n * 2 ^ i) % d
           all == (n * 2 ^ (Prec + 1)) \div d
           guard == (all \div 2) % 2 = 1
           inexact == all % 4 # 0 \/ RemAfter(Prec + 1) # 0
           down == all \div 4
           near == IF guard /\ (all % 2 = 1 \/ RemAfter(Prec + 1) # 0 \/ down % 2 = 1)
                     THEN down + 1 ELSE down
           carry == near = 2 ^ Prec
           qEnd == IF carry THEN (q + exp2) + 1 ELSE q + exp2
           value == Rounded(inexact, Assemble(IF carry THEN near \div 2 ELSE near, qEnd))
<1>1. num <= SigMax /\ den <= SigMax /\ SigMax \in Nat
  BY ParserSizes
<1>2. /\ q \in -MaxBits .. MaxBits - 1
      /\ q >= 0 => den * 2 ^ q <= num
      /\ q < 0 => num * 2 ^ (-q) < 2 * den
  BY <1>1, LeadingPower
<1> HIDE DEF q
<1>3. n \in Nat /\ n <= SigMax /\ d \in Nat \ {0} /\ 2 * d <= SigMax
  <2>1. CASE q >= 0
    <3>1. q \in 0 .. MaxBits
      BY <1>2, <2>1, ParserSizes
    <3>2. 2 ^ q \in Nat \ {0}
      BY <3>1, ParserPowers
    <3>3. den * 2 ^ q \in Nat \ {0}
      BY <3>2
    <3>. QED  BY <1>1, <1>2, <2>1, <3>3
  <2>2. CASE q < 0
    <3>1. -q \in 0 .. MaxBits
      BY <1>2, <2>2, ParserSizes
    <3>2. 2 ^ (-q) \in Nat \ {0}
      BY <3>1, ParserPowers
    <3>3. num * 2 ^ (-q) \in Nat
      BY <3>2
    <3>. QED  BY <1>1, <1>2, <2>2, <3>3
  <2>. QED  BY <1>2, <2>1, <2>2, ParserSizes
<1> HIDE DEF n, d
<1>4. \A i \in 0 .. Prec : ~ (2 * RemAfter(i) > SigMax)
  <2> SUFFICES ASSUME NEW i \in 0 .. Prec PROVE ~ (2 * RemAfter(i) > SigMax)
    OBVIOUS
  <2>1. 2 ^ i \in Nat
    <3>1. i \in 0 .. MaxBits
      BY ParserSizes
    <3>. QED  BY <3>1, ParserPowers
  <2>2. n * 2 ^ i \in Nat
    BY <1>3, <2>1
  <2>3. RemAfter(i) \in 0 .. d - 1
    BY <1>3, <2>2, Quotient
  <2>. QED  BY <1>1, <1>3, <2>3
<1>5. ~ (n > SigMax)
  BY <1>1, <1>3
<1>6. RoundNormal(num, den, q, q + exp2) = IF n > SigMax \/ \E i \in 0 .. Prec : 2 * RemAfter(i) > SigMax
                                              THEN OutOfRange
                                              ELSE IF qEnd > EMax THEN Overflowed ELSE value
  BY DEF RoundNormal, n, d
<1> HIDE DEF RemAfter
<1>7. RoundNormal(num, den, q, q + exp2) \in {Overflowed, value}
  <2> HIDE DEF value, qEnd
  <2>. QED  BY <1>4, <1>5, <1>6
<1>8. value.status \in {"OK", "INEXACT"}
  BY DEF Rounded, Magnitude
<1>. QED  BY <1>7, <1>8 DEF Overflowed, Magnitude, q

\* So has the division of the subnormal branch when the shifted operands have.
LEMMA SubnormalFits ==
  ASSUME NEW num \in Nat \ {0}, NEW den \in Nat \ {0}, NEW shift \in -MaxBits .. MaxBits,
         num <= SigMax, 2 * den <= SigMax,
         shift >= 0 => num * 2 ^ shift <= SigMax,
         shift < 0 => 2 * (den * 2 ^ (-shift)) <= SigMax
  PROVE  RoundSubnormal(num, den, shift).status # "OUT_OF_RANGE"
<1> DEFINE n == IF shift >= 0 THEN num * 2 ^ shift ELSE num
           d == IF shift >= 0 THEN den ELSE den * 2 ^ (-shift)
           down == n \div d
           rest == n % d
           sub == IF 2 * rest > d \/ (2 * rest = d /\ down % 2 = 1) THEN down + 1 ELSE down
           full == n > SigMax \/ d > SigMax \/ 2 * rest > SigMax
           value == Rounded(rest # 0, sub)
<1>1. n \in Nat /\ n <= SigMax /\ d \in Nat \ {0} /\ 2 * d <= SigMax
  <2>1. CASE shift >= 0
    <3>1. 2 ^ shift \in Nat \ {0}
      <4>1. shift \in 0 .. MaxBits
        BY <2>1
      <4>. QED  BY <4>1, ParserPowers
    <3>2. num * 2 ^ shift \in Nat
      BY <3>1
    <3>. QED  BY <2>1, <3>2
  <2>2. CASE shift < 0
    <3>1. 2 ^ (-shift) \in Nat \ {0}
      <4>1. -shift \in 0 .. MaxBits
        BY <2>2, ParserSizes
      <4>. QED  BY <4>1, ParserPowers
    <3>2. den * 2 ^ (-shift) \in Nat \ {0}
      BY <3>1
    <3>. QED  BY <2>2, <3>2
  <2>. QED  BY <2>1, <2>2
<1>2. RoundSubnormal(num, den, shift) = CASE full -> OutOfRange
                                          [] ~full /\ sub = 0 -> Underflowed
                                          [] OTHER -> value
  BY DEF RoundSubnormal
<1> HIDE DEF n, d
<1>3. rest \in 0 .. d - 1
  BY <1>1, Quotient
<1>4. ~full
  BY <1>1, <1>3, ParserSizes
<1>5. RoundSubnormal(num, den, shift) \in {Underflowed, value}
  <2> HIDE DEF full, value, sub
  <2>. QED  BY <1>2, <1>4
<1>6. value.status \in {"OK", "INEXACT"}
  BY DEF Rounded, Magnitude
<1>. QED  BY <1>5, <1>6 DEF Underflowed, Magnitude

\* Below the normal numbers a ratio is shifted to a significand at most.
LEMMA ShiftedBelowHidden ==
  ASSUME NEW num \in Nat \ {0}, NEW den \in Nat \ {0}, num <= SigMax, den <= SigMax,
         NEW shift \in 0 .. MaxBits, FloorLog2Ratio(num, den) + shift <= Prec - 2
  PROVE  num * 2 ^ shift <= Hidden * den
<1> DEFINE q == FloorLog2Ratio(num, den)
<1>1. /\ q \in -MaxBits .. MaxBits - 1
      /\ q >= 0 => num < den * 2 ^ (q + 1)
      /\ q < 0 => num * 2 ^ (-q) < 2 * den
      /\ q + shift <= Prec - 2
  BY LeadingPower
<1> HIDE DEF q
<1>2. /\ Prec \in Nat /\ Prec > 1 /\ Prec <= MaxBits /\ MaxBits \in Nat
      /\ \A k \in 0 .. MaxBits : 2 ^ k \in Nat \ {0}
      /\ \A j, k \in 0 .. MaxBits : j <= k => 2 ^ j <= 2 ^ k
      /\ \A j, k \in Nat : j + k <= MaxBits => 2 ^ (j + k) = 2 ^ j * 2 ^ k
      /\ Hidden = 2 ^ (Prec - 1) /\ Hidden \in Nat \ {0}
  <2>1. Prec \in Nat /\ Prec > 1 /\ Prec <= MaxBits /\ MaxBits \in Nat /\ Prec - 1 \in 0 .. MaxBits
    BY ParserSizes
  <2>2. 2 ^ (Prec - 1) \in Nat \ {0}
    BY <2>1, ParserPowers
  <2>. QED  BY <2>1, <2>2, ParserPowers, TwosTens DEF Hidden
<1>3. 2 ^ 1 = 2 /\ 2 <= Hidden
  <2>1. 2 ^ 1 = 2
    <3>1. 0 \in 0 .. MaxBits - 1 /\ 0 + 1 = 1
      BY <1>2
    <3>2. 2 ^ (0 + 1) = 2 * 2 ^ 0 /\ 2 ^ 0 = 1
      BY <3>1, SizeAssumption DEF PowersUpTo
    <3>. QED  BY <3>2
  <2>2. 1 \in 0 .. MaxBits /\ Prec - 1 \in 0 .. MaxBits /\ 1 <= Prec - 1
    BY <1>2
  <2>. QED  BY <1>2, <2>1, <2>2
<1>4. \A x, u, v, w \in Nat : u <= v /\ x <= w * u => x <= w * v
  <2> SUFFICES ASSUME NEW x \in Nat, NEW u \in Nat, NEW v \in Nat, NEW w \in Nat, u <= v, x <= w * u
               PROVE  x <= w * v
    OBVIOUS
  <2>1. PICK z \in Nat : v = u + z
    <3>1. v - u \in Nat /\ v = u + (v - u)
      OBVIOUS
    <3>. QED  BY <3>1
  <2>2. w * v = w * u + w * z /\ w * z \in Nat /\ w * u \in Nat
    BY <2>1
  <2>. QED  BY <2>2
<1>5. 2 ^ shift \in Nat \ {0} /\ num * 2 ^ shift \in Nat
  <2>1. 2 ^ shift \in Nat \ {0}
    BY <1>2
  <2>. QED  BY <2>1
<1>6. CASE q >= 0
  <2>1. q + 1 \in 0 .. MaxBits /\ q + 1 \in Nat /\ shift \in Nat /\ (q + 1) + shift \in 0 .. MaxBits
        /\ (q + 1) + shift <= Prec - 1 /\ Prec - 1 \in 0 .. MaxBits
    BY <1>1, <1>2, <1>6
  <2> DEFINE s == 2 ^ shift
             t == 2 ^ (q + 1)
             e == 2 ^ ((q + 1) + shift)
  <2>2. s \in Nat \ {0} /\ t \in Nat \ {0} /\ e \in Nat /\ e = t * s /\ e <= Hidden
    BY <1>2, <2>1
  <2>3. num < den * t /\ num * 2 ^ shift = num * s
    BY <1>1, <1>6
  <2> HIDE DEF s, t, e
  <2>4. num * s <= (den * t) * s
    <3>1. den * t \in Nat
      BY <2>2
    <3>. QED  BY <2>2, <2>3, <3>1, Products
  <2>5. (den * t) * s = den * e /\ num * s \in Nat /\ Hidden * den = den * Hidden
    BY <1>2, <2>2
  <2>6. num * s <= den * Hidden
    BY <1>2, <1>4, <2>2, <2>4, <2>5
  <2>. QED  BY <2>3, <2>5, <2>6
<1>7. CASE q < 0 /\ shift <= -q
  <2>1. -q \in 0 .. MaxBits
    BY <1>1, <1>2, <1>7
  <2> DEFINE s == 2 ^ shift
             t == 2 ^ (-q)
  <2>2. s \in Nat \ {0} /\ t \in Nat \ {0} /\ s <= t
    BY <1>2, <1>7, <2>1
  <2>3. num * t < 2 * den /\ num * 2 ^ shift = num * s
    BY <1>1, <1>7
  <2> HIDE DEF s, t
  <2>4. num * s <= num * t /\ num * s \in Nat /\ num * t \in Nat
    <3>1. s * num <= t * num
      BY <2>2, Products
    <3>. QED  BY <2>2, <3>1
  <2>5. num * s <= den * 2 /\ num * s \in Nat
    BY <2>3, <2>4
  <2>6. num * s <= den * Hidden
    BY <1>2, <1>3, <1>4, <2>5
  <2>. QED  BY <1>2, <2>3, <2>6
<1>8. CASE q < 0 /\ shift > -q
  <2> DEFINE p == -q
             j == shift + q
  <2>1. p \in 0 .. MaxBits /\ p \in Nat /\ j \in Nat /\ p + j = shift /\ p + j <= MaxBits
        /\ j + 1 <= Prec - 1 /\ j + 1 <= MaxBits /\ j \in 0 .. MaxBits /\ j + 1 \in 0 .. MaxBits
        /\ Prec - 1 \in 0 .. MaxBits
    BY <1>1, <1>2, <1>8
  <2>2. num * 2 ^ p < 2 * den
    BY <1>1, <1>8
  <2> HIDE DEF p, j
  <2> DEFINE s == 2 ^ p
             t == 2 ^ j
             e == 2 ^ (j + 1)
  <2>3. s \in Nat \ {0} /\ t \in Nat \ {0} /\ e \in Nat /\ e <= Hidden /\ 2 ^ shift = s * t /\ e = t * 2
    <3>1. 2 ^ (p + j) = 2 ^ p * 2 ^ j
      BY <1>2, <2>1
    <3>2. 2 ^ (j + 1) = 2 ^ j * 2 ^ 1
      <4>1. 1 \in Nat
        OBVIOUS
      <4>. QED  BY <1>2, <2>1, <4>1
    <3>3. 2 ^ (j + 1) <= 2 ^ (Prec - 1)
      BY <1>2, <2>1
    <3>. QED  BY <1>2, <1>3, <2>1, <3>1, <3>2, <3>3
  <2> HIDE DEF s, t, e
  <2>4. (num * s) * t <= (2 * den) * t
    <3>1. num * s \in Nat /\ 2 * den \in Nat /\ num * s <= 2 * den
      BY <2>2, <2>3 DEF s
    <3>. QED  BY <2>3, <3>1, Products
  <2>5. (2 * den) * t = den * (t * 2) /\ num * (s * t) = (num * s) * t /\ num * (s * t) \in Nat
    BY <2>3
  <2>6. num * (s * t) <= den * Hidden
    BY <1>2, <1>4, <2>3, <2>4, <2>5
  <2>. QED  BY <1>2, <2>3, <2>6
<1>. QED  BY <1>1, <1>6, <1>7, <1>8

\* A ratio is converted when its doubled operands fit a bigint, the denominator times a
\* significand does, and the denominator in units of the format.
LEMMA RatioFits ==
  ASSUME NEW num \in Nat \ {0}, NEW den \in Nat \ {0}, NEW exp2 \in Int,
         2 * num <= SigMax, Hidden * den <= SigMax, exp2 <= 0 \/ den <= num,
         UnitExp + exp2 < 0 => /\ -(UnitExp + exp2) <= MaxBits
                               /\ 2 * (den * 2 ^ (-(UnitExp + exp2))) <= SigMax
  PROVE  ConvertRatio(num, den, exp2).status # "OUT_OF_RANGE"
<1> DEFINE q == FloorLog2Ratio(num, den)
           shift == UnitExp + exp2
<1>1. Hidden \in Nat /\ Hidden >= 2
  <2>1. 1 \in 0 .. MaxBits /\ Prec - 1 \in 0 .. MaxBits /\ 1 <= Prec - 1 /\ 0 \in 0 .. MaxBits - 1 /\ 0 + 1 = 1
    BY ParserSizes
  <2>2. 2 ^ 1 <= 2 ^ (Prec - 1) /\ 2 ^ (Prec - 1) \in Nat
    BY <2>1, TwosTens, ParserPowers
  <2>3. 2 ^ (0 + 1) = 2 * 2 ^ 0 /\ 2 ^ 0 = 1
    BY <2>1, SizeAssumption DEF PowersUpTo
  <2>. QED  BY <2>1, <2>2, <2>3 DEF Hidden
<1>2. 2 * den <= SigMax /\ den <= SigMax /\ num <= SigMax /\ SigMax \in Nat
  <2>1. 2 * den <= Hidden * den
    BY <1>1, Products
  <2>2. 2 * den \in Nat /\ Hidden * den \in Nat
    BY <1>1
  <2>. QED  BY <2>1, <2>2, ParserSizes
<1>3. q \in -MaxBits .. MaxBits - 1 /\ (den <= num => q >= 0)
  BY <1>2, LeadingPower
<1>4. ConvertRatio(num, den, exp2) = CASE q + exp2 > EMax -> Overflowed
                                       [] q + exp2 < EMin -> RoundSubnormal(num, den, shift)
                                       [] OTHER -> RoundNormal(num, den, q, q + exp2)
  BY DEF ConvertRatio
<1>5. RoundNormal(num, den, q, q + exp2).status # "OUT_OF_RANGE"
  BY <1>2, NormalFits
<1>6. ASSUME q + exp2 < EMin PROVE RoundSubnormal(num, den, shift).status # "OUT_OF_RANGE"
  <2> HIDE DEF q
  <2>1. exp2 <= 0 /\ q + shift <= Prec - 2
    BY <1>3, <1>6, ParserSizes
  <2>2. shift \in -MaxBits .. MaxBits
    BY <2>1, ParserSizes
  <2>3. shift >= 0 => num * 2 ^ shift <= SigMax
    <3> SUFFICES ASSUME shift >= 0 PROVE num * 2 ^ shift <= SigMax
      OBVIOUS
    <3>1. shift \in 0 .. MaxBits
      BY <2>2
    <3> HIDE DEF shift
    <3>2. num * 2 ^ shift <= Hidden * den
      BY <1>2, <2>1, <3>1, ShiftedBelowHidden DEF q
    <3>3. 2 ^ shift \in Nat
      BY <3>1, ParserPowers
    <3>4. num * 2 ^ shift \in Nat /\ Hidden * den \in Nat
      BY <1>1, <3>3
    <3>. QED  BY <1>2, <3>2, <3>4
  <2>4. shift < 0 => 2 * (den * 2 ^ (-shift)) <= SigMax
    OBVIOUS
  <2> HIDE DEF shift
  <2>. QED  BY <1>2, <2>2, <2>3, <2>4, SubnormalFits
<1>7. Overflowed.status # "OUT_OF_RANGE"
  BY DEF Overflowed, Magnitude
<1> HIDE DEF q, shift
<1>. QED  BY <1>4, <1>5, <1>6, <1>7

\* A product of ten's power that is no overflow has room, and so has its double in fives.
LEMMA PositiveFits ==
  ASSUME NEW n \in Nat \ {0}, NEW e \in Nat, ShortDigits \in 1 .. MaxDigits, n < 10 ^ ShortDigits,
         e > 0 => DecimalLen(n) - 1 + e <= MaxDecExp10
  PROVE  ConvertPositive(n, e).status # "OUT_OF_RANGE"
<1> DEFINE len == DecimalLen(n)
<1>1. /\ MaxDigits \in Nat /\ MaxDecExp10 \in 0 .. MaxDigits - 1 /\ MaxDigits > 0 /\ SigMax \in Nat
      /\ SigMax < 10 ^ MaxDigits /\ 10 ^ (MaxDecExp10 + 1) <= SigMax
      /\ \A k \in 0 .. MaxDigits : 5 ^ k \in Nat \ {0} /\ 10 ^ k \in Nat \ {0}
      /\ \A j, k \in 0 .. MaxDigits : j <= k => 10 ^ j <= 10 ^ k
      /\ 5 ^ 0 = 1 /\ 10 ^ 0 = 1
  BY ParserSizes, ParserPowers, TwosTens, SizeAssumption, CapacityAssumption
<1>2. DecimalLen(SigMax) \in 1 .. MaxDigits /\ 10 ^ (ShortDigits + 1) <= SigMax
      /\ ShortDigits + 1 \in 1 .. MaxDigits /\ 10 ^ (ShortDigits + 1) = 10 * 10 ^ ShortDigits
  <2>1. DecimalLen(SigMax) \in 1 .. MaxDigits
        /\ (DecimalLen(SigMax) > 1 => 10 ^ (DecimalLen(SigMax) - 1) <= SigMax)
    BY <1>1, DecimalLenIs
  <2>2. DecimalLen(SigMax) - 1 = ShortDigits + 1 /\ ShortDigits \in 0 .. MaxDigits - 1
        /\ DecimalLen(SigMax) > 1
    BY <1>1, <2>1 DEF ShortDigits
  <2>3. 10 ^ (ShortDigits + 1) = 10 * 10 ^ ShortDigits
    BY <2>2, SizeAssumption DEF PowersUpTo
  <2>. QED  BY <1>1, <2>1, <2>2, <2>3
<1>3. len \in 1 .. MaxDigits /\ n < 10 ^ len
  <2>1. 10 ^ ShortDigits <= 10 ^ MaxDigits /\ 10 ^ ShortDigits \in Nat /\ 10 ^ MaxDigits \in Nat
    <3>1. ShortDigits \in 0 .. MaxDigits /\ MaxDigits \in 0 .. MaxDigits /\ ShortDigits <= MaxDigits
      BY <1>1
    <3>. QED  BY <1>1, <3>1
  <2>. QED  BY <1>1, <2>1, DecimalLenIs
<1>4. /\ e \in 0 .. MaxDigits /\ MaxDecExp10 + 1 \in 0 .. MaxDigits
      /\ e > 0 => /\ len + e <= MaxDecExp10 + 1 /\ len + e <= MaxDigits
                  /\ len + e \in 0 .. MaxDigits
  BY <1>1, <1>3
<1> HIDE DEF len
<1>5. 5 ^ e \in Nat \ {0} /\ n * 5 ^ e \in Nat \ {0}
  <2>1. 5 ^ e \in Nat \ {0}
    BY <1>1, <1>4
  <2>. QED  BY <2>1
<1>6. 2 * (n * 5 ^ e) <= SigMax
  <2>1. CASE e = 0
    <3>1. n * 5 ^ e = n
      BY <1>1, <2>1
    <3>2. 10 ^ ShortDigits \in Nat
      BY <1>1
    <3>. QED  BY <1>1, <1>2, <3>1, <3>2
  <2>2. CASE e > 0
    <3>1. 2 * 5 ^ e <= 10 ^ e
      BY <1>4, <2>2, FivesBelowTens
    <3> DEFINE five == 5 ^ e
               ten == 10 ^ e
               top == 10 ^ len
               most == 10 ^ (MaxDecExp10 + 1)
    <3>2. five \in Nat \ {0} /\ ten \in Nat \ {0} /\ top \in Nat \ {0} /\ most \in Nat \ {0}
          /\ n < top /\ most <= SigMax /\ 2 * five <= ten /\ top * ten <= most
      <4>1. 10 ^ (len + e) = top * ten
        BY <1>3, <1>4, <2>2, TwosTens
      <4>2. 10 ^ (len + e) <= most
        BY <1>1, <1>4, <2>2
      <4>. QED  BY <1>1, <1>3, <1>4, <1>5, <3>1, <4>1, <4>2
    <3> HIDE DEF five, ten, top, most
    <3>3. (2 * five) * n <= ten * n /\ n * ten <= top * ten
      <4>1. 2 * five \in Nat
        BY <3>2
      <4>. QED  BY <3>2, <4>1, Products
    <3>4. (2 * five) * n = 2 * (n * five) /\ ten * n = n * ten /\ n * ten \in Nat /\ top * ten \in Nat
          /\ 2 * (n * five) \in Nat
      BY <3>2
    <3>5. 2 * (n * five) <= SigMax
      BY <1>1, <3>2, <3>3, <3>4
    <3>. QED  BY <3>5 DEF five
  <2>. QED  BY <1>4, <2>1, <2>2
<1>7. Hidden * 1 <= SigMax
  <2>1. LongestExp10 \in 0 .. MaxDigits /\ Hidden * 5 ^ LongestExp10 <= SigMax
    BY CapacityAssumption
  <2>2. 5 ^ LongestExp10 \in Nat \ {0}
    BY <1>1, <2>1
  <2>3. Hidden \in Nat
    <3>1. Prec - 1 \in 0 .. MaxBits
      BY ParserSizes
    <3>. QED  BY <3>1, ParserPowers DEF Hidden
  <2>4. Hidden <= Hidden * 5 ^ LongestExp10 /\ Hidden * 5 ^ LongestExp10 \in Nat
    BY <2>2, <2>3, Products
  <2>. QED  BY <1>1, <2>1, <2>3, <2>4
<1>8. ConvertRatio(n * 5 ^ e, 1, e).status # "OUT_OF_RANGE"
  <2> DEFINE num == n * 5 ^ e
  <2>1. num \in Nat \ {0} /\ 1 \in Nat \ {0} /\ e \in Int /\ 1 <= num /\ ~ (UnitExp + e < 0)
    BY <1>5, ParserSizes
  <2>2. 2 * num <= SigMax
    BY <1>6
  <2> HIDE DEF num
  <2>3. ConvertRatio(num, 1, e).status # "OUT_OF_RANGE"
    BY <1>7, <2>1, <2>2, RatioFits
  <2>. QED  BY <2>3 DEF num
<1>9. Overflowed.status # "OUT_OF_RANGE"
  BY DEF Overflowed, Magnitude
<1>. QED  BY <1>8, <1>9 DEF ConvertPositive

\* The denominator that is left of a power of ten has room.
LEMMA NegativeFits ==
  ASSUME NEW n \in Nat \ {0}, NEW a \in 1 .. LongestExp10, 2 * n <= SigMax
  PROVE  ConvertNegative(n, a).status # "OUT_OF_RANGE"
<1> DEFINE fives == Divisions(n, 5, a)
           odd5 == n \div 5 ^ fives
           twos == Divisions(odd5, 2, a)
           den == 5 ^ (a - fives)
           num == odd5 \div 2 ^ twos
<1>1. /\ LongestExp10 \in 0 .. MaxDigits /\ a \in Nat /\ a \in 0 .. MaxDigits /\ a <= MaxBits
      /\ SigMax \in Nat /\ PowersUpTo(5, a) /\ PowersUpTo(2, a)
  <2>1. LongestExp10 \in 0 .. MaxDigits /\ MaxDigits \in Nat /\ MaxDigits <= MaxBits /\ MaxBits \in Nat
        /\ SigMax \in Nat
    BY ParserSizes, CapacityAssumption
  <2>. QED  BY <2>1, SizeAssumption DEF PowersUpTo
<1>2. fives \in 0 .. a /\ odd5 \in 1 .. n
  BY <1>1, DivisionsLeave
<1> HIDE DEF fives, odd5
<1>3. twos \in 0 .. a /\ num \in 1 .. odd5
  <2>1. odd5 \in Nat \ {0}
    BY <1>2
  <2>. QED  BY <1>1, <2>1, DivisionsLeave
<1> HIDE DEF twos, num
<1>4. den \in Nat \ {0} /\ 5 ^ LongestExp10 \in Nat \ {0} /\ den <= 5 ^ LongestExp10
  <2>1. a - fives \in 0 .. MaxDigits /\ a - fives <= LongestExp10
    BY <1>1, <1>2, ParserSizes
  <2>. QED  BY <1>1, <2>1, ParserPowers, TwosTens
<1> HIDE DEF den
<1>5. Hidden \in Nat \ {0}
  <2>1. Prec - 1 \in 0 .. MaxBits
    BY ParserSizes
  <2>. QED  BY <2>1, ParserPowers DEF Hidden
<1>6. Hidden * den <= SigMax
  <2>1. den * Hidden <= 5 ^ LongestExp10 * Hidden
    BY <1>4, <1>5, Products
  <2>2. Hidden * 5 ^ LongestExp10 <= SigMax
    BY CapacityAssumption
  <2> DEFINE w == 5 ^ LongestExp10
  <2>3. w \in Nat /\ Hidden * w <= SigMax /\ den * Hidden <= w * Hidden
    BY <1>4, <2>1, <2>2
  <2> HIDE DEF w
  <2>4. w * Hidden = Hidden * w /\ den * Hidden = Hidden * den /\ Hidden * den \in Nat /\ Hidden * w \in Nat
    BY <1>4, <1>5, <2>3
  <2>. QED  BY <1>1, <2>3, <2>4
<1>7. den <= SigMax
  <2>1. den <= Hidden * den /\ Hidden * den \in Nat
    BY <1>4, <1>5, Products
  <2>. QED  BY <1>1, <1>4, <1>6, <2>1
<1>8. ASSUME UnitExp + (twos - a) < 0
      PROVE  /\ -(UnitExp + (twos - a)) <= MaxBits
             /\ 2 * (den * 2 ^ (-(UnitExp + (twos - a)))) <= SigMax
  <2> DEFINE j == -(UnitExp + (twos - a))
             top == LongestExp10 - UnitExp
  <2>1. /\ UnitExp \in Nat /\ MaxBits \in Nat /\ MaxDigits <= MaxBits /\ MaxDigits \in Nat
        /\ LongestExp10 > UnitExp
    BY <1>1, <1>3, <1>8, ParserSizes
  <2>2. j \in 0 .. MaxBits /\ top \in 0 .. MaxBits /\ j <= top
    BY <1>1, <1>3, <1>8, <2>1
  <2> HIDE DEF j, top
  <2> DEFINE s == 2 ^ j
             t == 2 ^ top
             w == 5 ^ LongestExp10
  <2>3. s \in Nat \ {0} /\ t \in Nat \ {0} /\ s <= t /\ w \in Nat \ {0} /\ den <= w
    BY <1>4, <2>2, ParserPowers, TwosTens
  <2>4. 2 * (w * t) <= SigMax
    BY <2>1, CapacityAssumption DEF top
  <2> HIDE DEF s, t, w
  <2>5. den * s <= w * s /\ s * w <= t * w
    BY <1>4, <2>3, Products
  <2>6. w * s = s * w /\ t * w = w * t /\ den * s \in Nat /\ s * w \in Nat /\ w * t \in Nat
    BY <1>4, <2>3
  <2>7. 2 * (den * s) <= SigMax
    BY <1>1, <2>4, <2>5, <2>6
  <2>8. j <= MaxBits /\ 2 * (den * 2 ^ j) <= SigMax
    BY <2>2, <2>7, ParserSizes DEF s
  <2>. QED  BY <2>8 DEF j
<1>9. ConvertRatio(num, den, twos - a).status # "OUT_OF_RANGE"
  <2> DEFINE x == twos - a
  <2>1. num \in Nat \ {0} /\ x \in Int /\ x <= 0 /\ 2 * num <= SigMax
    BY <1>1, <1>2, <1>3
  <2>2. UnitExp + x < 0 => -(UnitExp + x) <= MaxBits /\ 2 * (den * 2 ^ (-(UnitExp + x))) <= SigMax
    BY <1>8
  <2> HIDE DEF x
  <2>3. ConvertRatio(num, den, x).status # "OUT_OF_RANGE"
    BY <1>4, <1>6, <2>1, <2>2, RatioFits
  <2>. QED  BY <2>3 DEF x
<1>10. ConvertNegative(n, a) = IF den > SigMax THEN OutOfRange ELSE ConvertRatio(num, den, twos - a)
  BY DEF ConvertNegative, fives, odd5, twos, den, num
<1>. QED  BY <1>1, <1>4, <1>7, <1>9, <1>10

LEMMA LongerThanShort ==
  /\ DecimalLen(SigMax) \in 1 .. MaxDigits /\ ShortDigits = DecimalLen(SigMax) - 2
  /\ \A k \in Nat : k > ShortDigits => k >= DecimalLen(SigMax) - 1
  /\ \A k \in Nat \ {0} : k <= ShortDigits => ShortDigits \in 1 .. MaxDigits
<1>1. MaxDigits \in Nat /\ MaxDigits > 0 /\ SigMax \in Nat /\ SigMax < 10 ^ MaxDigits
  BY ParserSizes, SizeAssumption
<1>2. DecimalLen(SigMax) \in 1 .. MaxDigits
  BY <1>1, DecimalLenIs
<1>. QED  BY <1>1, <1>2 DEF ShortDigits

\* Eisel-Lemire has one way not to answer.
LEMMA LemireRefusal ==
  ASSUME NEW w, NEW e, Lemire(w, e) # OutOfRange
  PROVE  Lemire(w, e).status # "OUT_OF_RANGE"
<1>. QED  BY SMTT(60) DEF Lemire, Rounded, Overflowed, Magnitude

\* A number of all the digits of a bigint but two is converted, whatever its exponent.
LEMMA ShortConverts ==
  ASSUME NEW n \in Nat \ {0}, NEW e \in Int, ShortDigits \in 1 .. MaxDigits, n < 10 ^ ShortDigits
  PROVE  ConvertBigint(n, 0, e).status # "OUT_OF_RANGE"
<1> DEFINE len == DecimalLen(n)
           dec == len - 1 + e
           tens == IF e < 0 THEN Divisions(n, 10, -e) ELSE 0
           m == n \div 10 ^ tens
           value == IF e + tens >= 0 THEN ConvertPositive(m, e + tens)
                                     ELSE ConvertNegative(m, -(e + tens))
<1>1. /\ MaxDigits \in Nat /\ MaxDigits > 0 /\ SigMax \in Nat /\ SigMax < 10 ^ MaxDigits
      /\ MinDecExp10 \in Int /\ MaxDecExp10 \in Nat
      /\ \A k \in 0 .. MaxDigits : 10 ^ k \in Nat \ {0}
      /\ \A j, k \in 0 .. MaxDigits : j <= k => 10 ^ j <= 10 ^ k
      /\ 10 ^ 0 = 1
  BY ParserSizes, ParserPowers, TwosTens, SizeAssumption
<1>2. 10 * 10 ^ ShortDigits <= SigMax /\ ShortDigits \in 0 .. MaxDigits
  <2>1. DecimalLen(SigMax) \in 1 .. MaxDigits
        /\ (DecimalLen(SigMax) > 1 => 10 ^ (DecimalLen(SigMax) - 1) <= SigMax)
    BY <1>1, DecimalLenIs
  <2>2. DecimalLen(SigMax) - 1 = ShortDigits + 1 /\ ShortDigits \in 0 .. MaxDigits - 1
        /\ DecimalLen(SigMax) > 1 /\ ShortDigits \in 0 .. MaxDigits
    BY <1>1, <2>1 DEF ShortDigits
  <2>3. 10 ^ (ShortDigits + 1) = 10 * 10 ^ ShortDigits
    BY <2>2, SizeAssumption DEF PowersUpTo
  <2>. QED  BY <2>1, <2>2, <2>3
<1>3. len \in 1 .. ShortDigits
  <2>1. 10 ^ ShortDigits <= 10 ^ MaxDigits /\ 10 ^ ShortDigits \in Nat /\ 10 ^ MaxDigits \in Nat
    <3>1. MaxDigits \in 0 .. MaxDigits /\ ShortDigits <= MaxDigits
      BY <1>1, <1>2
    <3>. QED  BY <1>1, <1>2, <3>1
  <2>2. len \in 1 .. MaxDigits /\ (len > 1 => 10 ^ (len - 1) <= n)
    BY <1>1, <2>1, DecimalLenIs
  <2> HIDE DEF len
  <2>3. len <= ShortDigits
    <3> SUFFICES ASSUME len > ShortDigits PROVE FALSE
      BY <1>2, <2>2
    <3>1. len - 1 \in 0 .. MaxDigits /\ ShortDigits <= len - 1 /\ len > 1
      BY <1>1, <1>2, <2>2
    <3>2. 10 ^ ShortDigits <= 10 ^ (len - 1) /\ 10 ^ (len - 1) \in Nat
      BY <1>1, <1>2, <3>1
    <3>. QED  BY <2>1, <2>2, <3>1, <3>2
  <2>. QED  BY <1>2, <2>2, <2>3
<1>4. 2 * n <= SigMax
  <2>1. 10 ^ ShortDigits \in Nat
    BY <1>1, <1>2
  <2>. QED  BY <1>1, <1>2, <2>1
<1>5. ConvertBigint(n, 0, e) = IF n > SigMax THEN OutOfRange
                               ELSE CASE dec > MaxDecExp10 -> Overflowed
                                      [] dec < MinDecExp10 -> Underflowed
                                      [] OTHER -> value
  <2> DEFINE Tens(x) == IF e < 0 THEN Divisions(x, 10, -e) ELSE 0
             Value(x) == IF e + Tens(x) >= 0 THEN ConvertPositive(x \div 10 ^ Tens(x), e + Tens(x))
                                             ELSE ConvertNegative(x \div 10 ^ Tens(x), -(e + Tens(x)))
             Converted(x) == IF x > SigMax THEN OutOfRange
                           ELSE CASE DecimalLen(x) - 1 + e > MaxDecExp10 -> Overflowed
                                  [] DecimalLen(x) - 1 + e < MinDecExp10 -> Underflowed
                                  [] OTHER -> Value(x)
  <2>1. ConvertBigint(n, 0, e) = Converted(n + 0)
    BY Zenon DEF ConvertBigint
  <2>2. n + 0 = n
    OBVIOUS
  <2>3. ASSUME NEW x, x = n PROVE Converted(x) = Converted(n)
    <3> HIDE DEF Converted
    <3>. QED  BY <2>3, Zenon
  <2>4. Converted(n + 0) = Converted(n)
    <3> HIDE DEF Converted
    <3>. QED  BY <2>2, <2>3, Zenon
  <2>5. ConvertBigint(n, 0, e) = Converted(n)
    <3> HIDE DEF Converted
    <3>. QED  BY <2>1, <2>4, Zenon
  <2> HIDE DEF Tens, Value
  <2>6. Value(n) = value
    BY Zenon DEF Value, Tens
  <2>. QED  BY <2>5, <2>6, Zenon
<1> HIDE DEF len
<1>6. ASSUME dec <= MaxDecExp10, dec >= MinDecExp10
      PROVE  value.status # "OUT_OF_RANGE"
  <2>1. LongestExp10 = ShortDigits - 1 - MinDecExp10 /\ LongestExp10 \in 0 .. MaxDigits
    BY CapacityAssumption DEF LongestExp10
  <2>2. -e <= LongestExp10
    BY <1>1, <1>2, <1>3, <1>6, <2>1
  <2>3. CASE e >= 0
    <3>1. tens = 0 /\ m = n /\ e + tens = e /\ e \in Nat
      BY <1>1, <2>3
    <3>2. value = ConvertPositive(n, e)
      <4> HIDE DEF tens, m
      <4>. QED  BY <2>3, <3>1
    <3>3. DecimalLen(n) - 1 + e <= MaxDecExp10
      BY <1>6 DEF len
    <3> HIDE DEF value
    <3>. QED  BY <3>1, <3>2, <3>3, PositiveFits
  <2>4. CASE e < 0
    <3> DEFINE limit == -e
    <3>1. limit \in Nat /\ limit <= MaxDigits /\ PowersUpTo(10, limit) /\ limit \in 1 .. LongestExp10
      <4>1. limit \in Nat /\ limit <= MaxDigits /\ limit \in 1 .. LongestExp10
        BY <1>1, <2>1, <2>2, <2>4
      <4>. QED  BY <1>1, <4>1, SizeAssumption DEF PowersUpTo
    <3>2. tens \in 0 .. limit /\ m \in 1 .. n
      <4>1. tens = Divisions(n, 10, limit)
        BY <2>4
      <4> HIDE DEF limit, tens
      <4>. QED  BY <3>1, <4>1, DivisionsLeave
    <3> HIDE DEF tens, m
    <3>3. m \in Nat \ {0} /\ 2 * m <= SigMax /\ m < 10 ^ ShortDigits
      <4>1. 10 ^ ShortDigits \in Nat
        BY <1>1, <1>2
      <4>. QED  BY <1>1, <1>4, <3>2, <4>1
    <3>4. CASE e + tens >= 0
      <4>1. e + tens = 0
        BY <3>1, <3>2, <3>4
      <4>2. ConvertPositive(m, 0).status # "OUT_OF_RANGE"
        BY <3>3, PositiveFits
      <4>. QED  BY <4>1, <4>2
    <3>5. CASE e + tens < 0
      <4> DEFINE a == -(e + tens)
      <4>1. a \in 1 .. LongestExp10
        BY <2>1, <2>2, <3>1, <3>2, <3>5
      <4>2. value = ConvertNegative(m, a)
        BY <3>1, <3>2, <3>5
      <4> HIDE DEF a, value
      <4>. QED  BY <3>3, <4>1, <4>2, NegativeFits
    <3>6. e + tens \in Int
      BY <3>2
    <3>. QED  BY <3>4, <3>5, <3>6
  <2>. QED  BY <2>3, <2>4
<1>7. ~ (n > SigMax) /\ dec \in Int
  BY <1>1, <1>2, <1>3, <1>4
<1> HIDE DEF value, dec
<1>8. Overflowed.status # "OUT_OF_RANGE" /\ Underflowed.status # "OUT_OF_RANGE"
  BY DEF Overflowed, Underflowed, Magnitude
<1>. QED  BY <1>1, <1>5, <1>6, <1>7, <1>8

\* Digits are dropped only of numbers that are too long for the promise.
LEMMA TruncatedIsLong ==
  ASSUME DigitsInv, truncated
  PROVE  sigDigits > ShortDigits
<1> SUFFICES ASSUME sigDigits <= ShortDigits PROVE FALSE
  <2>1. sigDigits \in Nat /\ ShortDigits \in Int
    <3>1. MaxDigits \in Nat /\ MaxDigits > 0 /\ SigMax \in Nat /\ SigMax < 10 ^ MaxDigits
      BY ParserSizes, SizeAssumption
    <3>2. DecimalLen(SigMax) \in 1 .. MaxDigits
      BY <3>1, DecimalLenIs
    <3>. QED  BY <3>2 DEF DigitsInv, TypeOK, ShortDigits
  <2>. QED  BY <2>1
<1>1. /\ sig \in Nat /\ exact \in Nat /\ sigDigits \in Nat /\ weight \in Nat \ {0} /\ dropped \in Nat
      /\ sawNonzero /\ sigDigits > 0 /\ exact < 10 ^ sigDigits /\ sig * weight <= exact
      /\ 10 * sig + 9 > SigMax
  BY DEF DigitsInv, TypeOK, Enclosed, CountsDigits, DropsOnlyWhenFull, TextInv
<1>2. /\ MaxDigits \in Nat /\ MaxDigits > 0 /\ SigMax \in Nat /\ SigMax < 10 ^ MaxDigits
      /\ \A k \in 0 .. MaxDigits : 10 ^ k \in Nat \ {0}
      /\ \A j, k \in 0 .. MaxDigits : j <= k => 10 ^ j <= 10 ^ k
  BY ParserSizes, ParserPowers, TwosTens, SizeAssumption
<1>3. /\ ShortDigits \in 0 .. MaxDigits /\ 10 ^ ShortDigits \in Nat /\ 10 * 10 ^ ShortDigits <= SigMax
  <2>1. DecimalLen(SigMax) \in 1 .. MaxDigits
        /\ (DecimalLen(SigMax) > 1 => 10 ^ (DecimalLen(SigMax) - 1) <= SigMax)
    BY <1>2, DecimalLenIs
  <2>2. DecimalLen(SigMax) - 1 = ShortDigits + 1 /\ ShortDigits \in 0 .. MaxDigits - 1
        /\ DecimalLen(SigMax) > 1 /\ ShortDigits \in 0 .. MaxDigits
    BY <1>1, <1>2, <2>1 DEF ShortDigits
  <2>3. 10 ^ (ShortDigits + 1) = 10 * 10 ^ ShortDigits
    BY <2>2, SizeAssumption DEF PowersUpTo
  <2>. QED  BY <1>2, <2>1, <2>2, <2>3
<1>4. exact < 10 ^ ShortDigits
  <2>1. sigDigits \in 0 .. MaxDigits
    BY <1>1, <1>2, <1>3
  <2>. QED  BY <1>1, <1>2, <1>3, <2>1
<1>5. sig <= sig * weight /\ sig * weight \in Nat
  BY <1>1, Products
<1>. QED  BY <1>1, <1>2, <1>3, <1>4, <1>5

(***************************************************************************)
(* Only a number that fills a bigint but for one digit is refused: the     *)
(* divisions of the exact conversion have room for every shorter one, for  *)
(* every format and capacity with the room that binary64 has.              *)
(***************************************************************************)
THEOREM RefusalsAreLong == PSpec => []RefusesOnlyLong
<1>1. PInit => RefusesOnlyLong
  BY DEF PInit, RefusesOnlyLong, Answered
<1>2. DigitsInv /\ RefusesOnlyLong /\ [PNext]_<<vars, result>> => RefusesOnlyLong'
  <2> SUFFICES ASSUME DigitsInv, RefusesOnlyLong, [PNext]_<<vars, result>>,
                      outcome' = "number", result' # None, result'.status = "OUT_OF_RANGE"
               PROVE  sigDigits' >= DecimalLen(SigMax) - 1
    BY DEF RefusesOnlyLong, Answered
  <2>1. CASE UNCHANGED <<vars, result>>
    BY <2>1 DEF RefusesOnlyLong, Answered, vars, outcomes, digitsRead
  <2>2. CASE Lex
    BY <2>2 DEF Lex
  <2>3. CASE Invalid \/ Special \/ Zero \/ TooLarge \/ TooSmall
    BY <2>3 DEF Invalid, Special, Zero, TooLarge, TooSmall, Return, Magnitude, Overflowed, Underflowed
  <2>4. CASE EiselLemire
    <3>1. result' = Lemire(sig, exp10) /\ Lemire(sig, exp10) # OutOfRange
      BY <2>4 DEF EiselLemire, Return, LemireAnswers
    <3>. QED  BY <3>1, LemireRefusal
  <2>5. CASE ResolveTruncated
    <3>1. sigDigits > ShortDigits /\ sigDigits' = sigDigits
      BY <2>5, TruncatedIsLong DEF ResolveTruncated, Return, vars, digitsRead
    <3>. QED  BY <3>1, LongerThanShort DEF DigitsInv, TypeOK
  <2>6. CASE ConvertExactly
    <3>1. /\ result' = ConvertBigint(sig, 0, exp10) /\ ~truncated /\ sigDigits' = sigDigits /\ sawNonzero
      BY <2>6 DEF ConvertExactly, Return, vars, digitsRead, PastLemire
    <3>2. /\ sig \in Nat /\ exact \in Nat /\ sigDigits \in Nat \ {0} /\ exp10 \in Int
          /\ 10 ^ (sigDigits - 1) <= exact /\ exact < 10 ^ sigDigits /\ exact = sig
      BY <3>1 DEF DigitsInv, TypeOK, Enclosed, CountsDigits, DropsOnlyWhenFull, TextInv
    <3>3. CASE sigDigits > ShortDigits
      BY <3>1, <3>2, <3>3, LongerThanShort
    <3>4. CASE sigDigits <= ShortDigits
      <4>1. ShortDigits \in 1 .. MaxDigits /\ sigDigits \in 0 .. MaxDigits /\ sigDigits - 1 \in 0 .. MaxDigits
            /\ ShortDigits \in 0 .. MaxDigits
        BY <3>2, <3>4, LongerThanShort, ParserSizes
      <4>2. 10 ^ sigDigits <= 10 ^ ShortDigits /\ 10 ^ (sigDigits - 1) \in Nat \ {0}
            /\ 10 ^ sigDigits \in Nat /\ 10 ^ ShortDigits \in Nat
        BY <3>4, <4>1, ParserPowers, TwosTens
      <4>3. sig \in Nat \ {0} /\ sig < 10 ^ ShortDigits
        BY <3>2, <4>2
      <4>. QED  BY <3>1, <3>2, <4>1, <4>3, ShortConverts
    <3>. QED  BY <3>2, <3>3, <3>4, LongerThanShort
  <2>. QED  BY <2>1, <2>2, <2>3, <2>4, <2>5, <2>6 DEF PNext
<1>. QED  BY <1>1, <1>2, ParserInvariance, PTL DEF PSpec

---------------------------------------------------------------------------
(* The tiny parser: what its loops come to *)

Gatherings == [sawDigit : BOOLEAN, sawNonzero : BOOLEAN, tooManySig : BOOLEAN,
               sig : Nat, sigDigits : Nat, exp10 : Int]

\* One turn at position j of w, with the point at p.
GatherTurn(w, k, p, j, r) == IF j < k THEN Nothing ELSE IF j = p THEN r ELSE Taken(r, w[j], j > p)
Gathers(g, w, k, p, e) ==
  g \in [0 .. e -> Gatherings] /\ g[0] = Nothing /\ \A j \in 1 .. e : g[j] = GatherTurn(w, k, p, j, g[j - 1])

LEMMA TakenType ==
  ASSUME NEW r \in Gatherings, NEW d \in Nat, NEW behind \in BOOLEAN
  PROVE  Taken(r, d, behind) \in Gatherings /\ Nothing \in Gatherings
<1>1. 10 * r.sig + d \in Nat /\ Word \in Nat \ {0}
  BY Sizes DEF Gatherings
<1>2. (10 * r.sig + d) % Word \in Nat
  BY <1>1
<1>3. /\ r.sawDigit \in BOOLEAN /\ r.sawNonzero \in BOOLEAN /\ r.tooManySig \in BOOLEAN
      /\ r.sig \in Nat /\ r.sigDigits \in Nat /\ r.exp10 \in Int
      /\ r.sigDigits + 1 \in Nat /\ r.exp10 - 1 \in Int
  BY DEF Gatherings
<1>4. Nothing \in Gatherings
  BY DEF Nothing, Gatherings
<1> DEFINE s == (10 * r.sig + d) % Word
           counts == r.sawNonzero \/ d # 0
           room == counts /\ r.sigDigits < MaxSigDigits
<1>5. /\ (IF room THEN s ELSE r.sig) \in Nat
      /\ (IF room THEN r.sigDigits + 1 ELSE r.sigDigits) \in Nat
      /\ (IF behind THEN r.exp10 - 1 ELSE r.exp10) \in Int
      /\ counts \in BOOLEAN /\ (r.tooManySig \/ (counts /\ ~room)) \in BOOLEAN
  BY <1>2, <1>3
<1>6. Taken(r, d, behind) = [sawDigit |-> TRUE, sawNonzero |-> counts,
                             tooManySig |-> r.tooManySig \/ (counts /\ ~room),
                             sig |-> IF room THEN s ELSE r.sig,
                             sigDigits |-> IF room THEN r.sigDigits + 1 ELSE r.sigDigits,
                             exp10 |-> IF behind THEN r.exp10 - 1 ELSE r.exp10]
  BY DEF Taken
<1> HIDE DEF s, counts, room
<1>. QED  BY <1>4, <1>5, <1>6 DEF Gatherings

LEMMA GatheredRecursion ==
  ASSUME NEW w, NEW k \in Nat \ {0}, NEW p \in Int, NEW e \in Nat, \A j \in 1 .. e : w[j] \in Nat
  PROVE  \E g : Gathers(g, w, k, p, e) /\ g[e] = Gathered(w, k, p, e)
<1> DEFINE step == [x \in Nat \X Gatherings |->
                      IF x[1] \in 1 .. e THEN GatherTurn(w, k, p, x[1], x[2]) ELSE Nothing]
<1>1. step \in [Nat \X Gatherings -> Gatherings] /\ Nothing \in Gatherings
  <2>1. Nothing \in Gatherings
    BY DEF Nothing, Gatherings
  <2>2. ASSUME NEW j \in 1 .. e, NEW r \in Gatherings
        PROVE  GatherTurn(w, k, p, j, r) \in Gatherings
    <3> DEFINE behind == j > p
    <3>1. behind \in BOOLEAN /\ w[j] \in Nat
      OBVIOUS
    <3>2. GatherTurn(w, k, p, j, r) \in {Nothing, r, Taken(r, w[j], behind)}
      BY DEF GatherTurn
    <3> HIDE DEF behind
    <3>3. Taken(r, w[j], behind) \in Gatherings
      BY <3>1, TakenType, Zenon
    <3>. QED  BY <2>1, <3>2, <3>3
  <2>. QED  BY <2>1, <2>2
<1>2. PICK g \in [0 .. e -> Gatherings] :
        g[0] = Nothing /\ \A j \in 1 .. e : g[j] = step[<<j, g[j - 1]>>]
  <2> HIDE DEF step
  <2>1. \E g \in [0 .. e -> Gatherings] : Recurs(g, Nothing, step, e)
    BY <1>1, RecursionExists, Zenon
  <2>. QED  BY <2>1 DEF Recurs
<1>3. \A j \in 1 .. e : g[j] = GatherTurn(w, k, p, j, g[j - 1])
  <2> TAKE j \in 1 .. e
  <2>1. j \in Nat /\ j - 1 \in 0 .. e
    OBVIOUS
  <2>2. g[j - 1] \in Gatherings
    BY <1>2, <2>1
  <2>. QED  BY <1>2, <2>1, <2>2
<1> HIDE DEF step
<1>4. ASSUME NEW j \in 0 .. e
      PROVE  g[j] = IF j < k THEN Nothing ELSE IF j = p THEN g[j - 1] ELSE Taken(g[j - 1], w[j], j > p)
  <2>1. CASE j = 0
    BY <1>2, <2>1
  <2>2. CASE j # 0
    BY <1>3, <2>2 DEF GatherTurn
  <2>. QED  BY <2>1, <2>2
<1>5. \E h : h = [j \in 0 .. e |-> IF j < k THEN Nothing
                                 ELSE IF j = p THEN h[j - 1] ELSE Taken(h[j - 1], w[j], j > p)]
  BY <1>2, <1>4
<1> DEFINE f == CHOOSE h : h = [j \in 0 .. e |-> IF j < k THEN Nothing
                                 ELSE IF j = p THEN h[j - 1] ELSE Taken(h[j - 1], w[j], j > p)]
<1>6. f = [j \in 0 .. e |-> IF j < k THEN Nothing
                           ELSE IF j = p THEN f[j - 1] ELSE Taken(f[j - 1], w[j], j > p)]
  BY <1>5, Zenon
<1>7. Gathered(w, k, p, e) = f[e]
  BY Zenon DEF Gathered
<1> HIDE DEF f
<1>8. f[e] = g[e]
  <2>1. f[0] = g[0]
    BY <1>2, <1>6
  <2>2. ASSUME NEW j \in 0 .. e - 1, f[j] = g[j] PROVE f[j + 1] = g[j + 1]
    <3>1. j + 1 \in 1 .. e /\ j + 1 \in 0 .. e /\ (j + 1) - 1 = j
      OBVIOUS
    <3>2. f[j + 1] = GatherTurn(w, k, p, j + 1, f[j])
      BY <1>6, <3>1 DEF GatherTurn
    <3>3. g[j + 1] = GatherTurn(w, k, p, j + 1, g[j])
      BY <1>3, <3>1
    <3>. QED  BY <2>2, <3>2, <3>3
  <2>. QED  BY <2>1, <2>2, SameRecursion
<1>. QED  BY <1>2, <1>3, <1>7, <1>8 DEF Gathers

\* What they are at the start, and with one position more.
LEMMA GatheredStep ==
  ASSUME NEW w, NEW k \in Nat \ {0}, NEW p \in Int, NEW e \in Nat, e >= k - 1,
         \A j \in 1 .. e : w[j] \in Nat
  PROVE  /\ Gathered(w, k, p, e) \in Gatherings
         /\ e = k - 1 => Gathered(w, k, p, e) = Nothing
         /\ e >= k => Gathered(w, k, p, e) = IF e = p THEN Gathered(w, k, p, e - 1)
                                             ELSE Taken(Gathered(w, k, p, e - 1), w[e], e > p)
<1>1. PICK g : Gathers(g, w, k, p, e) /\ g[e] = Gathered(w, k, p, e)
  BY GatheredRecursion, Zenon
<1>2. g[e] \in Gatherings
  BY <1>1 DEF Gathers
<1>3. ASSUME e = k - 1 PROVE g[e] = Nothing
  <2>1. e = 0 \/ (e \in 1 .. e /\ e < k)
    BY <1>3
  <2>2. GatherTurn(w, k, p, e, g[e - 1]) = Nothing \/ e = 0
    BY <2>1 DEF GatherTurn
  <2>. QED  BY <1>1, <2>1, <2>2 DEF Gathers
<1>4. ASSUME e >= k
      PROVE  g[e] = IF e = p THEN Gathered(w, k, p, e - 1) ELSE Taken(Gathered(w, k, p, e - 1), w[e], e > p)
  <2>1. e - 1 \in Nat /\ \A j \in 1 .. e - 1 : w[j] \in Nat
    BY <1>4
  <2>2. PICK h : Gathers(h, w, k, p, e - 1) /\ h[e - 1] = Gathered(w, k, p, e - 1)
    BY <2>1, GatheredRecursion, Zenon
  <2>3. h[e - 1] = g[e - 1]
    <3>1. h[0] = g[0]
      BY <1>1, <2>2 DEF Gathers
    <3>2. ASSUME NEW j \in 0 .. (e - 1) - 1, h[j] = g[j] PROVE h[j + 1] = g[j + 1]
      <4>1. j + 1 \in 1 .. e - 1 /\ j + 1 \in 1 .. e /\ (j + 1) - 1 = j
        OBVIOUS
      <4>. QED  BY <1>1, <2>2, <3>2, <4>1 DEF Gathers
    <3>. QED  BY <2>1, <3>1, <3>2, SameRecursion
  <2>4. e \in 1 .. e
    BY <1>4
  <2>5. g[e] = GatherTurn(w, k, p, e, g[e - 1])
    BY <1>1, <2>4 DEF Gathers
  <2>. QED  BY <1>4, <2>2, <2>3, <2>5 DEF GatherTurn
<1>. QED  BY <1>1, <1>2, <1>3, <1>4

\* They depend on the digits and on a point among them, and on nothing else.
LEMMA GatheredAgrees ==
  ASSUME NEW w, NEW v, NEW k \in Nat \ {0}, NEW p \in Int, NEW q \in Int, NEW e \in Nat,
         \A j \in 1 .. e : w[j] \in Nat /\ v[j] = w[j], p = q \/ (p > e /\ q > e)
  PROVE  Gathered(w, k, p, e) = Gathered(v, k, q, e)
<1>1. PICK g : Gathers(g, w, k, p, e) /\ g[e] = Gathered(w, k, p, e)
  BY GatheredRecursion, Zenon
<1>2. PICK h : Gathers(h, v, k, q, e) /\ h[e] = Gathered(v, k, q, e)
  <2>1. \A j \in 1 .. e : v[j] \in Nat
    OBVIOUS
  <2>. QED  BY <2>1, GatheredRecursion, Zenon
<1>3. g[0] = h[0]
  BY <1>1, <1>2 DEF Gathers
<1>4. ASSUME NEW j \in 0 .. e - 1, g[j] = h[j] PROVE g[j + 1] = h[j + 1]
  <2>1. j + 1 \in 1 .. e /\ (j + 1) - 1 = j /\ v[j + 1] = w[j + 1]
        /\ (j + 1 = p <=> j + 1 = q) /\ (j + 1 > p <=> j + 1 > q)
    OBVIOUS
  <2>2. GatherTurn(w, k, p, j + 1, g[j]) = GatherTurn(v, k, q, j + 1, h[j])
    <3>1. CASE j + 1 > p
      <4>1. (j + 1 > p) = TRUE /\ (j + 1 > q) = TRUE
        BY <2>1, <3>1
      <4>. QED  BY <1>4, <2>1, <4>1 DEF GatherTurn
    <3>2. CASE ~(j + 1 > p)
      <4>1. (j + 1 > p) = FALSE /\ (j + 1 > q) = FALSE
        BY <2>1, <3>2
      <4>. QED  BY <1>4, <2>1, <4>1 DEF GatherTurn
    <3>. QED  BY <3>1, <3>2
  <2>. QED  BY <1>1, <1>2, <2>1, <2>2 DEF Gathers
<1>5. g[e] = h[e]
  BY <1>3, <1>4, SameRecursion
<1>. QED  BY <1>1, <1>2, <1>5

\* The same of the exponent.
Grows(g, w, k, e) ==
  g \in [0 .. e -> Nat] /\ g[0] = 0 /\ \A j \in 1 .. e : g[j] = IF j < k THEN 0 ELSE Grown(g[j - 1], w[j])

LEMMA ExpPartRecursion ==
  ASSUME NEW w, NEW k \in Nat \ {0}, NEW e \in Nat, \A j \in 1 .. e : w[j] \in Nat
  PROVE  \E g : Grows(g, w, k, e) /\ g[e] = ExpPart(w, k, e)
<1> DEFINE step == [x \in Nat \X Nat |->
                      IF x[1] \in 1 .. e THEN IF x[1] < k THEN 0 ELSE Grown(x[2], w[x[1]]) ELSE 0]
<1>1. step \in [Nat \X Nat -> Nat]
  <2>1. ASSUME NEW j \in 1 .. e, NEW r \in Nat PROVE Grown(r, w[j]) \in Nat
    BY TinyAssumption DEF Grown
  <2>. QED  BY <2>1
<1>2. PICK g \in [0 .. e -> Nat] :
        g[0] = 0 /\ \A j \in 1 .. e : g[j] = step[<<j, g[j - 1]>>]
  <2> HIDE DEF step
  <2>1. \E g \in [0 .. e -> Nat] : Recurs(g, 0, step, e)
    BY <1>1, RecursionExists, Zenon
  <2>. QED  BY <2>1 DEF Recurs
<1>3. \A j \in 1 .. e : g[j] = IF j < k THEN 0 ELSE Grown(g[j - 1], w[j])
  <2> TAKE j \in 1 .. e
  <2>1. j \in Nat /\ j - 1 \in 0 .. e
    OBVIOUS
  <2>2. g[j - 1] \in Nat
    BY <1>2, <2>1
  <2>. QED  BY <1>2, <2>1, <2>2
<1> HIDE DEF step
<1>4. ASSUME NEW j \in 0 .. e
      PROVE  g[j] = IF j < k THEN 0 ELSE Grown(g[j - 1], w[j])
  BY <1>2, <1>3
<1>5. \E h : h = [j \in 0 .. e |-> IF j < k THEN 0 ELSE Grown(h[j - 1], w[j])]
  BY <1>2, <1>4
<1> DEFINE f == CHOOSE h : h = [j \in 0 .. e |-> IF j < k THEN 0 ELSE Grown(h[j - 1], w[j])]
<1>6. f = [j \in 0 .. e |-> IF j < k THEN 0 ELSE Grown(f[j - 1], w[j])]
  BY <1>5, Zenon
<1>7. ExpPart(w, k, e) = f[e]
  BY Zenon DEF ExpPart
<1> HIDE DEF f
<1>8. f[e] = g[e]
  <2>1. f[0] = g[0]
    BY <1>2, <1>6
  <2>2. ASSUME NEW j \in 0 .. e - 1, f[j] = g[j] PROVE f[j + 1] = g[j + 1]
    <3>1. j + 1 \in 1 .. e /\ j + 1 \in 0 .. e /\ (j + 1) - 1 = j
      OBVIOUS
    <3>2. f[j + 1] = IF j + 1 < k THEN 0 ELSE Grown(f[j], w[j + 1])
      BY <1>6, <3>1
    <3>3. g[j + 1] = IF j + 1 < k THEN 0 ELSE Grown(g[j], w[j + 1])
      BY <1>3, <3>1
    <3>. QED  BY <2>2, <3>2, <3>3
  <2>. QED  BY <2>1, <2>2, SameRecursion
<1>. QED  BY <1>2, <1>3, <1>7, <1>8 DEF Grows

LEMMA ExpPartStep ==
  ASSUME NEW w, NEW k \in Nat \ {0}, NEW e \in Nat, e >= k - 1, \A j \in 1 .. e : w[j] \in Nat
  PROVE  /\ ExpPart(w, k, e) \in Nat
         /\ e = k - 1 => ExpPart(w, k, e) = 0
         /\ e >= k => ExpPart(w, k, e) = Grown(ExpPart(w, k, e - 1), w[e])
<1>1. PICK g : Grows(g, w, k, e) /\ g[e] = ExpPart(w, k, e)
  BY ExpPartRecursion, Zenon
<1>2. g[e] \in Nat
  BY <1>1 DEF Grows
<1>3. ASSUME e = k - 1 PROVE g[e] = 0
  <2>1. e = 0 \/ (e \in 1 .. e /\ e < k)
    BY <1>3
  <2>. QED  BY <1>1, <2>1 DEF Grows
<1>4. ASSUME e >= k
      PROVE  g[e] = Grown(ExpPart(w, k, e - 1), w[e])
  <2>1. e - 1 \in Nat /\ \A j \in 1 .. e - 1 : w[j] \in Nat
    BY <1>4
  <2>2. PICK h : Grows(h, w, k, e - 1) /\ h[e - 1] = ExpPart(w, k, e - 1)
    BY <2>1, ExpPartRecursion, Zenon
  <2>3. h[e - 1] = g[e - 1]
    <3>1. h[0] = g[0]
      BY <1>1, <2>2 DEF Grows
    <3>2. ASSUME NEW j \in 0 .. (e - 1) - 1, h[j] = g[j] PROVE h[j + 1] = g[j + 1]
      <4>1. j + 1 \in 1 .. e - 1 /\ j + 1 \in 1 .. e /\ (j + 1) - 1 = j
        OBVIOUS
      <4>. QED  BY <1>1, <2>2, <3>2, <4>1 DEF Grows
    <3>. QED  BY <2>1, <3>1, <3>2, SameRecursion
  <2>4. e \in 1 .. e /\ ~(e < k)
    BY <1>4
  <2>. QED  BY <1>1, <2>2, <2>3, <2>4 DEF Grows
<1>. QED  BY <1>1, <1>2, <1>3, <1>4

LEMMA ExpPartAgrees ==
  ASSUME NEW w, NEW v, NEW k \in Nat \ {0}, NEW e \in Nat,
         \A j \in 1 .. e : w[j] \in Nat /\ v[j] = w[j]
  PROVE  ExpPart(w, k, e) = ExpPart(v, k, e)
<1>1. PICK g : Grows(g, w, k, e) /\ g[e] = ExpPart(w, k, e)
  BY ExpPartRecursion, Zenon
<1>2. PICK h : Grows(h, v, k, e) /\ h[e] = ExpPart(v, k, e)
  <2>1. \A j \in 1 .. e : v[j] \in Nat
    OBVIOUS
  <2>. QED  BY <2>1, ExpPartRecursion, Zenon
<1>3. g[0] = h[0]
  BY <1>1, <1>2 DEF Grows
<1>4. ASSUME NEW j \in 0 .. e - 1, g[j] = h[j] PROVE g[j + 1] = h[j + 1]
  <2>1. j + 1 \in 1 .. e /\ (j + 1) - 1 = j /\ v[j + 1] = w[j + 1]
    OBVIOUS
  <2>. QED  BY <1>1, <1>2, <1>4, <2>1 DEF Grows
<1>5. g[e] = h[e]
  BY <1>3, <1>4, SameRecursion
<1>. QED  BY <1>1, <1>2, <1>5

---------------------------------------------------------------------------
(* The tiny parser: what it gathers is what the lexer has counted *)

LEMMA TinyPowers ==
  /\ \A k \in 0 .. MaxSigDigits + MaxExp10 : 10 ^ k \in Nat \ {0}
  /\ \A k \in 0 .. MaxSigDigits + MaxExp10 - 1 : 10 ^ (k + 1) = 10 * 10 ^ k
  /\ \A j, k \in 0 .. MaxSigDigits + MaxExp10 : j <= k => 10 ^ j <= 10 ^ k
  /\ MaxSigDigits \in Nat \ {0} /\ MaxExp10 \in Nat /\ TinyExpCap \in Nat
<1>1. MaxSigDigits \in Nat \ {0} /\ MaxExp10 \in Nat /\ TinyExpCap \in Nat
  BY TinyAssumption
<1> DEFINE m == MaxSigDigits + MaxExp10
<1>2. m \in Nat /\ PowersUpTo(10, m)
  BY <1>1, TinyPowersAssumption
<1> HIDE DEF m
<1>3. \A k \in 0 .. m : 10 ^ k \in Nat \ {0}
  BY <1>2, PowerPositive
<1>4. \A k \in 0 .. m - 1 : 10 ^ (k + 1) = 10 * 10 ^ k
  BY <1>2 DEF PowersUpTo
<1>5. \A j, k \in 0 .. m : j <= k => 10 ^ j <= 10 ^ k
  BY <1>2, PowerOrder
<1>. QED  BY <1>1, <1>3, <1>4, <1>5 DEF m

\* One more digit, taken by both.
LEMMA TakenAlike ==
  ASSUME DigitsInv, DigitsInv', NEW r \in Gatherings, NEW d \in Digits, NEW behind \in BOOLEAN,
         phase # "done", phase' # "done", ReadAlike(r), TakeDigit(d),
         exp10' = IF behind THEN exp10 - 1 ELSE exp10
  PROVE  ReadAlike(Taken(r, d, behind))'
<1> DEFINE counts == sawNonzero \/ d # 0
           room == counts /\ sigDigits < MaxSigDigits
<1>1. /\ r.sawDigit = sawDigit /\ r.sawNonzero = sawNonzero
      /\ r.tooManySig <=> sigDigits > MaxSigDigits
      /\ r.sigDigits = (IF sigDigits > MaxSigDigits THEN MaxSigDigits ELSE sigDigits)
      /\ ~r.tooManySig => r.sig = exact
      /\ r.exp10 = exp10
  BY DEF ReadAlike, DigitsExp10
<1>2. /\ sawDigit' = TRUE /\ (sawNonzero' <=> counts) /\ exact' = 10 * exact + d
      /\ sigDigits' = IF counts THEN sigDigits + 1 ELSE sigDigits
  BY DEF TakeDigit, DigitsInv, TypeOK
<1>3. /\ sigDigits \in Nat /\ exact \in Nat /\ exp10 \in Int /\ sawNonzero \in BOOLEAN
      /\ d \in Nat /\ d < 10 /\ MaxSigDigits \in Nat \ {0} /\ sawNonzero' \in BOOLEAN
  <2>1. MaxSigDigits \in Nat \ {0} /\ d \in Nat /\ d < 10
    BY TinyPowers DEF Digits
  <2>2. sawNonzero' \in BOOLEAN
    BY DEF DigitsInv, TypeOK
  <2>. QED  BY <2>1, <2>2 DEF DigitsInv, TypeOK
<1>a. sawNonzero' => exact' < 10 ^ sigDigits'
  BY DEF DigitsInv, CountsDigits
<1>4. r.sigDigits < MaxSigDigits <=> sigDigits < MaxSigDigits
  BY <1>1, <1>3
<1>5. ASSUME room PROVE (10 * r.sig + d) % Word = exact'
  <2>1. r.sig = exact /\ exact' = 10 * exact + d /\ exact' \in Nat
    BY <1>1, <1>2, <1>3, <1>5
  <2>2. sigDigits' \in 0 .. MaxSigDigits /\ sawNonzero'
    BY <1>2, <1>3, <1>5
  <2>3. 10 ^ sigDigits' <= 10 ^ MaxSigDigits /\ 10 ^ sigDigits' \in Nat /\ 10 ^ MaxSigDigits \in Nat
    <3> DEFINE n == sigDigits'
    <3>1. n \in 0 .. MaxSigDigits + MaxExp10 /\ MaxSigDigits \in 0 .. MaxSigDigits + MaxExp10
          /\ n <= MaxSigDigits
      BY <2>2, TinyAssumption
    <3> HIDE DEF n
    <3>2. 10 ^ n <= 10 ^ MaxSigDigits /\ 10 ^ n \in Nat /\ 10 ^ MaxSigDigits \in Nat
      BY <3>1, TinyPowers
    <3>. QED  BY <3>2 DEF n
  <2>4. exact' < Word /\ Word \in Nat \ {0}
    <3>1. exact' < 10 ^ sigDigits' /\ 10 ^ MaxSigDigits <= Word
      BY <1>a, <2>2, TinyAssumption
    <3>2. Word \in Nat \ {0}
      BY Sizes
    <3>. QED  BY <2>1, <2>3, <3>1, <3>2
  <2>. QED  BY <2>1, <2>4
<1> DEFINE t == Taken(r, d, behind)
<1>6. /\ t.sawDigit = TRUE /\ (t.sawNonzero <=> counts) /\ t.sawNonzero \in BOOLEAN
      /\ t.tooManySig <=> (r.tooManySig \/ (counts /\ ~room))
      /\ t.sig = IF room THEN (10 * r.sig + d) % Word ELSE r.sig
      /\ t.sigDigits = IF room THEN r.sigDigits + 1 ELSE r.sigDigits
      /\ t.exp10 = IF behind THEN r.exp10 - 1 ELSE r.exp10
  <2> DEFINE c == r.sawNonzero \/ d # 0
             space == c /\ r.sigDigits < MaxSigDigits
             s == (10 * r.sig + d) % Word
  <2>1. t = [sawDigit |-> TRUE, sawNonzero |-> c, tooManySig |-> r.tooManySig \/ (c /\ ~space),
             sig |-> IF space THEN s ELSE r.sig,
             sigDigits |-> IF space THEN r.sigDigits + 1 ELSE r.sigDigits,
             exp10 |-> IF behind THEN r.exp10 - 1 ELSE r.exp10]
    BY DEF Taken
  <2>2. c <=> counts
    BY <1>1
  <2>3. space <=> room
    BY <1>4, <2>2
  <2>4. c \in BOOLEAN
    BY <1>1, <1>3
  <2> HIDE DEF space, c, s, t, room, counts
  <2>5. /\ t.sawDigit = TRUE /\ (t.sawNonzero <=> c) /\ t.sawNonzero \in BOOLEAN
        /\ t.tooManySig <=> (r.tooManySig \/ (c /\ ~space))
        /\ t.sig = IF space THEN s ELSE r.sig
        /\ t.sigDigits = IF space THEN r.sigDigits + 1 ELSE r.sigDigits
        /\ t.exp10 = IF behind THEN r.exp10 - 1 ELSE r.exp10
    BY <2>1, <2>4
  <2>. QED  BY <2>2, <2>3, <2>5 DEF s
<1> HIDE DEF t
<1>7. t.tooManySig <=> sigDigits' > MaxSigDigits
  BY <1>1, <1>2, <1>3, <1>6
<1>8. t.sigDigits = IF sigDigits' > MaxSigDigits THEN MaxSigDigits ELSE sigDigits'
  BY <1>1, <1>2, <1>3, <1>6
<1>9. ASSUME ~t.tooManySig PROVE t.sig = exact'
  <2>1. CASE room
    BY <1>5, <1>6, <2>1
  <2>2. CASE ~room
    <3>1. ~counts /\ exact = 0 /\ d = 0 /\ r.sig = exact
      BY <1>1, <1>3, <1>6, <1>9, <2>2 DEF DigitsInv, CountsDigits
    <3>2. t.sig = r.sig
      BY <1>6, <2>2
    <3>. QED  BY <1>2, <3>1, <3>2
  <2>. QED  BY <2>1, <2>2
<1>10. t.exp10 = DigitsExp10'
  BY <1>1, <1>6 DEF DigitsExp10
<1>11. t.sawDigit = sawDigit' /\ t.sawNonzero = sawNonzero'
  BY <1>2, <1>3, <1>6
<1> HIDE DEF counts, room
<1>. QED  BY <1>7, <1>8, <1>9, <1>10, <1>11 DEF t, ReadAlike

\* The symbols of the text are numbers, and stay when one is revealed.
LEMMA SymbolsStay ==
  ASSUME TypeOK
  PROVE  /\ Len(text) \in Nat \ {0} /\ \A k \in 1 .. Len(text) : text[k] \in Nat
         /\ UNCHANGED text \/ Advance => \A k \in 1 .. Len(text) : text'[k] = text[k]
<1>1. Len(text) \in Nat \ {0} /\ \A k \in 1 .. Len(text) : text[k] \in Symbols
  BY TextRead
<1>2. \A x \in Symbols : x \in Nat
  BY DEF Symbols
<1>3. UNCHANGED text \/ Advance => \A k \in 1 .. Len(text) : text'[k] = text[k]
  BY Revealing
<1>. QED  BY <1>1, <1>2, <1>3

\* What was read of the digits stays read.
LEMMA DigitsStay ==
  ASSUME TypeOK, UNCHANGED text \/ Advance,
         UNCHANGED <<sawDigit, sawNonzero, sigDigits, exact, DigitsExp10>>,
         NEW b \in Nat \ {0}, NEW p \in Nat, NEW e \in Nat, b <= p, p <= e, e <= Len(text), DigitsRead(b, p, e)
  PROVE  DigitsRead(b, p, e)'
<1>1. Len(text) \in Nat /\ \A k \in 1 .. Len(text) : text[k] \in Nat /\ text'[k] = text[k]
  BY SymbolsStay
<1>2. /\ text[b] \notin {Inf, Nan} /\ AllIn(text, b, p - 1, Digits)
      /\ p < e => text[p] = Point /\ AllIn(text, p + 1, e - 1, Digits)
      /\ ReadAlike(Gathered(text, b, p, e - 1))
  BY DEF DigitsRead
<1>3. Gathered(text, b, p, e - 1) = Gathered(text', b, p, e - 1)
  <2>1. e - 1 \in Nat /\ \A j \in 1 .. e - 1 : text[j] \in Nat /\ text'[j] = text[j]
    BY <1>1
  <2> DEFINE v == text'
  <2>2. \A j \in 1 .. e - 1 : text[j] \in Nat /\ v[j] = text[j]
    BY <2>1
  <2> HIDE DEF v
  <2>3. Gathered(text, b, p, e - 1) = Gathered(v, b, p, e - 1)
    BY <2>1, <2>2, GatheredAgrees
  <2>. QED  BY <2>3 DEF v
<1>4. ReadAlike(Gathered(text, b, p, e - 1))'
  <2> DEFINE r == Gathered(text, b, p, e - 1)
  <2>1. r' = r
    BY <1>3
  <2>2. ReadAlike(r)
    BY <1>2
  <2> HIDE DEF r
  <2>3. ReadAlike(r)'
    BY <2>1, <2>2 DEF ReadAlike
  <2>. QED  BY <2>3 DEF r
<1>5. AllIn(text', b, p - 1, Digits) /\ text'[b] \notin {Inf, Nan}
      /\ (p < e => text'[p] = Point /\ AllIn(text', p + 1, e - 1, Digits))
  <2>1. b \in 1 .. Len(text) /\ p \in 1 .. Len(text)
        /\ (\A k \in b .. p - 1 : k \in 1 .. Len(text))
        /\ (\A k \in p + 1 .. e - 1 : k \in 1 .. Len(text))
    BY <1>1
  <2>. QED  BY <1>1, <1>2, <2>1 DEF AllIn
<1>6. DigitsExp10' = IF p < e THEN p + 1 - e ELSE 0
  <2>1. DigitsExp10' = DigitsExp10
    OBVIOUS
  <2>2. DigitsExp10 = IF p < e THEN p + 1 - e ELSE 0
    BY Zenon DEF DigitsRead
  <2>. QED  BY <2>1, <2>2
<1>. QED  BY <1>4, <1>5, <1>6 DEF DigitsRead

\* A digit more, before the point or behind it.
LEMMA DigitsGrow ==
  ASSUME DigitsInv, DigitsInv', Advance, Here \in Digits, TakeDigit(Here), phase \in {"int", "frac"}, phase' = phase,
         NEW b \in Nat \ {0}, NEW p \in Nat, NEW e \in Nat, b <= p, p <= e, e = Len(text), DigitsRead(b, p, e),
         NEW q \in Nat, (p = e /\ q = e + 1) \/ (p < e /\ q = p),
         exp10' = IF p < e THEN exp10 - 1 ELSE exp10
  PROVE  DigitsRead(b, q, e + 1)'
<1>1. /\ Len(text) \in Nat \ {0} /\ \A k \in 1 .. Len(text) : text[k] \in Nat /\ text'[k] = text[k]
      /\ text[e] \in Digits /\ Len(text') = e + 1
  <2>1. TypeOK
    BY DEF DigitsInv
  <2>2. \A k \in 1 .. Len(text) : text[k] \in Nat
    BY <2>1, SymbolsStay
  <2>3. Len(text) \in Nat \ {0} /\ text[e] \in Digits
    BY <2>1, TextRead
  <2>4. Len(text') = e + 1 /\ \A k \in 1 .. Len(text) : text'[k] = text[k]
    BY <2>1, Revealing
  <2>. QED  BY <2>2, <2>3, <2>4
<1>2. /\ text[b] \notin {Inf, Nan} /\ AllIn(text, b, p - 1, Digits)
      /\ p < e => text[p] = Point /\ AllIn(text, p + 1, e - 1, Digits)
      /\ ReadAlike(Gathered(text, b, p, e - 1))
  BY DEF DigitsRead
<1> DEFINE v == text'
           r == Gathered(text, b, p, e - 1)
           behind == p < e
<1>3. \A j \in 1 .. e : v[j] \in Nat /\ v[j] = text[j]
  BY <1>1
<1> HIDE DEF v
<1>4. Gathered(text, b, p, e - 1) = Gathered(v, b, q, e - 1) /\ Gathered(text, b, p, e - 1) \in Gatherings
  <2>1. e - 1 \in Nat /\ p \in Int /\ q \in Int /\ (p = q \/ (p > e - 1 /\ q > e - 1)) /\ e - 1 >= b - 1
        /\ \A j \in 1 .. e - 1 : text[j] \in Nat /\ v[j] = text[j]
    BY <1>1, <1>3
  <2>2. Gathered(text, b, p, e - 1) \in Gatherings
    BY <2>1, GatheredStep
  <2>3. Gathered(text, b, p, e - 1) = Gathered(v, b, q, e - 1)
    <3> DEFINE f == e - 1
    <3>1. f \in Nat /\ (p = q \/ (p > f /\ q > f)) /\ \A j \in 1 .. f : text[j] \in Nat /\ v[j] = text[j]
      BY <2>1
    <3> HIDE DEF f
    <3>2. Gathered(text, b, p, f) = Gathered(v, b, q, f)
      BY <2>1, <3>1, GatheredAgrees
    <3>. QED  BY <3>2 DEF f
  <2>. QED  BY <2>2, <2>3
<1>5. Gathered(v, b, q, e) = Taken(r, text[e], behind)
  <2>1. e >= b - 1 /\ e >= b /\ e # q /\ (e > q <=> p < e) /\ q \in Int /\ v[e] = text[e]
        /\ \A j \in 1 .. e : v[j] \in Nat
    BY <1>1, <1>3
  <2>2. Gathered(v, b, q, e) = Taken(Gathered(v, b, q, e - 1), v[e], e > q)
    BY <2>1, GatheredStep
  <2>3. (e > q) = behind
    BY <2>1
  <2> HIDE DEF behind
  <2>. QED  BY <2>1, <2>2, <2>3, <1>4
<1>6. ReadAlike(Taken(r, text[e], behind))'
  <2>1. behind \in BOOLEAN /\ behind' = behind /\ exp10' = IF behind THEN exp10 - 1 ELSE exp10
    OBVIOUS
  <2>2. Here = text[e]
    BY DEF Here
  <2> DEFINE d == text[e]
  <2>3. d' = d /\ d \in Digits /\ TakeDigit(d)
    BY <1>1, <2>2
  <2>4. r' = r
    <3>1. e - 1 \in Nat /\ \A j \in 1 .. e - 1 : text[j] \in Nat /\ v[j] = text[j]
      BY <1>1, <1>3
    <3>2. Gathered(text, b, p, e - 1) = Gathered(v, b, p, e - 1)
      BY <3>1, GatheredAgrees
    <3>. QED  BY <3>2 DEF v
  <2>5. r \in Gatherings /\ ReadAlike(r)
    BY <1>2, <1>4
  <2> DEFINE t == Taken(r, d, behind)
  <2>6. t' = t
    <3> HIDE DEF r, d, behind
    <3>. QED  BY <2>1, <2>3, <2>4 DEF Taken
  <2> HIDE DEF r, d, behind, t
  <2>7. PICK rr, dd, bb : rr = r /\ dd = d /\ bb = behind
    OBVIOUS
  <2>8. ReadAlike(Taken(rr, dd, bb))'
    <3>1. rr \in Gatherings /\ dd \in Digits /\ bb \in BOOLEAN /\ ReadAlike(rr) /\ TakeDigit(dd)
          /\ exp10' = IF bb THEN exp10 - 1 ELSE exp10
      BY <2>1, <2>3, <2>5, <2>7
    <3>2. phase # "done" /\ phase' # "done"
      OBVIOUS
    <3>. QED  BY <3>1, <3>2, TakenAlike
  <2>9. Taken(rr, dd, bb) = t
    BY <2>7 DEF t
  <2>10. ReadAlike(t)'
    BY <2>6, <2>8, <2>9 DEF ReadAlike
  <2>. QED  BY <2>10 DEF t, d
<1>7. (e + 1) - 1 = e
  OBVIOUS
<1>8. ReadAlike(Gathered(text, b, q, e))'
  <2> DEFINE g == Gathered(text', b, q, e)
             t == Taken(r, text[e], behind)
  <2>1. ReadAlike(t)' /\ t' = t
    <3>1. r' = r
      <4>1. e - 1 \in Nat /\ \A j \in 1 .. e - 1 : text[j] \in Nat /\ v[j] = text[j]
        BY <1>1, <1>3
      <4>2. Gathered(text, b, p, e - 1) = Gathered(v, b, p, e - 1)
        BY <4>1, GatheredAgrees
      <4>. QED  BY <4>2 DEF v
    <3>2. text'[e] = text[e]
      BY <1>1
    <3> HIDE DEF r
    <3>. QED  BY <1>6, <3>1, <3>2 DEF Taken
  <2>2. g = t
    BY <1>5 DEF v
  <2> HIDE DEF t, g
  <2>3. \A x : x = t => (ReadAlike(x))'
    BY <2>1 DEF ReadAlike
  <2>. QED  BY <2>2, <2>3 DEF g
<1>9. /\ text'[b] \notin {Inf, Nan} /\ AllIn(text', b, q - 1, Digits)
      /\ q < e + 1 => text'[q] = Point /\ AllIn(text', q + 1, e, Digits)
  <2>1. b \in 1 .. e /\ p \in 1 .. e
    BY <1>1
  <2>2. text'[b] \notin {Inf, Nan}
    BY <1>1, <1>2, <2>1
  <2>3. \A k \in b .. q - 1 : k \in 1 .. Len(text) /\ (k = e \/ k \in b .. p - 1)
    BY <1>1
  <2>4. AllIn(text', b, q - 1, Digits)
    BY <1>1, <1>2, <2>3 DEF AllIn
  <2>5. ASSUME q < e + 1 PROVE text'[q] = Point /\ AllIn(text', q + 1, e, Digits)
    <3>1. q = p /\ p < e /\ \A k \in q + 1 .. e : k \in 1 .. Len(text) /\ (k = e \/ k \in p + 1 .. e - 1)
      BY <1>1, <2>5
    <3>. QED  BY <1>1, <1>2, <2>1, <3>1 DEF AllIn
  <2>. QED  BY <2>2, <2>4, <2>5
<1>10. DigitsExp10' = IF q < e + 1 THEN q + 1 - (e + 1) ELSE 0
  <2>1. DigitsExp10 = exp10 /\ DigitsExp10' = exp10' /\ exp10 \in Int
    <3>1. exp10 \in Int
      BY DEF DigitsInv, TypeOK
    <3>2. phase # "done" /\ phase' # "done"
      OBVIOUS
    <3>. QED  BY <3>1, <3>2 DEF DigitsExp10
  <2>2. exp10 = IF p < e THEN p + 1 - e ELSE 0
    <3>1. DigitsExp10 = IF p < e THEN p + 1 - e ELSE 0
      BY Zenon DEF DigitsRead
    <3>. QED  BY <2>1, <3>1
  <2>. QED  BY <2>1, <2>2
<1>. QED  BY <1>7, <1>8, <1>9, <1>10 DEF DigitsRead

\* What is known of a number is all that the invariant says, once its first word is read.
LEMMA TwinOfNumber ==
  ASSUME phase \in {"int", "frac", "digitsEnd", "expSign", "exp", "done"},
         phase = "done" <=> outcome # "none", outcome \notin {"inf", "nan"},
         outcome = "invalid" => parsedLen = 0,
         phase \in {"int", "frac", "digitsEnd", "expSign"} => truePart = 0 /\ ~expNeg,
         NEW a \in 1 .. Len(text), NEW b \in a .. a + 1, NEW p \in 1 .. Len(text), NEW e \in 1 .. Len(text),
         Begun(a, b), b <= p, p <= e, NumberRead(b, p, e)
  PROVE  TwinInv
BY DEF TwinInv

LEMMA TwinNumberStep ==
  ASSUME DigitsInv, ReadInv, TwinInv, DigitsInv',
         IntDigit \/ IntEnd \/ FracDigit \/ FracEnd \/ NoDigits \/ NoExponent \/ Exponent \/ ExpSign \/ ExpDigit \/ ExpEnd
  PROVE  TwinInv'
<1> DEFINE n == Len(text)
<1>1. /\ phase \in {"int", "frac", "digitsEnd", "expSign", "exp"} /\ outcome = "none"
      /\ phase' \in {"int", "frac", "digitsEnd", "expSign", "exp", "done"}
      /\ phase' = "done" <=> outcome' # "none"
      /\ outcome' \notin {"inf", "nan"}
      /\ outcome' = "invalid" => parsedLen' = 0
      /\ phase' \in {"int", "frac", "digitsEnd", "expSign"} => truePart' = 0 /\ ~expNeg'
      /\ UNCHANGED text \/ Advance
  <2>1. /\ phase \in {"int", "frac", "digitsEnd", "expSign"} => truePart = 0 /\ ~expNeg
        /\ phase # "done" => outcome = "none"
    BY DEF TwinInv
  <2>2. CASE IntDigit \/ IntEnd \/ FracDigit \/ FracEnd \/ Exponent \/ ExpSign \/ ExpDigit
    BY <2>1, <2>2 DEF IntDigit, IntEnd, FracDigit, FracEnd, Exponent, ExpSign, ExpDigit, outcomes, exponent
  <2>3. CASE NoDigits \/ NoExponent \/ ExpEnd
    BY <2>1, <2>3 DEF NoDigits, NoExponent, ExpEnd, Finish
  <2>. QED  BY <2>2, <2>3
<1>2. PICK a \in 1 .. n : \E b \in a .. a + 1 :
        Begun(a, b) /\ \E p, e \in 1 .. n : b <= p /\ p <= e /\ NumberRead(b, p, e)
  BY <1>1 DEF TwinInv
<1>3. PICK b \in a .. a + 1, p \in 1 .. n, e \in 1 .. n :
        Begun(a, b) /\ b <= p /\ p <= e /\ NumberRead(b, p, e)
  BY <1>2
<1>4. TypeOK
  BY DEF DigitsInv
<1>5. /\ n \in Nat \ {0} /\ a \in Nat \ {0} /\ b \in Nat \ {0} /\ p \in Nat /\ e \in Nat /\ b <= n
      /\ Index = n - 1 /\ Here = text[n]
      /\ \A k \in 1 .. n : text[k] \in Nat /\ text'[k] = text[k]
      /\ Len(text') \in Nat /\ Len(text') >= n
  <2>1. b <= n
    BY <1>3
  <2>. QED  BY <1>1, <1>4, <2>1, SymbolsStay, TextRead, PartsStay
<1>6. Begun(a, b)'
  <2>1. Begins(a, b)'
    BY <1>1, <1>3, <1>4, <1>5, PartsStay DEF Begun
  <2>. QED  BY <2>1, <1>3, <1>5 DEF Begun
<1>7. DigitsRead(b, p, e)
  BY <1>3 DEF NumberRead
<1>8. SUFFICES \E q, f \in 1 .. Len(text') : b <= q /\ q <= f /\ NumberRead(b, q, f)'
  <2>1. PICK q \in 1 .. Len(text'), f \in 1 .. Len(text') : b <= q /\ q <= f /\ NumberRead(b, q, f)'
    BY <1>8
  <2>2. a \in 1 .. Len(text')
    BY <1>5
  <2>. QED  BY <1>1, <1>6, <2>1, <2>2 DEF TwinInv
<1> HIDE DEF n
<1>9. CASE IntDigit
  <2>1. /\ phase = "int" /\ phase' = "int" /\ Here \in Digits /\ TakeDigit(Here) /\ Advance /\ exp10' = exp10
        /\ e = n /\ p = e /\ outcome' = outcome
    BY <1>3, <1>9 DEF IntDigit, NumberRead, outcomes, n
  <2>2. Len(text') = n + 1
    BY <2>1, <1>4, Revealing DEF n
  <2>3. DigitsRead(b, e + 1, e + 1)'
    <3> DEFINE q == e + 1
    <3>1. q \in Nat /\ p = e /\ q = e + 1
      BY <2>1, <1>5
    <3> HIDE DEF q
    <3>2. DigitsRead(b, q, e + 1)'
      BY <1>3, <1>5, <1>7, <2>1, <3>1, DigitsGrow DEF n
    <3>3. DigitsRead(b, q, q)'
      BY <3>1, <3>2
    <3>. QED  BY <3>3 DEF q
  <2>4. NumberRead(b, e + 1, e + 1)'
    BY <1>1, <2>1, <2>2, <2>3 DEF NumberRead
  <2>5. e + 1 \in 1 .. Len(text') /\ b <= e + 1
    BY <1>3, <1>5, <2>1, <2>2
  <2>. QED  BY <2>4, <2>5
<1>10. CASE FracDigit
  <2>1. /\ phase = "frac" /\ phase' = "frac" /\ Here \in Digits /\ TakeDigit(Here) /\ Advance
        /\ exp10' = exp10 - 1 /\ e = n /\ p < e /\ outcome' = outcome
    BY <1>3, <1>10 DEF FracDigit, NumberRead, outcomes, n
  <2>2. Len(text') = n + 1
    BY <2>1, <1>4, Revealing DEF n
  <2>3. DigitsRead(b, p, e + 1)'
    BY <1>3, <1>5, <1>7, <2>1, DigitsGrow DEF n
  <2>4. NumberRead(b, p, e + 1)'
    BY <1>1, <1>5, <2>1, <2>2, <2>3 DEF NumberRead
  <2>5. e + 1 \in 1 .. Len(text') /\ p \in 1 .. Len(text') /\ p <= e + 1
    BY <1>3, <1>5, <2>1, <2>2
  <2>. QED  BY <1>3, <2>4, <2>5
<1>11. CASE IntEnd \/ FracEnd \/ NoDigits \/ NoExponent \/ Exponent \/ ExpSign \/ ExpDigit \/ ExpEnd
  <2>1. UNCHANGED <<sawDigit, sawNonzero, sigDigits, exact, DigitsExp10>>
    <3>1. UNCHANGED <<sawDigit, sawNonzero, sigDigits, exact>>
      BY <1>11 DEF IntEnd, FracEnd, NoDigits, NoExponent, Exponent, ExpSign, ExpDigit, ExpEnd, digitsRead
    <3>2. CASE ~ExpEnd
      <4>1. exp10' = exp10 /\ phase # "done" /\ (phase' = "done" => ~haveExp')
        BY <1>11, <3>2 DEF IntEnd, FracEnd, NoDigits, NoExponent, Exponent, ExpSign, ExpDigit, Finish,
                           exponent, ReadInv
      <4>. QED  BY <3>1, <4>1 DEF DigitsExp10
    <3>3. CASE ExpEnd
      <4>1. /\ phase = "exp" /\ phase' = "done" /\ UNCHANGED <<haveExp, expNeg, expPart>>
            /\ exp10' = CASE ~haveExp -> exp10
                          [] haveExp /\ expNeg -> exp10 - expPart
                          [] haveExp /\ ~expNeg -> exp10 + expPart
        BY <3>3 DEF ExpEnd, Finish, exponent
      <4>2. exp10 \in Int /\ expPart \in Int /\ haveExp \in BOOLEAN /\ expNeg \in BOOLEAN
        BY <1>4 DEF TypeOK
      <4>3. DigitsExp10 = exp10
        BY <4>1 DEF DigitsExp10
      <4>4. DigitsExp10' = exp10
        BY <4>1, <4>2 DEF DigitsExp10
      <4>. QED  BY <3>1, <4>3, <4>4
    <3>. QED  BY <3>2, <3>3
  <2>2. e <= Len(text)
    BY <1>5 DEF n
  <2>3. DigitsRead(b, p, e)'
    BY <1>1, <1>3, <1>4, <1>5, <1>7, <2>1, <2>2, DigitsStay
  <2>4. p \in 1 .. Len(text') /\ e \in 1 .. Len(text')
    BY <1>5
  <2>5. DigitsOver(p, e) => DigitsOver(p, e)'
    BY <1>5 DEF DigitsOver
  <2>6. CASE IntEnd /\ Here = Point
    <3>1. /\ phase = "int" /\ phase' = "frac" /\ Advance /\ e = n /\ p = e /\ outcome' = "none"
          /\ sawDigit' = sawDigit
      BY <1>1, <1>3, <2>6 DEF IntEnd, NumberRead, outcomes, digitsRead, n
    <3>2. Len(text') = n + 1
      BY <3>1, <1>4, Revealing DEF n
    <3>3. DigitsRead(b, p, e + 1)'
      <4>1. text'[p] = Point /\ AllIn(text', p + 1, e, Digits)
        <5>1. p = n /\ n \in 1 .. n /\ text'[n] = text[n]
          BY <1>5, <3>1
        <5>2. \A k \in Int : ~(k \in p + 1 .. e)
          BY <1>5, <3>1
        <5>. QED  BY <1>5, <2>6, <5>1, <5>2 DEF AllIn
      <4>2. Gathered(text', b, p, e) = Gathered(text', b, p, e - 1)
        <5> DEFINE v == text'
        <5>1. \A j \in 1 .. e : v[j] \in Nat
          BY <1>5
        <5> HIDE DEF v
        <5>2. e \in Nat /\ e >= b - 1 /\ e >= b /\ p \in Int /\ e = p
          BY <1>3, <1>5, <3>1
        <5>3. Gathered(v, b, p, e) = Gathered(v, b, p, e - 1)
          BY <1>5, <5>1, <5>2, GatheredStep
        <5>. QED  BY <5>3 DEF v
      <4>3. (e + 1) - 1 = e
        BY <1>5
      <4>4. DigitsExp10' = IF p < e + 1 THEN p + 1 - (e + 1) ELSE 0
        <5>1. DigitsExp10 = IF p < e THEN p + 1 - e ELSE 0
          BY <1>7, Zenon DEF DigitsRead
        <5>2. DigitsExp10' = DigitsExp10
          BY <2>1
        <5>. QED  BY <1>5, <3>1, <5>1, <5>2
      <4>. QED  BY <2>3, <4>1, <4>2, <4>3, <4>4 DEF DigitsRead, ReadAlike, DigitsExp10
    <3>4. NumberRead(b, p, e + 1)'
      BY <1>5, <3>1, <3>2, <3>3 DEF NumberRead
    <3>5. e + 1 \in 1 .. Len(text') /\ p <= e + 1
      BY <1>5, <3>1, <3>2
    <3>. QED  BY <1>3, <2>4, <3>4, <3>5
  <2>7. CASE (IntEnd /\ Here # Point) \/ FracEnd
    <3>1. /\ phase' = "digitsEnd" /\ text' = text /\ e = n /\ Here \notin Digits /\ outcome' = "none"
          /\ p = e => Here # Point
      BY <1>1, <1>3, <1>5, <2>7 DEF IntEnd, FracEnd, NumberRead, outcomes, n
    <3>2. DigitsOver(p, e)'
      BY <1>5, <3>1 DEF DigitsOver
    <3>3. NumberRead(b, p, e)'
      BY <2>3, <3>1, <3>2 DEF NumberRead, n
    <3>. QED  BY <1>3, <2>4, <3>3
  <2>8. CASE NoDigits
    <3>1. phase = "digitsEnd" /\ phase' = "done" /\ outcome' = "invalid" /\ ~sawDigit' /\ DigitsOver(p, e)
      BY <1>3, <2>8 DEF NoDigits, Finish, digitsRead, NumberRead
    <3>2. NumberRead(b, p, e)'
      BY <2>3, <2>5, <3>1 DEF NumberRead
    <3>. QED  BY <1>3, <2>4, <3>2
  <2>9. CASE NoExponent
    <3>1. /\ phase = "digitsEnd" /\ phase' = "done" /\ outcome' = "number" /\ sawDigit' /\ text' = text
          /\ DigitsOver(p, e) /\ e = n /\ parsedLen' = n - 1 /\ ~haveExp' /\ Here # Exp
      BY <1>3, <1>5, <2>9 DEF NoExponent, Finish, digitsRead, exponent, NumberRead, ReadInv, n
    <3>2. Here' = Here /\ Here \notin Digits /\ text'[e] # Exp
      BY <1>5, <3>1 DEF DigitsOver, Here
    <3>3. NumberRead(b, p, e)'
      BY <1>5, <2>3, <2>5, <3>1, <3>2 DEF NumberRead
    <3>. QED  BY <1>3, <2>4, <3>3
  <2>10. CASE Exponent
    <3>1. /\ phase = "digitsEnd" /\ phase' = "expSign" /\ outcome' = "none" /\ sawDigit' /\ Advance
          /\ DigitsOver(p, e) /\ e = n /\ parsedLen' = n - 1 /\ Here = Exp /\ truePart' = 0 /\ ~expNeg'
      BY <1>1, <1>3, <1>5, <2>10 DEF Exponent, digitsRead, exponent, NumberRead, n
    <3>2. Len(text') = n + 1 /\ text'[e] = Exp
      BY <3>1, <1>4, <1>5, Revealing DEF n
    <3>3. NumberRead(b, p, e)'
      BY <1>5, <2>3, <2>5, <3>1, <3>2 DEF NumberRead
    <3>. QED  BY <1>3, <2>4, <3>3
  <2>11. CASE ExpSign
    <3>1. /\ phase = "expSign" /\ phase' = "exp" /\ outcome' = "none" /\ sawDigit'
          /\ UNCHANGED <<parsedLen, haveExp, truePart>> /\ truePart = 0 /\ ~haveExp /\ ~expNeg
          /\ DigitsOver(p, e) /\ e = parsedLen + 1 /\ text[e] = Exp /\ n = e + 1
          /\ \/ Here \in {Plus, Minus} /\ expNeg' = (Here = Minus) /\ Advance
             \/ Here \notin {Plus, Minus} /\ expNeg' = expNeg /\ text' = text
      BY <1>1, <1>3, <2>11 DEF ExpSign, digitsRead, outcomes, NumberRead, ReadInv, n
    <3>2. text'[n] = Here /\ text'[e] = Exp /\ Index' = Len(text') - 1
      BY <1>5, <3>1 DEF Index
    <3>3. SignEnd(e + 1)' = Len(text')
      <4>1. SignEnd(e + 1)' = IF Here \in {Plus, Minus} THEN n + 1 ELSE n
        BY <3>1, <3>2 DEF SignEnd
      <4>. QED  BY <1>4, <3>1, <4>1, Revealing DEF n
    <3>4. ExpAlike(e)'
      <4> DEFINE d == SignEnd(e + 1)
                 v == text'
      <4>1. d' = Len(text') /\ d' \in Nat \ {0} /\ Index' = d' - 1 /\ Index' \in Nat
        BY <1>5, <3>2, <3>3
      <4>2. ExpPart(text', d', Index') = 0
        <5> DEFINE dd == d'
                   i == Index'
        <5>1. dd \in Nat \ {0} /\ i \in Nat /\ i = dd - 1
          BY <4>1
        <5>2. \A j \in 1 .. i : v[j] \in Nat
          <6>1. TypeOK'
            BY DEF DigitsInv
          <6>2. \A j \in 1 .. Len(text') : text'[j] \in Symbols
            <7>1. text' \in Seq(Symbols)
              BY <6>1 DEF TypeOK
            <7>. QED  BY <7>1
          <6>3. \A x \in Symbols : x \in Nat
            BY DEF Symbols
          <6>. QED  BY <4>1, <6>2, <6>3
        <5> HIDE DEF dd, i, v
        <5>3. ExpPart(v, dd, i) = 0
          BY <5>1, <5>2, ExpPartStep, SMTT(60)
        <5>. QED  BY <5>3 DEF v, dd, i
      <4>3. AllIn(text', d', Index', Digits)
        BY <4>1 DEF AllIn
      <4>4. expNeg' <=> text'[e + 1] = Minus
        <5>1. text'[e + 1] = Here
          BY <3>1, <3>2
        <5>2. expNeg' <=> Here = Minus
          <6>1. CASE expNeg' = (Here = Minus)
            BY <6>1, Zenon
          <6>2. CASE Here \notin {Plus, Minus} /\ expNeg' = expNeg
            BY <3>1, <6>2
          <6>. QED  BY <3>1, <6>1, <6>2, Zenon
        <5>. QED  BY <5>1, <5>2
      <4>5. ~haveExp' /\ ~(d' < Len(text')) /\ d' <= Len(text')
        BY <1>5, <3>1, <4>1
      <4> HIDE DEF d
      <4>. QED  BY <3>1, <3>2, <4>2, <4>3, <4>4, <4>5 DEF ExpAlike, d
    <3>5. NumberRead(b, p, e)'
      BY <1>5, <2>3, <2>5, <3>1, <3>4 DEF NumberRead
    <3>. QED  BY <1>3, <2>4, <3>5
  <2>12. CASE ExpDigit
    <3> DEFINE d == SignEnd(e + 1)
    <3>1. /\ phase = "exp" /\ phase' = "exp" /\ outcome' = "none" /\ sawDigit' /\ haveExp'
          /\ UNCHANGED <<parsedLen, expNeg>> /\ truePart' = 10 * truePart + Here /\ Here \in Digits
          /\ DigitsOver(p, e) /\ e = parsedLen + 1 /\ text[e] = Exp /\ ExpAlike(e) /\ Advance
          /\ d <= n /\ AllIn(text, d, n - 1, Digits) /\ (expNeg <=> text[e + 1] = Minus)
          /\ ExpPart(text, d, n - 1) = truePart
             \/ (TinyExpCap <= ExpPart(text, d, n - 1) /\ ExpPart(text, d, n - 1) <= truePart)
      BY <1>1, <1>3, <1>5, <2>12 DEF ExpDigit, digitsRead, outcomes, NumberRead, ExpAlike, n
    <3>2. Len(text') = n + 1 /\ Index' = n
      BY <1>4, <3>1, Revealing DEF n
    <3>3. d \in Nat \ {0} /\ d >= e + 1 /\ e + 1 \in 1 .. n
      <4>1. d \in Nat \ {0} /\ d >= e + 1
        BY <1>5 DEF SignEnd
      <4>. QED  BY <1>5, <3>1, <4>1
    <3>4. d' = d /\ text'[e + 1] = text[e + 1] /\ text'[e] = Exp
      BY <1>5, <3>1, <3>3 DEF SignEnd
    <3> HIDE DEF d
    <3>5. AllIn(text', d, n, Digits)
      <4>1. \A k \in d .. n : k \in 1 .. n /\ (k = n \/ k \in d .. n - 1)
        BY <1>5, <3>1, <3>3
      <4>. QED  BY <4>1, <1>5, <3>1 DEF AllIn
    <3>6. ExpPart(text', d, n) = truePart' \/ (TinyExpCap <= ExpPart(text', d, n) /\ ExpPart(text', d, n) <= truePart')
      <4> DEFINE v == text'
      <4>1. \A j \in 1 .. n : v[j] \in Nat /\ text[j] \in Nat /\ v[j] = text[j]
        BY <1>5
      <4> HIDE DEF v
      <4>2. ExpPart(v, d, n) = Grown(ExpPart(v, d, n - 1), v[n])
        <5>1. n \in Nat /\ n >= d - 1 /\ n >= d
          BY <1>5, <3>1, <3>3
        <5>. QED  BY <3>3, <4>1, <5>1, ExpPartStep
      <4>3. ExpPart(text, d, n - 1) = ExpPart(v, d, n - 1) /\ ExpPart(text, d, n - 1) \in Nat
        <5> DEFINE m == n - 1
        <5>1. m \in Nat /\ m >= d - 1 /\ \A j \in 1 .. m : v[j] \in Nat /\ text[j] \in Nat /\ v[j] = text[j]
          BY <1>5, <3>1, <3>3, <4>1
        <5> HIDE DEF m
        <5>2. ExpPart(text, d, m) = ExpPart(v, d, m)
          BY <3>3, <5>1, ExpPartAgrees
        <5>3. ExpPart(text, d, m) \in Nat
          BY <3>3, <5>1, ExpPartStep
        <5>. QED  BY <5>2, <5>3 DEF m
      <4>4. v[n] = Here /\ Here \in Nat /\ TinyExpCap \in Nat /\ truePart \in Nat
        BY <1>4, <1>5, <3>1, <4>1, TinyPowers DEF Digits, TypeOK
      <4>5. ExpPart(v, d, n) = truePart' \/ (TinyExpCap <= ExpPart(v, d, n) /\ ExpPart(v, d, n) <= truePart')
        <5> DEFINE x == ExpPart(text, d, n - 1)
                   y == ExpPart(v, d, n)
        <5>1. y = IF x < TinyExpCap THEN 10 * x + Here ELSE x
          BY <4>2, <4>3, <4>4 DEF Grown
        <5>2. x \in Nat /\ (x = truePart \/ (TinyExpCap <= x /\ x <= truePart))
          BY <3>1, <4>3
        <5> HIDE DEF x, y
        <5>3. y = truePart' \/ (TinyExpCap <= y /\ y <= truePart')
          BY <3>1, <4>4, <5>1, <5>2
        <5>. QED  BY <5>3 DEF y
      <4>. QED  BY <4>5 DEF v
    <3>7. d <= Len(text') /\ d < Len(text')
      BY <1>5, <3>1, <3>2, <3>3
    <3>8. ExpAlike(e)'
      BY <3>1, <3>2, <3>4, <3>5, <3>6, <3>7 DEF ExpAlike, d
    <3>9. NumberRead(b, p, e)'
      BY <1>5, <2>3, <2>5, <3>1, <3>8 DEF NumberRead
    <3>. QED  BY <1>3, <2>4, <3>9
  <2>13. CASE ExpEnd
    <3>1. /\ phase = "exp" /\ phase' = "done" /\ outcome' = "number" /\ text' = text /\ Here \notin Digits
          /\ UNCHANGED <<sawDigit, haveExp, expNeg, truePart>>
          /\ parsedLen' = (IF haveExp THEN Index ELSE parsedLen)
          /\ DigitsOver(p, e) /\ e = parsedLen + 1 /\ ExpAlike(e) /\ parsedLen \in Nat
      BY <1>3, <1>4, <2>13 DEF ExpEnd, Finish, digitsRead, exponent, NumberRead, TypeOK
    <3>2. Here' = Here /\ Index' = Index
      BY <3>1 DEF Here, Index
    <3>3. ExpAlike(e)'
      BY <3>1, <3>2 DEF ExpAlike, SignEnd
    <3>4. sawDigit
      BY <3>1 DEF ExpAlike
    <3>5. NumberRead(b, p, e)'
      BY <1>5, <2>3, <2>5, <3>1, <3>2, <3>3, <3>4 DEF NumberRead
    <3>. QED  BY <1>3, <2>4, <3>5
  <2>. QED  BY <1>11, <2>6, <2>7, <2>8, <2>9, <2>10, <2>11, <2>12, <2>13
<1>. QED  BY <1>9, <1>10, <1>11

LEMMA TwinWordStep ==
  ASSUME DigitsInv, ReadInv, TwinInv,
         SkipSpace \/ Empty \/ Sign \/ Infinity \/ NotANumber \/ NanPayload \/ NoWord
  PROVE  TwinInv'
<1> DEFINE n == Len(text)
<1>1. TypeOK /\ n \in Nat \ {0} /\ Index = n - 1 /\ Here = text[n]
      /\ \A k \in 1 .. n : text[k] \in Nat
  BY TextRead, SymbolsStay DEF DigitsInv
<1>2. /\ phase \in {"space", "word", "payload"} /\ outcome = "none" /\ truePart' = 0 /\ ~expNeg'
      /\ phase \in {"space", "word"} => sigDigits' = 0 /\ exp10' = 0 /\ exact' = 0 /\ ~sawNonzero'
  <2>1. phase \in {"space", "word", "payload"}
        /\ UNCHANGED <<truePart, expNeg, sigDigits, exp10, exact, sawNonzero>>
    BY DEF SkipSpace, Empty, Sign, Infinity, NotANumber, NanPayload, NoWord, exponent, digitsRead
  <2>. QED  BY <2>1 DEF TwinInv
<1> HIDE DEF n
<1>3. CASE SkipSpace
  <2>1. phase' = "space" /\ outcome' = "none" /\ phase = "space"
    BY <1>2, <1>3 DEF SkipSpace, outcomes
  <2>. QED  BY <1>2, <2>1 DEF TwinInv
<1>4. CASE Empty
  <2>1. /\ phase = "space" /\ phase' = "done" /\ outcome' = "invalid" /\ parsedLen' = 0 /\ text' = text
        /\ Here = End
    BY <1>4 DEF Empty, Finish
  <2>2. Here' = End /\ AllIn(text', 1, Index', {Space})
    BY <2>1 DEF ReadInv, Here, Index
  <2>. QED  BY <2>1, <2>2 DEF TwinInv
<1>5. CASE Sign
  <2>1. /\ phase = "space" /\ phase' = "word" /\ outcome' = "none" /\ Here \notin {Space, End}
        /\ \/ Here \in {Plus, Minus} /\ Advance
           \/ Here \notin {Plus, Minus} /\ text' = text
    <3>1. outcome' = outcome
      BY <1>5 DEF Sign, outcomes
    <3>. QED  BY <1>2, <1>5, <3>1, Zenon DEF Sign
  <2>2. /\ AllIn(text', 1, n - 1, {Space}) /\ text'[n] = text[n]
        /\ Len(text') = IF Here \in {Plus, Minus} THEN n + 1 ELSE n
    <3>1. \A k \in 1 .. n : text'[k] = text[k]
      BY <1>1, <2>1, SymbolsStay DEF n
    <3>2. \A k \in 1 .. n - 1 : k \in 1 .. n
      BY <1>1
    <3>3. AllIn(text, 1, n - 1, {Space})
      BY <1>1, <2>1 DEF ReadInv
    <3>4. n \in 1 .. n
      BY <1>1
    <3>. QED  BY <1>1, <2>1, <3>1, <3>2, <3>3, <3>4, Revealing DEF AllIn, n
  <2>3. PICK a \in Nat, b \in Nat : a = n /\ b = Len(text')
    BY <1>1, <2>2
  <2>4. Begun(a, b)'
    <3>1. b = SignEnd(a)' /\ text'[a] \notin {Space, End} /\ b <= Len(text')
      BY <1>1, <2>1, <2>2, <2>3 DEF SignEnd
    <3>. QED  BY <2>2, <2>3, <3>1 DEF Begun, Begins
  <2>5. a \in 1 .. Len(text') /\ b \in a .. a + 1
    BY <1>1, <2>2, <2>3
  <2>. QED  BY <1>2, <2>1, <2>3, <2>4, <2>5 DEF TwinInv
<1>6. CASE phase = "word" \/ phase = "payload"
  <2>1. PICK a \in 1 .. n : \E b \in a .. a + 1 :
              /\ Begun(a, b)
              /\ phase = "word" => b = Len(text)
              /\ phase = "payload" => b = Index /\ text[b] = Nan
    BY <1>6 DEF TwinInv, n
  <2>2. PICK b \in a .. a + 1 :
              /\ Begun(a, b)
              /\ phase = "word" => b = Len(text)
              /\ phase = "payload" => b = Index /\ text[b] = Nan
    BY <2>1
  <2>3. /\ a \in Nat \ {0} /\ b \in Nat \ {0} /\ b <= n /\ b \in 1 .. n
        /\ Len(text') \in Nat /\ Len(text') >= n /\ \A k \in 1 .. n : text'[k] = text[k]
        /\ UNCHANGED text \/ Advance
    <3>1. UNCHANGED text \/ Advance
      BY DEF SkipSpace, Empty, Sign, Infinity, NotANumber, NanPayload, NoWord
    <3>2. b <= n
      BY <2>2 DEF Begun, Begins, n
    <3>. QED  BY <1>1, <3>1, <3>2, SymbolsStay, PartsStay DEF n
  <2>4. Begun(a, b)'
    <3>1. Begins(a, b)'
      BY <1>1, <2>2, <2>3, PartsStay DEF Begun, n
    <3>. QED  BY <2>2, <2>3, <3>1 DEF Begun
  <2>5. a \in 1 .. Len(text')
    BY <1>1, <2>3
  <2>6. CASE Infinity
    <3>1. phase = "word" /\ phase' = "done" /\ outcome' = "inf" /\ parsedLen' = Index + 1 /\ text' = text
          /\ Here = Inf
      BY <2>6 DEF Infinity, Finish
    <3>2. b = Len(text') /\ text'[b] = Inf /\ parsedLen' = b
      <4>1. b = n /\ Len(text') = n /\ Index + 1 = n
        BY <1>1, <2>2, <3>1 DEF n
      <4>. QED  BY <1>1, <3>1, <4>1
    <3>. QED  BY <2>4, <2>5, <3>1, <3>2 DEF TwinInv
  <2>7. CASE NotANumber
    <3>1. phase = "word" /\ phase' = "payload" /\ outcome' = "none" /\ Advance /\ Here = Nan
      BY <1>2, <2>7 DEF NotANumber, outcomes
    <3>2. b = Index' /\ text'[b] = Nan
      BY <1>1, <2>2, <2>3, <3>1, Revealing DEF n
    <3>. QED  BY <1>2, <2>4, <2>5, <3>1, <3>2 DEF TwinInv
  <2>8. CASE NanPayload
    <3>1. /\ phase = "payload" /\ phase' = "done" /\ outcome' = "nan" /\ text' = text
          /\ parsedLen' = IF Here = Payload THEN Index + 1 ELSE Index
      BY <2>8 DEF NanPayload, Finish
    <3>2. /\ b = Index' /\ text'[b] = Nan
          /\ parsedLen' = IF Here' = Payload THEN Len(text') ELSE Index'
      BY <1>1, <2>2, <3>1 DEF n, Here, Index
    <3>. QED  BY <2>4, <2>5, <3>1, <3>2 DEF TwinInv
  <2>9. CASE NoWord
    <3>1. /\ phase = "word" /\ phase' = "int" /\ outcome' = "none" /\ text' = text
          /\ Here \notin {Inf, Nan} /\ sawDigit' = sawDigit
      BY <1>2, <2>9 DEF NoWord, outcomes, digitsRead
    <3>2. ~sawDigit' /\ b = n
      BY <2>2, <3>1 DEF ReadInv, n
    <3>3. DigitsRead(b, b, b)'
      <4>1. Gathered(text', b, b, b - 1) = Nothing
        <5> DEFINE v == text'
                   f == b - 1
        <5>1. f \in Nat /\ f >= b - 1 /\ f = b - 1 /\ b \in Int /\ \A j \in 1 .. f : v[j] \in Nat
          BY <1>1, <2>3
        <5> HIDE DEF v, f
        <5>2. Gathered(v, b, b, f) = Nothing
          BY <2>3, <5>1, GatheredStep
        <5>. QED  BY <5>2 DEF v, f
      <4>2. sigDigits' = 0 /\ exp10' = 0 /\ exact' = 0 /\ ~sawNonzero' /\ phase' # "done"
            /\ sawDigit' = FALSE /\ sawNonzero' = FALSE
        <5>1. sawDigit' \in BOOLEAN /\ sawNonzero' \in BOOLEAN
          BY <1>1, <3>1, <2>9 DEF NoWord, digitsRead, TypeOK
        <5>. QED  BY <1>2, <3>1, <3>2, <5>1
      <4>3. ReadAlike(Gathered(text, b, b, b - 1))'
        <5> DEFINE g == Gathered(text', b, b, b - 1)
        <5>1. /\ g.sawDigit = FALSE /\ g.sawNonzero = FALSE /\ ~g.tooManySig /\ g.sig = 0
              /\ g.sigDigits = 0 /\ g.exp10 = 0
          BY <4>1 DEF Nothing
        <5>2. MaxSigDigits \in Nat
          BY TinyPowers
        <5>3. DigitsExp10' = 0
          BY <4>2 DEF DigitsExp10
        <5> HIDE DEF g
        <5>4. /\ g.sawDigit = sawDigit' /\ g.sawNonzero = sawNonzero'
              /\ g.tooManySig <=> sigDigits' > MaxSigDigits
              /\ g.sigDigits = IF sigDigits' > MaxSigDigits THEN MaxSigDigits ELSE sigDigits'
              /\ ~g.tooManySig => g.sig = exact'
              /\ g.exp10 = DigitsExp10'
          <6>1. ~(sigDigits' > MaxSigDigits)
            BY <4>2, <5>2
          <6>. QED  BY <4>2, <5>1, <5>3, <6>1, Zenon
        <5>. QED  BY <5>4 DEF g, ReadAlike
      <4>4. AllIn(text', b, b - 1, Digits) /\ text'[b] \notin {Inf, Nan} /\ ~(b < b)
        BY <1>1, <2>3, <3>1, <3>2 DEF AllIn
      <4>5. DigitsExp10' = 0
        BY <4>2 DEF DigitsExp10
      <4>. QED  BY <4>3, <4>4, <4>5 DEF DigitsRead
    <3>4. NumberRead(b, b, b)'
      <4>1. b = Len(text')
        BY <3>1, <3>2 DEF n
      <4>2. phase' = "int" /\ outcome' = "none" /\ phase' \in {"int", "frac", "digitsEnd"}
            /\ phase' \in {"int", "frac"} /\ phase' \notin {"expSign", "exp"} /\ phase' # "frac"
            /\ phase' # "expSign" /\ phase' # "exp" /\ outcome' # "invalid" /\ outcome' # "number"
        BY <3>1
      <4>. QED  BY <3>3, <4>1, <4>2, Zenon DEF NumberRead
    <3>5. b \in 1 .. Len(text') /\ b <= b
      BY <1>1, <2>3
    <3>. QED  BY <1>2, <2>4, <2>5, <3>1, <3>4, <3>5 DEF TwinInv
  <2>10. Infinity \/ NotANumber \/ NanPayload \/ NoWord
    BY <1>6 DEF SkipSpace, Empty, Sign
  <2>. QED  BY <2>6, <2>7, <2>8, <2>9, <2>10
<1>7. SkipSpace \/ Empty \/ Sign \/ phase = "word" \/ phase = "payload"
  BY <1>2 DEF SkipSpace, Empty, Sign, Infinity, NotANumber, NanPayload, NoWord
<1>. QED  BY <1>3, <1>4, <1>5, <1>6, <1>7

LEMMA TwinStep ==
  ASSUME DigitsInv, ReadInv, TwinInv, DigitsInv', [Next]_vars
  PROVE  TwinInv'
<1>1. CASE SkipSpace \/ Empty \/ Sign \/ Infinity \/ NotANumber \/ NanPayload \/ NoWord
  BY <1>1, TwinWordStep
<1>2. CASE IntDigit \/ IntEnd \/ FracDigit \/ FracEnd \/ NoDigits \/ NoExponent \/ Exponent \/ ExpSign
           \/ ExpDigit \/ ExpEnd
  BY <1>2, TwinNumberStep
<1>3. CASE UNCHANGED vars
  <2>1. /\ UNCHANGED <<text, phase, outcome, parsedLen, sawDigit, sawNonzero, sigDigits, exp10, exact>>
        /\ UNCHANGED <<expNeg, haveExp, expPart, truePart>>
    BY <1>3 DEF vars, outcomes, digitsRead, exponent
  <2>2. UNCHANGED <<Here, Index, DigitsExp10>>
    BY <2>1 DEF Here, Index, DigitsExp10
  <2>3. \A r : ReadAlike(r)' = ReadAlike(r)
    BY <2>1, <2>2 DEF ReadAlike
  <2>4. \A a, b : Begun(a, b)' = Begun(a, b)
    BY <2>1 DEF Begun, Begins, SignEnd
  <2>5. \A b, p, e : DigitsRead(b, p, e)' = DigitsRead(b, p, e)
    BY <2>1, <2>2 DEF DigitsRead, ReadAlike
  <2>6. \A p, e : DigitsOver(p, e)' = DigitsOver(p, e) /\ ExpAlike(e)' = ExpAlike(e)
    BY <2>1, <2>2 DEF DigitsOver, ExpAlike, SignEnd
  <2>7. \A b, p, e : NumberRead(b, p, e)' = NumberRead(b, p, e)
    BY <2>1, <2>2, <2>5, <2>6 DEF NumberRead, DigitsRead, DigitsOver, ExpAlike, SignEnd, ReadAlike
  <2>. QED  BY <2>1, <2>2, <2>4, <2>7, ZenonT(60) DEF TwinInv
<1>. QED  BY <1>1, <1>2, <1>3 DEF Next

LEMMA TwinStarts == Init => TwinInv
<1> SUFFICES ASSUME Init PROVE TwinInv
  OBVIOUS
<1>1. phase = "space" /\ outcome = "none" /\ truePart = 0 /\ expNeg = FALSE
      /\ sigDigits = 0 /\ exp10 = 0 /\ exact = 0 /\ sawNonzero = FALSE
  BY DEF Init
<1>. QED  BY <1>1 DEF TwinInv

---------------------------------------------------------------------------
(* The tiny parser: what its call reads *)

\* A run ends where the first other symbol stands.
LEMMA RunEndIs ==
  ASSUME TypeOK, NEW k \in 1 .. Len(text), NEW e \in k .. Len(text), NEW S,
         AllIn(text, k, e - 1, S), text[e] \notin S
  PROVE  RunEnd(k, S) = e
<1> DEFINE IsEnd(x) == text[x] \notin S /\ AllIn(text, k, x - 1, S)
<1>1. Len(text) \in Nat
  BY TextRead
<1>2. IsEnd(e)
  OBVIOUS
<1>3. ASSUME NEW x \in k .. Len(text), IsEnd(x) PROVE x = e
  <2>1. CASE x < e
    <3>1. x \in k .. e - 1
      BY <1>1, <2>1
    <3>. QED  BY <1>3, <3>1 DEF AllIn
  <2>2. CASE x > e
    <3>1. e \in k .. x - 1
      BY <1>1, <2>2
    <3>. QED  BY <1>3, <3>1 DEF AllIn
  <2>. QED  BY <1>1, <2>1, <2>2
<1>4. RunEnd(k, S) \in k .. Len(text) /\ IsEnd(RunEnd(k, S))
  BY <1>2 DEF RunEnd
<1> HIDE DEF IsEnd
<1>. QED  BY <1>3, <1>4

\* The number it reads where the lexer has read one, or none.
LEMMA NumberIs ==
  ASSUME DigitsInv, phase = "done", outcome \in {"number", "invalid"},
         NEW b \in 1 .. Len(text), NEW p \in 1 .. Len(text), NEW e \in 1 .. Len(text), b <= p, p <= e,
         NumberRead(b, p, e)
  PROVE  LET number == Number(b)
             digits == Gathered(text, b, p, e - 1)
         IN  /\ number.digits = digits /\ digits \in Gatherings /\ ReadAlike(digits)
             /\ outcome = "number" => sawDigit /\ number.length = parsedLen
             /\ outcome = "invalid" => ~sawDigit
             /\ outcome = "number" =>
                  \/ number.exp10 = TrueExp10
                  \/ \E part \in Nat : /\ TinyExpCap <= part /\ part <= truePart
                                       /\ \/ number.exp10 = DigitsExp10 - part /\ TrueExp10 = DigitsExp10 - truePart
                                          \/ number.exp10 = DigitsExp10 + part /\ TrueExp10 = DigitsExp10 + truePart
<1> DEFINE n == Len(text)
           digits == Gathered(text, b, p, e - 1)
<1>1. /\ TypeOK /\ n \in Nat \ {0} /\ Index = n - 1 /\ Here = text[n]
      /\ \A k \in 1 .. n : text[k] \in Nat
      /\ parsedLen \in Nat /\ exp10 \in Int /\ expPart \in Nat /\ truePart \in Nat
      /\ haveExp \in BOOLEAN /\ expNeg \in BOOLEAN /\ sawDigit \in BOOLEAN
  BY TextRead, SymbolsStay DEF DigitsInv, TypeOK
<1>2. /\ text[b] \notin {Inf, Nan} /\ AllIn(text, b, p - 1, Digits)
      /\ p < e => text[p] = Point /\ AllIn(text, p + 1, e - 1, Digits)
      /\ ReadAlike(digits)
      /\ text[e] \notin Digits /\ (p = e => text[e] # Point)
      /\ outcome = "invalid" => ~sawDigit
      /\ outcome = "number" =>
           /\ sawDigit /\ parsedLen = IF haveExp THEN Index ELSE e - 1
           /\ Here \notin Digits
           /\ haveExp \/ text[e] = Exp => ExpAlike(e)
  BY DEF NumberRead, DigitsRead, DigitsOver
<1> HIDE DEF n
<1>3. RunEnd(b, Digits) = p
  <2>1. text[p] \notin Digits
    <3>1. Point \notin Digits
      BY DEF Point, Digits
    <3>2. p < e \/ p = e
      BY <1>1
    <3>. QED  BY <1>2, <3>1, <3>2
  <2>2. p \in b .. Len(text)
    BY <1>1
  <2>. QED  BY <1>1, <1>2, <2>1, <2>2, RunEndIs
<1>4. (IF text[p] = Point THEN RunEnd(p + 1, Digits) ELSE p) = e
  <2>1. CASE p = e
    BY <1>2, <2>1
  <2>2. CASE p < e
    <3> DEFINE k == p + 1
    <3>1. k \in 1 .. Len(text) /\ e \in k .. Len(text) /\ AllIn(text, k, e - 1, Digits)
      BY <1>1, <1>2, <2>2 DEF n
    <3> HIDE DEF k
    <3>2. RunEnd(k, Digits) = e
      BY <1>1, <1>2, <3>1, RunEndIs
    <3>. QED  BY <1>2, <2>2, <3>2 DEF k
  <2>. QED  BY <1>1, <2>1, <2>2
<1>5. digits \in Gatherings
  <2> DEFINE f == e - 1
  <2>1. f \in Nat /\ f >= b - 1 /\ b \in Nat \ {0} /\ p \in Int /\ \A j \in 1 .. f : text[j] \in Nat
    BY <1>1 DEF n
  <2> HIDE DEF f
  <2>2. Gathered(text, b, p, f) \in Gatherings
    BY <2>1, GatheredStep
  <2>. QED  BY <2>2 DEF f
<1>6. digits.sawDigit = sawDigit
  BY <1>2 DEF ReadAlike
<1> DEFINE expStart == AfterSignAt(e + 1)
           expEnd == RunEnd(expStart, Digits)
           hasExponent == digits.sawDigit /\ text[e] = Exp /\ expEnd > expStart
           part == IF hasExponent THEN ExpPart(text, expStart, expEnd - 1) ELSE 0
<1> HIDE DEF digits
<1>7. Number(b) = [digits |-> digits,
                   exp10 |-> IF hasExponent /\ text[e + 1] = Minus THEN digits.exp10 - part
                                                                  ELSE digits.exp10 + part,
                   length |-> (IF hasExponent THEN expEnd ELSE e) - 1]
  BY <1>3, <1>4, Zenon DEF Number, digits
<1> HIDE DEF expStart, expEnd, hasExponent, part
<1>8. /\ Number(b).digits = digits
      /\ Number(b).length = (IF hasExponent THEN expEnd ELSE e) - 1
      /\ Number(b).exp10 = IF hasExponent /\ text[e + 1] = Minus THEN digits.exp10 - part ELSE digits.exp10 + part
  BY <1>7
<1>9. ASSUME outcome = "number"
      PROVE  /\ (hasExponent <=> haveExp) /\ hasExponent \in BOOLEAN
             /\ haveExp => /\ expEnd = n /\ (expNeg <=> text[e + 1] = Minus) /\ part \in Nat
                           /\ part = truePart \/ (TinyExpCap <= part /\ part <= truePart)
  <2>1. hasExponent \in BOOLEAN
    <3>1. digits.sawDigit \in BOOLEAN
      BY <1>5 DEF Gatherings
    <3>. QED  BY <3>1 DEF hasExponent
  <2>2. CASE text[e] # Exp
    <3>1. ~hasExponent /\ ~haveExp
      BY <1>2, <1>9, <2>2 DEF hasExponent, ExpAlike
    <3>. QED  BY <2>1, <3>1
  <2>3. CASE text[e] = Exp
    <3> DEFINE d == SignEnd(e + 1)
    <3>1. ExpAlike(e)
      BY <1>2, <1>9, <2>3
    <3>2. /\ d <= n /\ AllIn(text, d, n - 1, Digits) /\ (haveExp <=> d < n)
          /\ (expNeg <=> text[e + 1] = Minus)
          /\ ExpPart(text, d, n - 1) = truePart
             \/ (TinyExpCap <= ExpPart(text, d, n - 1) /\ ExpPart(text, d, n - 1) <= truePart)
      BY <1>1, <3>1 DEF ExpAlike, n
    <3>3. d \in 1 .. n /\ d = expStart
      BY <1>1, <3>2 DEF SignEnd, AfterSignAt, expStart
    <3> HIDE DEF d
    <3>4. expEnd = n
      <4>1. n \in d .. n /\ text[n] \notin Digits
        BY <1>1, <1>2, <1>9, <3>3
      <4>2. RunEnd(d, Digits) = n
        BY <1>1, <3>2, <3>3, <4>1, RunEndIs DEF n
      <4>. QED  BY <3>3, <4>2 DEF expEnd
    <3>5. hasExponent <=> haveExp
      BY <1>1, <1>2, <1>6, <1>9, <2>3, <3>2, <3>3, <3>4 DEF hasExponent
    <3>6. ASSUME haveExp PROVE part = ExpPart(text, d, n - 1) /\ part \in Nat
      <4>1. part = ExpPart(text, d, n - 1)
        BY <3>3, <3>4, <3>5, <3>6 DEF part
      <4>2. ExpPart(text, d, n - 1) \in Nat
        <5> DEFINE m == n - 1
        <5>1. m \in Nat /\ m >= d - 1 /\ d \in Nat \ {0} /\ \A j \in 1 .. m : text[j] \in Nat
          BY <1>1, <3>3
        <5> HIDE DEF m
        <5>2. ExpPart(text, d, m) \in Nat
          BY <5>1, ExpPartStep
        <5>. QED  BY <5>2 DEF m
      <4>. QED  BY <4>1, <4>2
    <3>. QED  BY <2>1, <3>2, <3>4, <3>5, <3>6
  <2>. QED  BY <2>2, <2>3
<1>10. ASSUME outcome = "number"
       PROVE  /\ Number(b).length = parsedLen
              /\ \/ Number(b).exp10 = TrueExp10
                 \/ \E x \in Nat : /\ TinyExpCap <= x /\ x <= truePart
                                   /\ \/ Number(b).exp10 = DigitsExp10 - x /\ TrueExp10 = DigitsExp10 - truePart
                                      \/ Number(b).exp10 = DigitsExp10 + x /\ TrueExp10 = DigitsExp10 + truePart
  <2>1. digits.exp10 = DigitsExp10
    BY <1>2 DEF ReadAlike
  <2>2. CASE ~haveExp
    <3>1. DigitsExp10 = exp10 /\ TrueExp10 = exp10 /\ ~hasExponent /\ part = 0
      BY <1>1, <1>9, <1>10, <2>2 DEF DigitsExp10, TrueExp10, part
    <3>2. Number(b).exp10 = exp10 + 0
      BY <1>8, <2>1, <3>1
    <3>. QED  BY <1>1, <1>2, <1>8, <1>10, <2>2, <3>1, <3>2
  <2>3. CASE haveExp
    <3>1. hasExponent /\ expEnd = n /\ (expNeg <=> text[e + 1] = Minus) /\ part \in Nat
          /\ (part = truePart \/ (TinyExpCap <= part /\ part <= truePart))
      BY <1>9, <1>10, <2>3
    <3>2. Number(b).length = n - 1 /\ parsedLen = n - 1
      BY <1>1, <1>2, <1>8, <1>10, <2>3, <3>1
    <3>3. CASE expNeg
      <4>1. DigitsExp10 = exp10 + expPart /\ TrueExp10 = exp10 + (expPart - truePart)
        BY <2>3, <3>3 DEF DigitsExp10, TrueExp10
      <4>2. TrueExp10 = DigitsExp10 - truePart /\ Number(b).exp10 = DigitsExp10 - part
        BY <1>1, <1>8, <2>1, <3>1, <3>3, <4>1
      <4>. QED  BY <3>1, <3>2, <4>2
    <3>4. CASE ~expNeg
      <4>1. DigitsExp10 = exp10 - expPart /\ TrueExp10 = exp10 + (truePart - expPart)
        BY <2>3, <3>4 DEF DigitsExp10, TrueExp10
      <4>2. TrueExp10 = DigitsExp10 + truePart /\ Number(b).exp10 = DigitsExp10 + part
        BY <1>1, <1>8, <2>1, <3>1, <3>4, <4>1
      <4>. QED  BY <3>1, <3>2, <4>2
    <3>. QED  BY <3>3, <3>4
  <2>. QED  BY <2>2, <2>3
<1>. QED  BY <1>2, <1>5, <1>8, <1>10, Zenon DEF digits

---------------------------------------------------------------------------
(* The tiny parser: words divided bit by bit *)

\* What powers of two are, as far as they are products.
LEMMA TwosUpTo ==
  ASSUME NEW m \in Nat, PowersUpTo(2, m)
  PROVE  /\ \A k \in 0 .. m : 2 ^ k \in Nat \ {0}
         /\ \A j, k \in 0 .. m : j + k <= m => 2 ^ (j + k) = 2 ^ j * 2 ^ k
         /\ \A j, k \in 0 .. m : j <= k => 2 ^ j <= 2 ^ k
         /\ \A k \in 0 .. m - 1 : 2 ^ (k + 1) = 2 * 2 ^ k
         /\ 2 ^ 0 = 1
<1>1. \A k \in 0 .. m : 2 ^ k \in Nat \ {0}
  BY PowerPositive
<1>2. \A j, k \in 0 .. m : j + k <= m => 2 ^ (j + k) = 2 ^ j * 2 ^ k
  BY PowerSum
<1>3. \A j, k \in 0 .. m : j <= k => 2 ^ j <= 2 ^ k
  BY PowerOrder
<1>. QED  BY <1>1, <1>2, <1>3 DEF PowersUpTo

LEMMA WordIsPower ==
  /\ WordBits \in Nat /\ WordBits > 2 /\ Word = 2 ^ WordBits /\ Word \in Nat \ {0} /\ Word > 1
  /\ PowersUpTo(2, 2 * WordBits) /\ PowersUpTo(2, WordBits) /\ Word * Word = 2 ^ (2 * WordBits)
<1>1. WordBits \in Nat /\ WordBits > 2 /\ Word = 2 ^ WordBits
  BY WordAssumption, TinyAssumption, FormatAssumption
<1>2. PowersUpTo(2, 2 * WordBits)
  BY TinyPowersAssumption
<1>3. PowersUpTo(2, WordBits)
  BY <1>1, <1>2 DEF PowersUpTo
<1>4. Word * Word = 2 ^ (2 * WordBits)
  <2>1. 2 * WordBits \in Nat /\ WordBits \in 0 .. 2 * WordBits /\ WordBits + WordBits = 2 * WordBits
    BY <1>1
  <2> DEFINE m == 2 * WordBits
  <2>2. 2 ^ (WordBits + WordBits) = 2 ^ WordBits * 2 ^ WordBits
    <3>1. m \in Nat /\ PowersUpTo(2, m) /\ WordBits \in 0 .. m /\ WordBits + WordBits <= m
      BY <1>2, <2>1
    <3> HIDE DEF m
    <3>. QED  BY <3>1, TwosUpTo
  <2>. QED  BY <1>1, <2>1, <2>2
<1>. QED  BY <1>1, <1>2, <1>3, <1>4, Sizes

LEMMA PairIs ==
  ASSUME NEW a \in Pairs
  PROVE  /\ a.hi \in 0 .. Word - 1 /\ a.lo \in 0 .. Word - 1 /\ a.hi \in Nat /\ a.lo \in Nat
         /\ OfPair(a) \in Nat /\ OfPair(a) = a.hi * Word + a.lo /\ a = Pair(a.hi, a.lo)
<1>1. a.hi \in 0 .. Word - 1 /\ a.lo \in 0 .. Word - 1 /\ Word \in Nat \ {0}
  BY Sizes DEF Pairs, Words
<1>2. a.hi * Word \in Nat
  BY <1>1
<1>. QED  BY <1>1, <1>2 DEF OfPair, Pairs, Pair

\* A word on its own.
LEMMA FromWordIs ==
  ASSUME NEW x \in Words
  PROVE  FromWord(x) \in Pairs /\ OfPair(FromWord(x)) = x
BY Sizes DEF FromWord, Pair, Pairs, Words, OfPair

\* The length of a pair is that of its number.
LEMMA PairLenIs ==
  ASSUME NEW a \in Pairs, OfPair(a) > 0
  PROVE  /\ PairLen(a) \in 1 .. 2 * WordBits
         /\ 2 ^ (PairLen(a) - 1) <= OfPair(a) /\ OfPair(a) < 2 ^ PairLen(a)
<1> DEFINE W == Word
<1>1. /\ a.hi \in 0 .. W - 1 /\ a.lo \in 0 .. W - 1 /\ OfPair(a) = a.hi * W + a.lo
      /\ W \in Nat \ {0} /\ W = 2 ^ WordBits /\ WordBits \in Nat
      /\ a.hi \in Words /\ a.lo \in Words
  BY PairIs, WordIsPower DEF Words
<1>2. \A n \in Words : /\ WordLen(n) \in 0 .. WordBits /\ n < 2 ^ WordLen(n)
                       /\ WordLen(n) > 0 => 2 ^ (WordLen(n) - 1) <= n
  BY WordIsPower, WordLenIs
<1> DEFINE m == 2 * WordBits
<1>3. /\ \A k \in 0 .. m : 2 ^ k \in Nat \ {0}
      /\ \A j, k \in 0 .. m : j + k <= m => 2 ^ (j + k) = 2 ^ j * 2 ^ k
      /\ 2 ^ 0 = 1 /\ m \in Nat
  <2>1. m \in Nat /\ PowersUpTo(2, m)
    BY WordIsPower
  <2> HIDE DEF m
  <2>. QED  BY <2>1, TwosUpTo
<1> HIDE DEF W
<1>4. CASE a.hi = 0
  <2>1. PairLen(a) = WordLen(a.lo) /\ OfPair(a) = a.lo
    BY <1>1, <1>4 DEF PairLen
  <2>2. WordLen(a.lo) # 0
    <3> SUFFICES ASSUME WordLen(a.lo) = 0 PROVE FALSE
      OBVIOUS
    <3>1. a.lo < 2 ^ 0
      BY <1>1, <1>2
    <3>. QED  BY <1>1, <1>3, <2>1, <3>1
  <2>3. WordLen(a.lo) \in 0 .. WordBits /\ a.lo < 2 ^ WordLen(a.lo) /\ 2 ^ (WordLen(a.lo) - 1) <= a.lo
    BY <1>1, <1>2, <2>2
  <2>. QED  BY <1>1, <2>1, <2>2, <2>3
<1>5. CASE a.hi # 0
  <2> DEFINE l == WordLen(a.hi)
  <2>1. PairLen(a) = WordBits + l
    BY <1>5 DEF PairLen
  <2>2. l \in 0 .. WordBits /\ a.hi < 2 ^ l /\ (l > 0 => 2 ^ (l - 1) <= a.hi)
    BY <1>1, <1>2
  <2>3. l # 0
    <3> SUFFICES ASSUME l = 0 PROVE FALSE
      OBVIOUS
    <3>1. a.hi < 2 ^ 0
      BY <2>2
    <3>. QED  BY <1>1, <1>3, <1>5, <3>1
  <2> HIDE DEF l
  <2>4. 2 ^ (WordBits + l) = W * 2 ^ l /\ 2 ^ (WordBits + (l - 1)) = W * 2 ^ (l - 1)
    <3>1. WordBits \in 0 .. m /\ l \in 0 .. m /\ l - 1 \in 0 .. m /\ WordBits + l <= m /\ WordBits + (l - 1) <= m
      BY <1>1, <2>2, <2>3
    <3>. QED  BY <1>1, <1>3, <3>1
  <2>5. 2 ^ l \in Nat /\ 2 ^ (l - 1) \in Nat
    <3>1. l \in 0 .. m /\ l - 1 \in 0 .. m
      BY <1>1, <2>2, <2>3
    <3>. QED  BY <1>3, <3>1
  <2>6. W * 2 ^ (l - 1) <= a.hi * W + a.lo
    <3>1. 2 ^ (l - 1) * W <= a.hi * W
      BY <1>1, <2>2, <2>3, <2>5
    <3>. QED  BY <1>1, <2>5, <3>1
  <2>7. a.hi * W + a.lo < W * 2 ^ l
    <3>1. (a.hi + 1) * W <= 2 ^ l * W
      BY <1>1, <2>2, <2>5
    <3>2. (a.hi + 1) * W = a.hi * W + W
      BY <1>1
    <3>. QED  BY <1>1, <2>5, <3>1, <3>2
  <2>8. (WordBits + l) - 1 = WordBits + (l - 1) /\ WordBits + l \in 1 .. m
    BY <1>1, <2>2, <2>3
  <2>. QED  BY <1>1, <2>1, <2>4, <2>6, <2>7, <2>8
<1>. QED  BY <1>4, <1>5

\* What a shift by less than a word does to the two words, as a statement on numbers.
HighWord(W, P, Q, hi, lo) == ((hi * P) % W) + (lo \div Q)
LowWord(W, P, lo) == (lo * P) % W
LEMMA ShiftedWords ==
  ASSUME NEW W \in Nat \ {0}, NEW P \in Nat \ {0}, NEW Q \in Nat \ {0}, W = P * Q,
         NEW hi \in 0 .. W - 1, NEW lo \in 0 .. W - 1, (hi * W + lo) * P < W * W
  PROVE  /\ HighWord(W, P, Q, hi, lo) \in 0 .. W - 1 /\ LowWord(W, P, lo) \in 0 .. W - 1
         /\ HighWord(W, P, Q, hi, lo) * W + LowWord(W, P, lo) = (hi * W + lo) * P
<1> DEFINE u == lo \div Q
           v == lo % Q
<1>1. u \in Int /\ v \in 0 .. Q - 1 /\ lo = Q * u + v
  BY IntDivMod
<1> HIDE DEF u, v
<1>2. u >= 0
  <2> SUFFICES ASSUME u <= -1 PROVE FALSE
    BY <1>1
  <2>1. Q * u <= Q * (-1)
    BY <1>1
  <2>. QED  BY <1>1, <2>1
<1>3. u \in Nat /\ v \in Nat
  BY <1>1, <1>2
<1>4. v * P < W /\ v * P \in Nat
  <2>1. v * P < Q * P
    BY <1>1, <1>3, Products
  <2>. QED  BY <1>3, <2>1
<1>5. lo * P = u * W + v * P
  <2>1. (Q * u + v) * P = (Q * u) * P + v * P
    BY <1>3
  <2>2. (Q * u) * P = u * (P * Q)
    BY <1>3, Swapped
  <2>. QED  BY <1>1, <2>1, <2>2
<1>6. (lo * P) % W = v * P
  <2>1. lo * P - u * W \in 0 .. W - 1 /\ lo * P \in Int /\ u \in Int
    BY <1>3, <1>4, <1>5
  <2>2. (lo * P) % W = lo * P - u * W
    BY <2>1, Modulo
  <2>. QED  BY <1>3, <1>4, <1>5, <2>2
<1>7. (hi * W + lo) * P = (hi * P + u) * W + v * P /\ hi * P \in Nat /\ hi * W \in Nat
  <2>1. (hi * W + lo) * P = (hi * W) * P + lo * P /\ hi * P \in Nat /\ hi * W \in Nat
    OBVIOUS
  <2>2. (hi * W) * P = (hi * P) * W
    BY Swapped
  <2>3. (hi * P + u) * W = (hi * P) * W + u * W
    BY <1>3, <2>1
  <2>. QED  BY <1>3, <1>4, <1>5, <2>1, <2>2, <2>3
<1>8. hi * P + u < W
  <2> SUFFICES ASSUME W <= hi * P + u PROVE FALSE
    BY <1>3, <1>7
  <2>1. W * W <= (hi * P + u) * W
    BY <1>3, <1>7, Products
  <2>. QED  BY <1>3, <1>4, <1>7, <2>1
<1>9. (hi * P) % W = hi * P
  <2>1. hi * P - 0 * W \in 0 .. W - 1 /\ hi * P \in Int
    BY <1>3, <1>7, <1>8
  <2>2. (hi * P) % W = hi * P - 0 * W
    BY <2>1, Modulo
  <2>. QED  BY <1>7, <2>2
<1>10. HighWord(W, P, Q, hi, lo) = hi * P + u /\ LowWord(W, P, lo) = v * P
  BY <1>6, <1>9 DEF HighWord, LowWord, u
<1>11. hi * P + u \in 0 .. W - 1 /\ v * P \in 0 .. W - 1
  BY <1>3, <1>4, <1>7, <1>8
<1>. QED  BY <1>7, <1>10, <1>11

(***************************************************************************)
(* A pair shifted left stands for its number times a power of two          *)
(* (ryu_u128_shl), unless that does not fit.                               *)
(***************************************************************************)
THEOREM ShiftedIsProduct ==
  ASSUME NEW a \in Pairs, NEW k \in Nat, k <= 2 * WordBits, OfPair(a) * 2 ^ k < Word * Word
  PROVE  Shifted(a, k) \in Pairs /\ OfPair(Shifted(a, k)) = OfPair(a) * 2 ^ k
<1> DEFINE W == Word
           m == 2 * WordBits
<1>1. /\ a.hi \in 0 .. W - 1 /\ a.lo \in 0 .. W - 1 /\ OfPair(a) = a.hi * W + a.lo /\ OfPair(a) \in Nat
      /\ W \in Nat \ {0} /\ W = 2 ^ WordBits /\ WordBits \in Nat /\ W * W = 2 ^ m
  BY PairIs, WordIsPower
<1>2. /\ \A j \in 0 .. m : 2 ^ j \in Nat \ {0}
      /\ \A i, j \in 0 .. m : i + j <= m => 2 ^ (i + j) = 2 ^ i * 2 ^ j
      /\ 2 ^ 0 = 1 /\ m \in Nat
  <2>1. m \in Nat /\ PowersUpTo(2, m)
    BY WordIsPower
  <2> HIDE DEF m
  <2>. QED  BY <2>1, TwosUpTo
<1>3. \A h, l \in 0 .. W - 1 : Pair(h, l) \in Pairs /\ OfPair(Pair(h, l)) = h * W + l
  BY DEF Pair, Pairs, Words, OfPair
<1>4. OfPair(a) * 2 ^ k < W * W
  OBVIOUS
<1>9. k \in 0 .. m /\ m = 2 * WordBits
  BY <1>1
<1> HIDE DEF m
<1>10. 2 ^ k \in Nat \ {0}
  BY <1>2, <1>9
<1>5. CASE k = 0
  <2>1. Shifted(a, k) = a
    BY <1>5, WordIsPower DEF Shifted
  <2>. QED  BY <1>1, <1>2, <1>5, <2>1
<1>6. CASE k # 0 /\ k = m
  <2>1. Shifted(a, k) = Pair(0, 0)
    BY <1>4, <1>9, <1>10, <1>6 DEF Shifted
  <2>2. OfPair(a) = 0
    <3> SUFFICES ASSUME OfPair(a) # 0 PROVE FALSE
      OBVIOUS
    <3>1. 1 * (W * W) <= OfPair(a) * (W * W)
      BY <1>1
    <3>. QED  BY <1>1, <1>4, <1>9, <1>10, <1>6, <3>1
  <2>3. 0 \in 0 .. W - 1
    BY <1>1
  <2>4. Pair(0, 0) \in Pairs /\ OfPair(Pair(0, 0)) = 0 * W + 0
    BY <1>3, <2>3
  <2>. QED  BY <1>1, <1>4, <1>9, <1>10, <2>1, <2>2, <2>4
<1>7. CASE WordBits <= k /\ k < m /\ k # 0
  <2> DEFINE P == 2 ^ (k - WordBits)
  <2>1. Shifted(a, k) = Pair((a.lo * P) % W, 0)
    BY <1>4, <1>9, <1>10, <1>7 DEF Shifted
  <2>2. P \in Nat \ {0} /\ 2 ^ k = P * W
    <3>1. k - WordBits \in 0 .. m /\ WordBits \in 0 .. m /\ (k - WordBits) + WordBits = k
      BY <1>1, <1>4, <1>9, <1>10, <1>7
    <3>2. 2 ^ ((k - WordBits) + WordBits) = P * 2 ^ WordBits
      BY <1>2, <1>4, <1>9, <1>10, <3>1
    <3>. QED  BY <1>1, <1>2, <3>1, <3>2
  <2> HIDE DEF P
  <2>3. OfPair(a) * P < W
    <3>1. OfPair(a) * (P * W) = (OfPair(a) * P) * W /\ OfPair(a) * P \in Nat
      BY <1>1, <2>2, Swapped
    <3>2. (OfPair(a) * P) * W < W * W
      BY <1>4, <1>9, <1>10, <2>2, <3>1
    <3>. QED  BY <1>1, <3>1, <3>2, Products
  <2>4. a.hi = 0 /\ OfPair(a) = a.lo
    <3>1. a.hi = 0
      <4> SUFFICES ASSUME a.hi >= 1 PROVE FALSE
        BY <1>1
      <4>1. 1 * W <= a.hi * W
        BY <1>1
      <4>2. W <= OfPair(a) /\ OfPair(a) <= OfPair(a) * P
        BY <1>1, <2>2, <4>1, Products
      <4>. QED  BY <1>1, <2>2, <2>3, <4>2
    <3>. QED  BY <1>1, <3>1
  <2>5. (a.lo * P) % W = a.lo * P /\ a.lo * P \in 0 .. W - 1
    <3>1. a.lo * P \in Nat
      BY <1>1, <2>2
    <3>2. a.lo * P - 0 * W \in 0 .. W - 1 /\ a.lo * P \in Int
      BY <1>1, <2>3, <2>4, <3>1
    <3>3. (a.lo * P) % W = a.lo * P - 0 * W
      BY <1>1, <3>2, Modulo
    <3>. QED  BY <1>1, <3>1, <3>2, <3>3
  <2>6. 0 \in 0 .. W - 1
    BY <1>1
  <2>7. Shifted(a, k) \in Pairs /\ OfPair(Shifted(a, k)) = (a.lo * P) * W + 0
    BY <1>3, <2>1, <2>5, <2>6
  <2>8. a.lo * (P * W) = (a.lo * P) * W /\ (a.lo * P) * W \in Nat
    BY <1>1, <2>2, Swapped
  <2>9. OfPair(a) * 2 ^ k = a.lo * (P * W)
    BY <2>2, <2>4
  <2>. QED  BY <2>7, <2>8, <2>9
<1>8. CASE k # 0 /\ k < WordBits
  <2> DEFINE P == 2 ^ k
             Q == 2 ^ (WordBits - k)
             h == ((a.hi * P) % W) + (a.lo \div Q)
             l == (a.lo * P) % W
  <2>1. Shifted(a, k) = Pair(h, l)
    BY <1>1, <1>4, <1>9, <1>10, <1>8 DEF Shifted
  <2>2. P \in Nat \ {0} /\ Q \in Nat \ {0} /\ W = P * Q
    <3>1. k \in 0 .. m /\ WordBits - k \in 0 .. m /\ k + (WordBits - k) = WordBits /\ WordBits <= m
      BY <1>1, <1>4, <1>9, <1>10, <1>8
    <3>2. 2 ^ (k + (WordBits - k)) = P * Q
      BY <1>2, <3>1
    <3>. QED  BY <1>1, <1>2, <3>1, <3>2
  <2>3. (a.hi * W + a.lo) * P < W * W
    BY <1>1, <1>4
  <2> HIDE DEF P, Q, W
  <2>4. h \in 0 .. W - 1 /\ l \in 0 .. W - 1 /\ h * W + l = (a.hi * W + a.lo) * P
    <3>1. W \in Nat \ {0} /\ a.hi \in 0 .. W - 1 /\ a.lo \in 0 .. W - 1
      BY <1>1
    <3>2. h = HighWord(W, P, Q, a.hi, a.lo) /\ l = LowWord(W, P, a.lo)
      BY DEF HighWord, LowWord
    <3>. QED  BY <2>2, <2>3, <3>1, <3>2, ShiftedWords
  <2> HIDE DEF h, l
  <2>5. Pair(h, l) \in Pairs /\ OfPair(Pair(h, l)) = h * W + l
    BY <1>3, <2>4
  <2>. QED  BY <1>1, <2>1, <2>4, <2>5 DEF P
<1>. QED  BY <1>4, <1>9, <1>10, <1>5, <1>6, <1>7, <1>8, <1>1

\* Twice a pair whose double fits.
LEMMA TwiceFits ==
  ASSUME NEW a \in Pairs, 2 * OfPair(a) < Word * Word
  PROVE  Twice(a) \in Pairs /\ OfPair(Twice(a)) = 2 * OfPair(a)
<1> DEFINE W == Word
           h == 2 ^ (WordBits - 1)
<1>1. /\ a.hi \in 0 .. W - 1 /\ a.lo \in 0 .. W - 1 /\ OfPair(a) = a.hi * W + a.lo
      /\ W \in Nat \ {0} /\ 2 * OfPair(a) < W * W
  BY PairIs, WordIsPower
<1>2. W = 2 * h /\ h \in Nat \ {0}
  <2>1. WordBits - 1 \in 0 .. WordBits /\ WordBits - 1 \in 0 .. WordBits - 1 /\ (WordBits - 1) + 1 = WordBits
        /\ WordBits \in Nat /\ PowersUpTo(2, WordBits)
    BY WordIsPower
  <2>2. 2 ^ (WordBits - 1) \in Nat \ {0} /\ 2 ^ ((WordBits - 1) + 1) = 2 * 2 ^ (WordBits - 1)
    BY <2>1, TwosUpTo
  <2>. QED  BY <2>1, <2>2, WordIsPower
<1> HIDE DEF W, h
<1>3. a.hi < h
  <2> SUFFICES ASSUME h <= a.hi PROVE FALSE
    BY <1>1, <1>2
  <2>1. h * W <= a.hi * W
    BY <1>1, <1>2, Products
  <2>2. 2 * (h * W) = W * W /\ a.hi * W \in Nat /\ h * W \in Nat
    BY <1>1, <1>2
  <2>. QED  BY <1>1, <2>1, <2>2
<1>4. 2 * a.hi + 1 < W
  BY <1>1, <1>2, <1>3
<1>. QED  BY <1>1, <1>4, TwiceIsDouble DEF W

\* The number leading by as many bits as its power of two says, as a statement on numbers.
LEMMA Leads ==
  ASSUME NEW A \in Nat \ {0}, NEW B \in Nat \ {0}, NEW S \in Nat \ {0}, A = B * S,
         NEW x \in Nat, NEW y \in Nat, A <= x, x < 2 * A, B <= y, y < 2 * B
  PROVE  /\ y * S < 2 * x /\ x < 2 * (y * S) /\ y * S < 2 * A
         /\ y * S \in Nat
<1>1. y * S < (2 * B) * S /\ B * S <= y * S /\ y * S \in Nat
  BY Products
<1>2. (2 * B) * S = 2 * A
  OBVIOUS
<1>. QED  BY <1>1, <1>2

(***************************************************************************)
(* The power of two that leads a quotient, and both made fit for it        *)
(* (the start of ryu_tiny_mq_to_double): the quotient of the shifted       *)
(* numbers is at least 1 and less than 2.                                  *)
(***************************************************************************)
THEOREM QuotientLeads ==
  ASSUME NEW num \in Pairs, NEW den \in Pairs, OfPair(num) > 0, OfPair(den) > 0,
         2 * OfPair(den) <= Word * Word
  PROVE  LET q == FloorLog2(num, den)
             n == IF q >= 0 THEN num ELSE Shifted(num, -q)
             d == IF q >= 0 THEN Shifted(den, q) ELSE den
         IN  /\ q \in -(2 * WordBits) .. 2 * WordBits /\ n \in Pairs /\ d \in Pairs
             /\ OfPair(n) = (IF q >= 0 THEN OfPair(num) ELSE OfPair(num) * 2 ^ (-q))
             /\ OfPair(d) = (IF q >= 0 THEN OfPair(den) * 2 ^ q ELSE OfPair(den))
             /\ OfPair(d) <= OfPair(n) /\ OfPair(n) < 2 * OfPair(d)
<1> DEFINE x == OfPair(num)
           y == OfPair(den)
           l == PairLen(num)
           m == PairLen(den)
           q == FloorLog2(num, den)
           w == 2 * WordBits
           WW == Word * Word
<1>1. x \in Nat \ {0} /\ y \in Nat \ {0} /\ 2 * y <= WW
  BY PairIs
<1>2. /\ \A k \in 0 .. w : 2 ^ k \in Nat \ {0}
      /\ \A j, k \in 0 .. w : j + k <= w => 2 ^ (j + k) = 2 ^ j * 2 ^ k
      /\ \A j, k \in 0 .. w : j <= k => 2 ^ j <= 2 ^ k
      /\ \A k \in 0 .. w - 1 : 2 ^ (k + 1) = 2 * 2 ^ k
      /\ 2 ^ 0 = 1 /\ w \in Nat /\ WW = 2 ^ w /\ WW \in Nat
  <2>1. w \in Nat /\ PowersUpTo(2, w) /\ WW = 2 ^ w /\ WW \in Nat
    BY WordIsPower
  <2> HIDE DEF w, WW
  <2>. QED  BY <2>1, TwosUpTo
<1>3. l \in 1 .. w /\ m \in 1 .. w /\ 2 ^ (l - 1) <= x /\ x < 2 ^ l /\ 2 ^ (m - 1) <= y /\ y < 2 ^ m
  BY PairLenIs
<1>4. \A a \in Pairs, k \in 0 .. w : OfPair(a) * 2 ^ k < WW =>
        Shifted(a, k) \in Pairs /\ OfPair(Shifted(a, k)) = OfPair(a) * 2 ^ k
  <2> SUFFICES ASSUME NEW a \in Pairs, NEW k \in 0 .. w, OfPair(a) * 2 ^ k < WW
               PROVE  Shifted(a, k) \in Pairs /\ OfPair(Shifted(a, k)) = OfPair(a) * 2 ^ k
    OBVIOUS
  <2>1. k \in Nat /\ k <= 2 * WordBits
    BY <1>2
  <2>. QED  BY <2>1, ShiftedIsProduct
<1>5. q = LET apart == l - m
              less == IF apart >= 0 THEN Less(num, Shifted(den, apart)) ELSE Less(Shifted(num, -apart), den)
          IN  IF less THEN apart - 1 ELSE apart
  BY DEF FloorLog2
<1> HIDE DEF x, y, l, m, q, w, WW
<1> DEFINE A == 2 ^ (l - 1)
           B == 2 ^ (m - 1)
<1>6. /\ A \in Nat \ {0} /\ B \in Nat \ {0} /\ A <= x /\ x < 2 * A /\ B <= y /\ y < 2 * B
      /\ 2 * A <= WW /\ 2 * B <= WW
  <2>1. l - 1 \in 0 .. w - 1 /\ m - 1 \in 0 .. w - 1 /\ l \in 0 .. w /\ m \in 0 .. w /\ w \in 0 .. w
        /\ (l - 1) + 1 = l /\ (m - 1) + 1 = m /\ l - 1 \in 0 .. w /\ m - 1 \in 0 .. w /\ l <= w /\ m <= w
    BY <1>2, <1>3
  <2>2. 2 ^ l = 2 * A /\ 2 ^ m = 2 * B
    BY <1>2, <2>1
  <2>3. 2 ^ l <= WW /\ 2 ^ m <= WW /\ A \in Nat \ {0} /\ B \in Nat \ {0}
    BY <1>2, <2>1
  <2>. QED  BY <1>3, <2>2, <2>3
<1>7. CASE l >= m
  <2> DEFINE k == l - m
             S == 2 ^ k
  <2>1. k \in 0 .. w /\ k = l - m /\ S \in Nat \ {0} /\ A = B * S
    <3>1. k \in 0 .. w /\ m - 1 \in 0 .. w /\ l - 1 \in 0 .. w /\ (m - 1) + k = l - 1 /\ l - 1 <= w
      BY <1>2, <1>3, <1>7
    <3> HIDE DEF k
    <3>2. 2 ^ ((m - 1) + k) = 2 ^ (m - 1) * 2 ^ k
      BY <1>2, <3>1
    <3>. QED  BY <1>2, <3>1, <3>2 DEF k
  <2>2. q = IF Less(num, Shifted(den, k)) THEN k - 1 ELSE k
    BY <1>3, <1>5, <1>7
  <2> HIDE DEF k
  <2>3. y * S < 2 * x /\ x < 2 * (y * S) /\ y * S < 2 * A /\ y * S \in Nat
    <3> HIDE DEF A, B, S
    <3>. QED  BY <1>1, <1>6, <2>1, Leads
  <2>4. Shifted(den, k) \in Pairs /\ OfPair(Shifted(den, k)) = y * S
    <3>1. y * S < WW
      BY <1>2, <1>6, <2>3
    <3>. QED  BY <1>4, <2>1, <3>1 DEF y
  <2>5. Less(num, Shifted(den, k)) <=> x < y * S
    BY <2>4, LessIsLess DEF x
  <2>6. CASE ~(x < y * S)
    <3>1. q = k
      BY <2>2, <2>5, <2>6
    <3>2. y * S <= x
      BY <1>1, <2>3, <2>6
    <3>3. q >= 0 /\ q \in -w .. w
      BY <2>1, <1>2, <3>1
    <3>. QED  BY <1>1, <1>2, <2>1, <2>3, <2>4, <3>1, <3>2, <3>3 DEF x, y, q, w
  <2>7. CASE x < y * S /\ k >= 1
    <3> DEFINE j == k - 1
               T == 2 ^ j
    <3>1. q = j /\ j \in 0 .. w /\ j \in 0 .. w - 1 /\ j + 1 = k
      BY <1>2, <2>1, <2>2, <2>5, <2>7
    <3> HIDE DEF j
    <3>2. T \in Nat \ {0} /\ S = 2 * T
      BY <1>2, <3>1
    <3>3. y * T \in Nat /\ y * S = 2 * (y * T)
      BY <1>1, <3>2
    <3>4. y * T <= x /\ x < 2 * (y * T) /\ y * T < WW
      BY <1>1, <1>2, <1>6, <2>3, <2>7, <3>3
    <3>5. Shifted(den, j) \in Pairs /\ OfPair(Shifted(den, j)) = y * T
      BY <1>4, <3>1, <3>4 DEF y
    <3>6. q >= 0 /\ q \in -w .. w
      BY <1>2, <3>1
    <3>. QED  BY <1>1, <1>2, <3>1, <3>4, <3>5, <3>6 DEF x, y, q, w
  <2>8. CASE x < y * S /\ k = 0
    <3>1. q = -1 /\ S = 1
      BY <1>2, <2>2, <2>5, <2>8
    <3>2. 2 ^ 1 = 2 /\ 1 \in 0 .. w /\ -1 \in -w .. w
      <4>1. 0 \in 0 .. w - 1 /\ 1 \in 0 .. w /\ 0 + 1 = 1 /\ -1 \in -w .. w
        BY <1>2, <1>3
      <4>2. 2 ^ (0 + 1) = 2 * 2 ^ 0
        BY <1>2, <4>1
      <4>. QED  BY <1>2, <4>1, <4>2
    <3>3. x < y /\ y < 2 * x
      BY <1>1, <2>3, <2>8, <3>1
    <3>4. Shifted(num, 1) \in Pairs /\ OfPair(Shifted(num, 1)) = x * 2
      <4>1. x * 2 < WW
        BY <1>1, <1>2, <3>3
      <4>2. OfPair(num) * 2 ^ 1 < WW
        BY <3>2, <4>1 DEF x
      <4> DEFINE one == 1
      <4>3. one \in 0 .. w /\ OfPair(num) * 2 ^ one < WW /\ OfPair(num) * 2 ^ one = x * 2
        BY <3>2, <4>2 DEF x
      <4> HIDE DEF one
      <4>4. Shifted(num, one) \in Pairs /\ OfPair(Shifted(num, one)) = OfPair(num) * 2 ^ one
        BY <1>4, <4>3
      <4>5. Shifted(num, one) \in Pairs /\ OfPair(Shifted(num, one)) = x * 2
        BY <4>3, <4>4
      <4>. QED  BY <4>5, Zenon DEF one
    <3>5. -q = 1 /\ ~(q >= 0)
      <4>1. q + 1 = 0 /\ q \in Int
        BY <3>1
      <4>. QED  BY <4>1
    <3>. QED  BY <1>1, <1>2, <3>1, <3>2, <3>3, <3>4, <3>5 DEF x, y, q, w
  <2>. QED  BY <2>1, <2>6, <2>7, <2>8
<1>8. CASE l < m
  <2> DEFINE k == m - l
             S == 2 ^ k
  <2>1. k \in 1 .. w - 1 /\ k \in 0 .. w /\ k = m - l /\ S \in Nat \ {0} /\ B = A * S
    <3>1. k \in 1 .. w - 1 /\ k \in 0 .. w /\ m - 1 \in 0 .. w /\ l - 1 \in 0 .. w /\ (l - 1) + k = m - 1 /\ m - 1 <= w
      BY <1>2, <1>3, <1>8
    <3> HIDE DEF k
    <3>2. 2 ^ ((l - 1) + k) = 2 ^ (l - 1) * 2 ^ k
      BY <1>2, <3>1
    <3>. QED  BY <1>2, <3>1, <3>2 DEF k
  <2>2. q = IF Less(Shifted(num, k), den) THEN -k - 1 ELSE -k
    <3>1. -(l - m) = k /\ l - m = -k /\ ~(l - m >= 0)
      BY <1>3, <1>8
    <3>. QED  BY <1>5, <3>1
  <2> HIDE DEF k
  <2>3. x * S < 2 * y /\ y < 2 * (x * S) /\ x * S < 2 * B /\ x * S \in Nat
    <3> HIDE DEF A, B, S
    <3>. QED  BY <1>1, <1>6, <2>1, Leads
  <2>4. Shifted(num, k) \in Pairs /\ OfPair(Shifted(num, k)) = x * S
    <3>1. x * S < WW
      BY <1>2, <1>6, <2>3
    <3>. QED  BY <1>4, <2>1, <3>1 DEF x
  <2>5. Less(Shifted(num, k), den) <=> x * S < y
    BY <2>4, LessIsLess DEF y
  <2>6. CASE ~(x * S < y)
    <3>1. q = -k
      BY <2>2, <2>5, <2>6
    <3>2. y <= x * S
      BY <1>1, <2>3, <2>6
    <3>3. ~(q >= 0) /\ q \in -w .. w /\ -q = k
      BY <2>1, <1>2, <3>1
    <3>. QED  BY <1>1, <1>2, <2>1, <2>3, <2>4, <3>1, <3>2, <3>3 DEF x, y, q, w
  <2>7. CASE x * S < y
    <3> DEFINE j == k + 1
               T == 2 ^ j
    <3>1. q = -j /\ j \in 0 .. w /\ k \in 0 .. w - 1
      BY <1>2, <2>1, <2>2, <2>5, <2>7
    <3>2. T \in Nat \ {0} /\ T = 2 * S
      BY <1>2, <3>1
    <3> HIDE DEF j
    <3>3. x * T \in Nat /\ x * T = 2 * (x * S)
      BY <1>1, <2>1, <3>2
    <3>4. y <= x * T /\ x * T < 2 * y /\ x * T < WW
      BY <1>1, <1>2, <2>3, <2>7, <3>3
    <3>5. Shifted(num, j) \in Pairs /\ OfPair(Shifted(num, j)) = x * T
      BY <1>4, <3>1, <3>4 DEF x
    <3>6. ~(q >= 0) /\ q \in -w .. w /\ -q = j
      BY <1>2, <2>1, <3>1 DEF j
    <3>. QED  BY <1>1, <1>2, <3>1, <3>4, <3>5, <3>6 DEF x, y, q, w
  <2>. QED  BY <1>1, <2>1, <2>3, <2>6, <2>7
<1>. QED  BY <1>3, <1>7, <1>8

\* n * p divided by d with a quotient of as many bits as p has: u, and v left.
BitwiseQuotient(n, d, p, u, v) == n * p = u * d + v /\ p <= u /\ u < 2 * p
LEMMA BitsDouble ==
  ASSUME NEW n \in Nat, NEW d \in Nat, NEW p \in Nat, NEW u \in Nat, NEW v \in Nat, BitwiseQuotient(n, d, p, u, v),
         NEW bit \in Nat, bit <= 1, NEW y \in Nat, 2 * v = bit * d + y
  PROVE  BitwiseQuotient(n, d, 2 * p, 2 * u + bit, y)
<1>1. n * (2 * p) = 2 * (n * p) /\ (2 * u + bit) * d = 2 * (u * d) + bit * d
  OBVIOUS
<1>2. n * p = u * d + v /\ p <= u /\ u < 2 * p
  BY DEF BitwiseQuotient
<1>3. n * (2 * p) = (2 * u + bit) * d + y /\ 2 * p <= 2 * u + bit /\ 2 * u + bit < 2 * (2 * p)
  BY <1>1, <1>2
<1>. QED  BY <1>3 DEF BitwiseQuotient

\* One bit more of the quotient: what is left stays below the divisor.
Below(d) == {a \in Pairs : OfPair(a) < d}
Remainders(d) == [rem : Below(d), quo : Nat]
LEMMA NextBitIs ==
  ASSUME NEW den \in Pairs, NEW d \in Nat \ {0}, d = OfPair(den), 2 * d <= Word * Word,
         NEW r \in Remainders(d)
  PROVE  /\ NextBit(r, den) \in Remainders(d)
         /\ \E bit \in {0, 1} :
              /\ NextBit(r, den).quo = 2 * r.quo + bit
              /\ 2 * OfPair(r.rem) = bit * d + OfPair(NextBit(r, den).rem)
<1> DEFINE t == Twice(r.rem)
           WW == Word * Word
<1>1. r.rem \in Pairs /\ OfPair(r.rem) < d /\ OfPair(r.rem) \in Nat /\ r.quo \in Nat
  BY PairIs DEF Remainders, Below
<1>2. t \in Pairs /\ OfPair(t) = 2 * OfPair(r.rem) /\ OfPair(t) \in Nat
  <2>1. WW \in Nat
    BY Sizes
  <2> HIDE DEF WW
  <2>2. 2 * OfPair(r.rem) < WW
    BY <1>1, <2>1 DEF WW
  <2>. QED  BY <1>1, <2>2, TwiceFits DEF WW
<1> HIDE DEF t, WW
<1>3. Less(t, den) <=> OfPair(t) < d
  BY <1>2, LessIsLess
<1>4. NextBit(r, den) = [rem |-> Subtracted(t, den)[1], quo |-> 2 * r.quo + Subtracted(t, den)[2]]
  BY DEF NextBit, t
<1>5. CASE Less(t, den)
  <2>1. NextBit(r, den) = [rem |-> t, quo |-> 2 * r.quo + 0]
    BY <1>4, <1>5 DEF Subtracted
  <2>2. NextBit(r, den) \in Remainders(d)
    BY <1>1, <1>2, <1>3, <1>5, <2>1 DEF Remainders, Below
  <2>3. 2 * OfPair(r.rem) = 0 * d + OfPair(NextBit(r, den).rem) /\ NextBit(r, den).quo = 2 * r.quo + 0
    BY <1>1, <1>2, <2>1
  <2>. QED  BY <2>2, <2>3
<1>6. CASE ~Less(t, den)
  <2>1. NextBit(r, den) = [rem |-> Difference(t, den), quo |-> 2 * r.quo + 1]
    BY <1>4, <1>6 DEF Subtracted
  <2>2. Difference(t, den) \in Pairs /\ OfPair(Difference(t, den)) = OfPair(t) - d
    BY <1>2, <1>6, DifferenceIsDifference
  <2>3. OfPair(t) - d < d
    BY <1>1, <1>2
  <2>4. NextBit(r, den) \in Remainders(d)
    BY <1>1, <2>1, <2>2, <2>3 DEF Remainders, Below
  <2>5. 2 * OfPair(r.rem) = 1 * d + OfPair(NextBit(r, den).rem) /\ NextBit(r, den).quo = 2 * r.quo + 1
    BY <1>1, <1>2, <2>1, <2>2
  <2>. QED  BY <2>4, <2>5
<1>. QED  BY <1>5, <1>6

(***************************************************************************)
(* The bit by bit division (the loop of ryu_tiny_mq_to_double): a quotient *)
(* of at least 1 and less than 2 with Prec + 1 bits behind the first, and  *)
(* what is left of it, both exact.                                         *)
(***************************************************************************)
THEOREM DivisionIsDivision ==
  ASSUME NEW num \in Pairs, NEW den \in Pairs, NEW n \in Nat, NEW d \in Nat \ {0},
         n = OfPair(num), d = OfPair(den), d <= n, n < 2 * d, 2 * d <= Word * Word
  PROVE  LET divided == Divide(num, den)
         IN  /\ divided.quo \in Nat /\ divided.rem \in Pairs /\ OfPair(divided.rem) < d
             /\ n * 2 ^ (Prec + 1) = divided.quo * d + OfPair(divided.rem)
             /\ 2 ^ (Prec + 1) <= divided.quo /\ divided.quo < 2 * 2 ^ (Prec + 1)
<1> DEFINE m == Prec + 1
           first == [rem |-> Difference(num, den), quo |-> 1]
           step == [x \in Nat \X Remainders(d) |-> NextBit(x[2], den)]
<1>1. /\ m \in Nat /\ \A k \in 0 .. m : 2 ^ k \in Nat \ {0}
      /\ \A k \in 0 .. m - 1 : 2 ^ (k + 1) = 2 * 2 ^ k
      /\ 2 ^ 0 = 1
  <2>1. m \in Nat /\ PowersUpTo(2, m)
    BY FormatAssumption, TinyAssumption, WordIsPower DEF PowersUpTo
  <2> HIDE DEF m
  <2>. QED  BY <2>1, TwosUpTo
<1>2. first \in Remainders(d) /\ OfPair(first.rem) = n - d /\ first.quo = 1
  <2>1. ~Less(num, den)
    BY LessIsLess
  <2>2. Difference(num, den) \in Pairs /\ OfPair(Difference(num, den)) = n - d
    BY <2>1, DifferenceIsDifference
  <2>. QED  BY <2>2 DEF Remainders, Below
<1>3. step \in [Nat \X Remainders(d) -> Remainders(d)]
  <2>1. \A r \in Remainders(d) : NextBit(r, den) \in Remainders(d)
    BY NextBitIs
  <2>. QED  BY <2>1
<1>4. PICK g \in [0 .. m -> Remainders(d)] :
        g[0] = first /\ \A k \in 1 .. m : g[k] = step[<<k, g[k - 1]>>]
  <2> HIDE DEF step, first, m
  <2>1. \E g \in [0 .. m -> Remainders(d)] : Recurs(g, first, step, m)
    BY <1>1, <1>2, <1>3, RecursionExists, Zenon
  <2>. QED  BY <2>1 DEF Recurs
<1>5. \A k \in 1 .. m : g[k] = NextBit(g[k - 1], den) /\ g[k - 1] \in Remainders(d)
  <2> TAKE k \in 1 .. m
  <2>1. k \in Nat /\ k - 1 \in 0 .. m
    BY <1>1
  <2>2. g[k - 1] \in Remainders(d)
    BY <1>4, <2>1
  <2>. QED  BY <1>4, <2>1, <2>2
<1> HIDE DEF step, first
<1>6. \A k \in 0 .. m : g[k] = IF k = 0 THEN first ELSE NextBit(g[k - 1], den)
  BY <1>4, <1>5
<1>7. \E h : h = [k \in 0 .. m |-> IF k = 0 THEN first ELSE NextBit(h[k - 1], den)]
  BY <1>4, <1>6
<1> DEFINE f == CHOOSE h : h = [k \in 0 .. m |-> IF k = 0 THEN first ELSE NextBit(h[k - 1], den)]
<1>8. f = [k \in 0 .. m |-> IF k = 0 THEN first ELSE NextBit(f[k - 1], den)]
  BY <1>7, Zenon
<1>9. Divide(num, den) = f[m]
  BY Zenon DEF Divide, first
<1> HIDE DEF f, m
<1>10. f[m] = g[m]
  <2>1. f[0] = g[0]
    BY <1>1, <1>4, <1>8
  <2>2. ASSUME NEW k \in 0 .. m - 1, f[k] = g[k] PROVE f[k + 1] = g[k + 1]
    <3>1. k + 1 \in 1 .. m /\ k + 1 \in 0 .. m /\ (k + 1) - 1 = k /\ k + 1 # 0
      BY <1>1
    <3>2. f[k + 1] = NextBit(f[k], den)
      BY <1>8, <3>1
    <3>3. g[k + 1] = NextBit(g[k], den)
      BY <1>5, <3>1
    <3>. QED  BY <2>2, <3>2, <3>3
  <2>. QED  BY <1>1, <2>1, <2>2, SameRecursion
<1> DEFINE Exact(k) == BitwiseQuotient(n, d, 2 ^ k, g[k].quo, OfPair(g[k].rem))
           S == {k \in 0 .. m : Exact(k)}
<1>11. 0 \in S
  <2>1. n * 1 = 1 * d + (n - d)
    OBVIOUS
  <2>2. g[0].quo = 1 /\ OfPair(g[0].rem) = n - d
    BY <1>2, <1>4
  <2>. QED  BY <1>1, <2>1, <2>2 DEF BitwiseQuotient
<1>12. ASSUME NEW k \in 0 .. m - 1, k \in S PROVE k + 1 \in S
  <2>1. k + 1 \in 1 .. m /\ k + 1 \in 0 .. m /\ (k + 1) - 1 = k /\ k \in 0 .. m
    BY <1>1
  <2>2. g[k + 1] = NextBit(g[k], den) /\ g[k] \in Remainders(d)
    BY <1>5, <2>1
  <2>3. PICK bit \in {0, 1} : /\ g[k + 1].quo = 2 * g[k].quo + bit
                              /\ 2 * OfPair(g[k].rem) = bit * d + OfPair(g[k + 1].rem)
    BY <2>2, NextBitIs
  <2> DEFINE p == 2 ^ k
             u == g[k].quo
             v == OfPair(g[k].rem)
             y == OfPair(g[k + 1].rem)
  <2>4. /\ p \in Nat \ {0} /\ u \in Nat /\ v \in Nat /\ y \in Nat /\ BitwiseQuotient(n, d, p, u, v)
        /\ 2 ^ (k + 1) = 2 * p /\ 2 * v = bit * d + y
    <3>1. g[k + 1] \in Remainders(d)
      BY <1>4, <2>1
    <3>2. u \in Nat /\ g[k].rem \in Pairs /\ g[k + 1].rem \in Pairs
      BY <2>2, <3>1 DEF Remainders, Below
    <3>3. v \in Nat /\ y \in Nat
      BY <3>2, PairIs
    <3>. QED  BY <1>1, <1>12, <2>1, <2>3, <3>2, <3>3
  <2>5. g[k + 1].quo = 2 * u + bit
    BY <2>3
  <2> HIDE DEF p, u, v, y
  <2>6. BitwiseQuotient(n, d, 2 * p, 2 * u + bit, y)
    <3>1. BitwiseQuotient(n, d, p, u, v)
      BY <2>4
    <3>2. d \in Nat /\ bit \in Nat /\ bit <= 1 /\ p \in Nat /\ u \in Nat /\ v \in Nat /\ y \in Nat
          /\ 2 * v = bit * d + y
      BY <2>4, SMTT(60)
    <3>. QED  BY <3>1, <3>2, BitsDouble
  <2>8. Exact(k + 1)
    BY <2>4, <2>5, <2>6 DEF y
  <2>. QED  BY <2>1, <2>8
<1>13. m \in S
  <2> HIDE DEF S
  <2>1. 0 .. m \subseteq S
    BY <1>1, <1>11, <1>12, InductionUpTo
  <2>. QED  BY <1>1, <2>1
<1>14. Exact(m) /\ g[m] \in Remainders(d)
  BY <1>1, <1>4, <1>13
<1>15. g[m].quo \in Nat /\ g[m].rem \in Pairs /\ OfPair(g[m].rem) < d
  BY <1>14 DEF Remainders, Below
<1>. QED  BY <1>9, <1>10, <1>14, <1>15 DEF m, BitwiseQuotient

---------------------------------------------------------------------------
(* The tiny parser: the format its quotients are rounded to *)

FormatMax == UnitExp + EMax + 2
LEMMA FormatIs ==
  /\ Hidden \in Nat \ {0} /\ UnitExp \in Nat /\ UnitExp = Prec - 1 - EMin /\ Bias = 1 - EMin
  /\ EMin \in Int /\ EMin <= 0 /\ EMax \in Nat /\ FormatMax \in Nat /\ FormatMax = UnitExp + EMax + 2
  /\ Prec \in Nat /\ Prec > 1
  /\ \A k \in 0 .. FormatMax : 2 ^ k \in Nat \ {0}
  /\ \A j, k \in 0 .. FormatMax : j + k <= FormatMax => 2 ^ (j + k) = 2 ^ j * 2 ^ k
  /\ \A j, k \in 0 .. FormatMax : j <= k => 2 ^ j <= 2 ^ k
  /\ \A k \in 0 .. FormatMax - 1 : 2 ^ (k + 1) = 2 * 2 ^ k
  /\ 2 ^ 0 = 1
<1>1. /\ Prec \in Nat /\ Prec > 1 /\ EMin \in Int /\ EMin <= 0 /\ EMax \in Nat /\ UnitExp = Prec - 1 - EMin
      /\ PowersUpTo(2, UnitExp + EMax + 2)
  BY FormatAssumption, RangeAssumption, TinyPowersAssumption DEF UnitExp
<1>2. UnitExp \in Nat /\ FormatMax \in Nat /\ PowersUpTo(2, FormatMax) /\ Prec - 1 \in 0 .. FormatMax
  BY <1>1 DEF FormatMax
<1>3. Hidden \in Nat \ {0}
  BY <1>2, PowerPositive DEF Hidden
<1>. QED  BY <1>1, <1>2, <1>3, TwosUpTo DEF Bias, FormatMax

\* The powers of two that the sizes of the format are.
LEMMA FormatPowers ==
  /\ 2 ^ (Prec + 1) = 4 * Hidden
  /\ -EMin \in 0 .. FormatMax /\ 2 ^ (-EMin) \in Nat \ {0}
  /\ 2 ^ (UnitExp + 1) = 2 * Hidden * 2 ^ (-EMin) /\ 2 ^ (UnitExp + 1) \in Nat \ {0}
  /\ \E h \in Nat : Hidden = 2 * h
<1>1. /\ Prec - 1 \in 0 .. FormatMax - 1 /\ (Prec - 1) + 1 = Prec /\ Prec \in 0 .. FormatMax - 1 /\ Prec - 1 \in 0 .. FormatMax
      /\ -EMin \in 0 .. FormatMax /\ (Prec - 1) + (-EMin) = UnitExp /\ UnitExp \in 0 .. FormatMax - 1
      /\ UnitExp + 1 \in 0 .. FormatMax /\ UnitExp <= FormatMax
      /\ Prec - 2 \in 0 .. FormatMax - 1 /\ (Prec - 2) + 1 = Prec - 1 /\ Prec - 2 \in 0 .. FormatMax
  BY FormatIs
<1>2. 2 ^ Prec = 2 * Hidden
  <2>1. 2 ^ ((Prec - 1) + 1) = 2 * 2 ^ (Prec - 1)
    BY <1>1, FormatIs
  <2>. QED  BY <1>1, <2>1 DEF Hidden
<1>3. 2 ^ (Prec + 1) = 2 * 2 ^ Prec
  BY <1>1, FormatIs
<1>4. 2 ^ UnitExp = Hidden * 2 ^ (-EMin)
  <2>1. 2 ^ ((Prec - 1) + (-EMin)) = 2 ^ (Prec - 1) * 2 ^ (-EMin)
    BY <1>1, FormatIs
  <2>. QED  BY <1>1, <2>1 DEF Hidden
<1>5. 2 ^ (UnitExp + 1) = 2 * 2 ^ UnitExp
  BY <1>1, FormatIs
<1>6. 2 ^ (Prec - 2) \in Nat /\ Hidden = 2 * 2 ^ (Prec - 2)
  <2>1. 2 ^ (Prec - 2) \in Nat \ {0} /\ 2 ^ ((Prec - 2) + 1) = 2 * 2 ^ (Prec - 2)
    BY <1>1, FormatIs
  <2>. QED  BY <1>1, <2>1 DEF Hidden
<1>7. Hidden \in Nat /\ 2 ^ (-EMin) \in Nat \ {0} /\ 2 ^ (UnitExp + 1) \in Nat \ {0}
  BY <1>1, FormatIs
<1> DEFINE t == 2 ^ (-EMin)
<1>8. 2 * (Hidden * t) = 2 * Hidden * t
  <2>1. t \in Nat /\ Hidden \in Nat
    BY <1>7
  <2> HIDE DEF t
  <2>. QED  BY <2>1
<1>9. 2 * (2 * Hidden) = 4 * Hidden
  BY <1>7
<1>. QED  BY <1>1, <1>2, <1>3, <1>4, <1>5, <1>6, <1>7, <1>8, <1>9

\* The magnitude of a normal number and the next one, as multiples of the unit.
Coded(q, f) == (q + Bias) * Hidden + (f - Hidden)
LEMMA NormalUnits ==
  ASSUME NEW q \in EMin .. EMax, NEW f \in Hidden .. 2 * Hidden - 1
  PROVE  /\ Coded(q, f) \in Nat \ {0} /\ 2 ^ (q - EMin) \in Nat \ {0}
         /\ Units(Coded(q, f)) = f * 2 ^ (q - EMin)
         /\ Units(Coded(q, f) + 1) = (f + 1) * 2 ^ (q - EMin)
         /\ Units(Coded(q, f)) < Units(Coded(q, f) + 1)
<1> DEFINE H == Hidden
           p == q + Bias
           g == f - H
           s == 2 ^ (q - EMin)
<1>1. H \in Nat \ {0} /\ g \in 0 .. H - 1 /\ p \in Nat /\ p >= 1 /\ f = H + g /\ q - EMin = p - 1
      /\ q - EMin \in 0 .. FormatMax - 1 /\ q - EMin \in 0 .. FormatMax /\ f \in Nat
  BY FormatIs
<1>2. s \in Nat \ {0} /\ 2 ^ ((q - EMin) + 1) = 2 * s
  BY <1>1, FormatIs
<1>3. \A k, r \in Nat : k >= 1 /\ r <= H - 1 =>
        Units(k * H + r) = (H + r) * 2 ^ (k - 1)
  <2> SUFFICES ASSUME NEW k \in Nat, NEW r \in Nat, k >= 1, r <= H - 1
               PROVE  Units(k * H + r) = (H + r) * 2 ^ (k - 1)
    OBVIOUS
  <2> DEFINE b == k * H + r
  <2>1. k * H \in Nat
    BY <1>1
  <2>2. b - k * H \in 0 .. H - 1 /\ b \in Int /\ b - k * H = r
    BY <1>1, <2>1
  <2> HIDE DEF b
  <2>3. b % H = r /\ b \div H = k
    BY <1>1, <2>2, Modulo
  <2>4. k # 0
    OBVIOUS
  <2>5. Units(b) = (H + r) * 2 ^ (k - 1)
    BY <2>3, <2>4, Zenon DEF Units
  <2>. QED  BY <2>5 DEF b
<1>4. Coded(q, f) = p * H + g
  BY DEF Coded
<1> HIDE DEF H, g, p, s
<1>5. Units(Coded(q, f)) = f * s
  <2>1. Units(p * H + g) = (H + g) * 2 ^ (p - 1)
    BY <1>1, <1>3
  <2>2. 2 ^ (p - 1) = s
    BY <1>1 DEF s
  <2>. QED  BY <1>1, <1>4, <2>1, <2>2
<1>6. Units(Coded(q, f) + 1) = (f + 1) * s
  <2>1. CASE g < H - 1
    <3>1. g + 1 \in Nat /\ g + 1 <= H - 1 /\ H + (g + 1) = f + 1
      BY <1>1, <2>1
    <3>2. Units(p * H + (g + 1)) = (H + (g + 1)) * 2 ^ (p - 1)
      BY <1>1, <1>3, <3>1
    <3>3. 2 ^ (p - 1) = s
      BY <1>1 DEF s
    <3>4. Coded(q, f) + 1 = p * H + (g + 1)
      BY <1>1, <1>4
    <3>. QED  BY <3>1, <3>2, <3>3, <3>4
  <2>2. CASE g = H - 1
    <3>1. p + 1 \in Nat /\ p + 1 >= 1 /\ 0 <= H - 1 /\ f + 1 = 2 * H /\ (p + 1) - 1 = (q - EMin) + 1
      BY <1>1, <2>2
    <3>2. Units((p + 1) * H + 0) = (H + 0) * 2 ^ ((p + 1) - 1)
      BY <1>3, <3>1
    <3>3. 2 ^ ((p + 1) - 1) = 2 * s
      BY <1>2, <3>1
    <3>4. Coded(q, f) + 1 = (p + 1) * H + 0 /\ H + 0 = H
      BY <1>1, <1>4, <2>2
    <3>5. H * (2 * s) = (2 * H) * s
      BY <1>1, <1>2
    <3>. QED  BY <3>1, <3>2, <3>3, <3>4, <3>5
  <2>. QED  BY <1>1, <2>1, <2>2
<1>7. f * s < (f + 1) * s
  BY <1>1, <1>2, Products
<1>8. Coded(q, f) \in Nat \ {0}
  <2>1. 1 * H <= p * H /\ p * H \in Nat
    BY <1>1
  <2>. QED  BY <1>1, <1>4, <2>1
<1>. QED  BY <1>2, <1>5, <1>6, <1>7, <1>8 DEF s

\* The one below it.
LEMMA UnitsBelow ==
  ASSUME NEW q \in EMin .. EMax, NEW f \in Hidden .. 2 * Hidden - 1
  PROVE  Units(Coded(q, f) - 1) < Units(Coded(q, f)) /\ Units(Coded(q, f) - 1) \in Nat
<1> DEFINE H == Hidden
           c == Coded(q, f)
<1>1. H \in Nat \ {0} /\ EMin \in Int /\ EMax \in Int /\ q \in Int /\ f \in Nat /\ c = (q + Bias) * H + (f - H)
      /\ Bias = 1 - EMin /\ f \in H .. 2 * H - 1
  BY FormatIs DEF Coded
<1>2. \A r \in EMin .. EMax, g \in H .. 2 * H - 1 : Coded(r, g) + 1 = c =>
        Units(c - 1) < Units(c) /\ Units(c - 1) \in Nat
  <2> SUFFICES ASSUME NEW r \in EMin .. EMax, NEW g \in H .. 2 * H - 1, Coded(r, g) + 1 = c
               PROVE  Units(c - 1) < Units(c) /\ Units(c - 1) \in Nat
    OBVIOUS
  <2>1. Coded(r, g) \in Nat /\ 2 ^ (r - EMin) \in Nat /\ Units(Coded(r, g)) = g * 2 ^ (r - EMin)
        /\ Units(Coded(r, g)) < Units(Coded(r, g) + 1)
    BY NormalUnits
  <2>2. c - 1 = Coded(r, g)
    BY <2>1
  <2>3. g * 2 ^ (r - EMin) \in Nat
    BY <1>1, <2>1
  <2>. QED  BY <2>1, <2>2, <2>3
<1>3. CASE f > H
  <2>1. f - 1 \in H .. 2 * H - 1
    BY <1>1, <1>3
  <2>2. Coded(q, f - 1) + 1 = c
    <3>1. (q + Bias) * H \in Int
      BY <1>1
    <3>. QED  BY <1>1, <3>1 DEF Coded
  <2>. QED  BY <1>2, <2>1, <2>2
<1>4. CASE f = H /\ q > EMin
  <2>1. 2 * H - 1 \in H .. 2 * H - 1 /\ q - 1 \in EMin .. EMax
    BY <1>1, <1>4
  <2>2. Coded(q - 1, 2 * H - 1) + 1 = c
    <3>1. Coded(q - 1, 2 * H - 1) = (q - 1 + Bias) * H + (2 * H - 1 - H)
      BY DEF Coded
    <3>2. (q + Bias) * H = (q - 1 + Bias) * H + H /\ (q - 1 + Bias) * H \in Int
      BY <1>1
    <3>. QED  BY <1>1, <1>4, <3>1, <3>2
  <2>. QED  BY <1>2, <2>1, <2>2
<1>5. CASE f = H /\ q = EMin
  <2>1. c = H
    <3>1. q + Bias = 1 /\ 1 * H = H
      BY <1>1, <1>5
    <3>2. c = 1 * H + (H - H)
      BY <1>1, <1>5, <3>1
    <3>. QED  BY <1>1, <3>2
  <2> DEFINE b == c - 1
  <2>2. b = H - 1 /\ b \in Int /\ b - 0 * H \in 0 .. H - 1
    BY <1>1, <2>1
  <2> HIDE DEF b
  <2>3. b \div H = 0 /\ b % H = b - 0 * H
    BY <1>1, <2>2, Modulo
  <2>4. Units(b) = b
    BY <1>1, <2>2, <2>3 DEF Units
  <2>5. Units(c) = H * 1
    <3>1. Units(c) = f * 2 ^ (q - EMin)
      BY NormalUnits
    <3>2. q - EMin = 0
      BY <1>1, <1>5
    <3>3. 2 ^ (q - EMin) = 1
      BY <3>2, FormatIs
    <3>. QED  BY <1>5, <3>1, <3>3
  <2>. QED  BY <1>1, <2>2, <2>4, <2>5 DEF b
<1>. QED  BY <1>1, <1>3, <1>4, <1>5 DEF c

\* Within the limits nothing is past the ends of the format.
LEMMA LimitsFit ==
  /\ InfBits = Coded(EMax, 2 * Hidden - 1) + 1
  /\ 10 ^ MaxSigDigits <= 2 * Units(InfBits)
<1>1. Hidden \in Nat \ {0} /\ EMin \in Int /\ EMin <= 0 /\ EMax \in Nat /\ Bias = 1 - EMin
  BY FormatIs
<1> DEFINE last == Coded(EMax, 2 * Hidden - 1)
<1>2. InfBits = last + 1
  <2>1. (EMax + Bias + 1) * Hidden = (EMax + Bias) * Hidden + Hidden /\ (EMax + Bias) * Hidden \in Int
    BY <1>1
  <2>2. last = (EMax + Bias) * Hidden + (2 * Hidden - 1 - Hidden)
    BY DEF Coded
  <2>. QED  BY <1>1, <2>1, <2>2 DEF InfBits
<1>3. Units(last + 1) = (2 * Hidden) * 2 ^ (EMax - EMin)
  <2>1. EMax \in EMin .. EMax /\ 2 * Hidden - 1 \in Hidden .. 2 * Hidden - 1 /\ (2 * Hidden - 1) + 1 = 2 * Hidden
    BY <1>1
  <2>2. Units(Coded(EMax, 2 * Hidden - 1) + 1) = ((2 * Hidden - 1) + 1) * 2 ^ (EMax - EMin)
    BY <2>1, NormalUnits
  <2>. QED  BY <2>1, <2>2
<1>4. 2 ^ EMax <= 2 ^ (EMax - EMin) /\ 2 ^ EMax \in Nat /\ 2 ^ (EMax - EMin) \in Nat
  <2>1. EMax \in 0 .. FormatMax /\ EMax - EMin \in 0 .. FormatMax /\ EMax <= EMax - EMin
    BY FormatIs
  <2>. QED  BY <2>1, FormatIs
<1>5. 10 ^ MaxSigDigits <= 10 ^ (MaxSigDigits + MaxExp10) /\ 10 ^ MaxSigDigits \in Nat
      /\ 10 ^ (MaxSigDigits + MaxExp10) \in Nat /\ 10 ^ (MaxSigDigits + MaxExp10) <= 2 ^ EMax
  <2> DEFINE m == MaxSigDigits + MaxExp10
  <2>1. MaxSigDigits \in 0 .. m /\ m \in 0 .. m /\ MaxSigDigits <= m
    BY TinyPowers
  <2>2. \A j, k \in 0 .. m : j <= k => 10 ^ j <= 10 ^ k
    BY TinyPowers
  <2>3. \A k \in 0 .. m : 10 ^ k \in Nat
    BY TinyPowers
  <2>4. 10 ^ m <= 2 ^ EMax
    BY RangeAssumption
  <2> HIDE DEF m
  <2>5. 10 ^ MaxSigDigits <= 10 ^ m /\ 10 ^ MaxSigDigits \in Nat /\ 10 ^ m \in Nat
    BY <2>1, <2>2, <2>3
  <2>. QED  BY <2>4, <2>5 DEF m
<1> DEFINE x == 2 ^ (EMax - EMin)
<1>6. x <= 2 * ((2 * Hidden) * x)
  <2>1. x \in Nat
    BY <1>4
  <2> HIDE DEF x
  <2>2. 2 * ((2 * Hidden) * x) = (4 * Hidden) * x /\ 1 * x <= (4 * Hidden) * x /\ 1 * x = x
    BY <1>1, <2>1
  <2>. QED  BY <2>1, <2>2
<1>7. 10 ^ MaxSigDigits <= x
  BY <1>4, <1>5
<1>8. (2 * Hidden) * x \in Nat
  BY <1>1, <1>4
<1>. QED  BY <1>2, <1>3, <1>4, <1>5, <1>6, <1>7, <1>8

\* A number within the limits as a quotient in half units: what rounding asks of it.
Over(m, e) == (m * 2 ^ (UnitExp + 1)) * (IF e >= 0 THEN 10 ^ e ELSE 1)
Under(e) == IF e >= 0 THEN 1 ELSE 10 ^ (-e)
LEMMA RoundingAsks ==
  ASSUME NEW m \in 0 .. 10 ^ MaxSigDigits - 1, NEW e \in -MaxExp10 .. MaxExp10
  PROVE  /\ Over(m, e) \in Nat /\ Under(e) \in Nat \ {0}
         /\ \A c : Units(c) \in Nat /\ Units(c + 1) \in Nat =>
              (RoundsPast(m, e, c) <=>
                 \/ (Units(c) + Units(c + 1)) * Under(e) < Over(m, e)
                 \/ (Units(c) + Units(c + 1)) * Under(e) = Over(m, e) /\ c % 2 = 1)
         /\ \A c : Units(c) \in Nat => (IsExactly(m, e, c) <=> Over(m, e) = (2 * Units(c)) * Under(e))
<1> DEFINE scaled == m * 2 ^ (UnitExp + 1)
           A == Over(m, e)
           D == Under(e)
           x == A \div D
           y == A % D
<1>1. /\ MaxExp10 \in Nat /\ e \in Int /\ MaxExp10 <= SmallExp10 /\ MaxExp10 <= LargeExp10
      /\ SmallExp10 \in Nat /\ LargeExp10 \in Nat /\ m \in Nat /\ scaled \in Nat
      /\ \A k \in 0 .. MaxExp10 : 10 ^ k \in Nat \ {0}
      /\ m < 10 ^ MaxSigDigits /\ 10 ^ MaxSigDigits \in Nat
  <2>1. 10 ^ MaxSigDigits \in Nat /\ \A k \in 0 .. MaxExp10 : 10 ^ k \in Nat \ {0}
    <3>1. MaxSigDigits \in 0 .. MaxSigDigits + MaxExp10 /\ \A k \in 0 .. MaxExp10 : k \in 0 .. MaxSigDigits + MaxExp10
      BY TinyPowers
    <3>. QED  BY <3>1, TinyPowers
  <2>2. m \in Nat /\ m < 10 ^ MaxSigDigits
    BY <2>1
  <2>3. scaled \in Nat
    BY <2>2, FormatPowers
  <2>. QED  BY <2>1, <2>2, <2>3, TinyAssumption, RangeAssumption, FormatAssumption
<1>2. A \in Nat /\ D \in Nat \ {0}
  <2>1. CASE e >= 0
    <3>1. e \in 0 .. MaxExp10 /\ A = scaled * 10 ^ e /\ D = 1
      BY <1>1, <2>1 DEF Over, Under
    <3>2. 10 ^ e \in Nat
      BY <1>1, <3>1
    <3>. QED  BY <1>1, <3>1, <3>2
  <2>2. CASE e < 0
    <3>1. -e \in 0 .. MaxExp10 /\ A = scaled * 1 /\ D = 10 ^ (-e)
      BY <1>1, <2>2 DEF Over, Under
    <3>2. 10 ^ (-e) \in Nat \ {0}
      BY <1>1, <3>1
    <3>. QED  BY <1>1, <3>1, <3>2
  <2>. QED  BY <1>1, <2>1, <2>2
<1>3. HalfUnits(m, e) = x /\ (Leftover(m, e) <=> y # 0)
  <2>1. CASE e >= 0
    <3>1. A = scaled * 10 ^ e /\ D = 1
      BY <2>1 DEF Over, Under
    <3>2. ~(e < 0) /\ ~(e > LargeExp10)
      BY <1>1, <2>1
    <3>3. Units(InfBits) \in Nat
      <4>1. EMax \in EMin .. EMax /\ 2 * Hidden - 1 \in Hidden .. 2 * Hidden - 1 /\ Hidden \in Nat /\ EMin \in Int /\ EMax \in Nat
        BY FormatIs
      <4>2. Units(InfBits) = ((2 * Hidden - 1) + 1) * 2 ^ (EMax - EMin) /\ 2 ^ (EMax - EMin) \in Nat
        BY <4>1, LimitsFit, NormalUnits
      <4>. QED  BY <4>1, <4>2
    <3>4. ~(m > 2 * Units(InfBits))
      BY <1>1, <3>3, LimitsFit
    <3>5. HalfUnits(m, e) = scaled * 10 ^ e
      BY <2>1, <3>2, <3>4 DEF HalfUnits
    <3>6. A \div 1 = A /\ A % 1 = 0
      BY <1>2
    <3>7. ~Leftover(m, e)
      BY <3>2 DEF Leftover
    <3>. QED  BY <3>1, <3>5, <3>6, <3>7
  <2>2. CASE e < 0
    <3>1. A = scaled /\ D = 10 ^ (-e)
      <4>1. A = scaled * 1 /\ D = 10 ^ (-e)
        BY <1>1, <2>2 DEF Over, Under
      <4>. QED  BY <1>1, <4>1
    <3>2. ~(e < -SmallExp10) /\ ~(e >= 0)
      BY <1>1, <2>2
    <3>3. (IF e < -SmallExp10 THEN SmallExp10 ELSE -e) = -e
      BY <3>2
    <3>4. HalfUnits(m, e) = scaled \div 10 ^ (-e)
      BY <2>2, <3>2, <3>3 DEF HalfUnits
    <3>5. Leftover(m, e) <=> scaled % 10 ^ (-e) # 0
      BY <2>2, <3>3 DEF Leftover
    <3>. QED  BY <3>1, <3>4, <3>5
  <2>. QED  BY <1>1, <2>1, <2>2
<1>4. x \in Nat /\ y \in Nat /\ y < D /\ A = x * D + y
  <2> HIDE DEF A, D
  <2>1. x \in Int /\ y \in 0 .. D - 1 /\ A = D * x + y
    <3>1. A \in Int /\ D \in Nat \ {0}
      BY <1>2
    <3>. QED  BY <3>1, IntDivMod, Zenon
  <2>2. x >= 0
    <3> SUFFICES ASSUME x <= -1 PROVE FALSE
      BY <2>1
    <3> HIDE DEF x, y
    <3>1. D * x <= D * (-1)
      BY <1>2, <2>1
    <3>. QED  BY <1>2, <2>1, <3>1
  <2> HIDE DEF x, y
  <2>. QED  BY <1>2, <2>1, <2>2
<1> HIDE DEF A, D, x, y
<1>5. \A z \in Nat : /\ (z < x \/ (z = x /\ y # 0)) <=> z * D < A
                     /\ (z = x /\ y = 0) <=> z * D = A
  <2> SUFFICES ASSUME NEW z \in Nat
               PROVE  /\ (z < x \/ (z = x /\ y # 0)) <=> z * D < A
                      /\ (z = x /\ y = 0) <=> z * D = A
    OBVIOUS
  <2>1. CASE z < x
    <3>1. z * D + D <= x * D
      BY <1>2, <1>4, <2>1, Products
    <3>2. z * D \in Nat /\ x * D \in Nat
      BY <1>2, <1>4
    <3>. QED  BY <1>2, <1>4, <2>1, <3>1, <3>2
  <2>2. CASE z = x
    <3>1. x * D \in Nat
      BY <1>2, <1>4
    <3>. QED  BY <1>4, <2>2, <3>1
  <2>3. CASE z > x
    <3>1. x * D + D <= z * D
      BY <1>2, <1>4, <2>3, Products
    <3>2. z * D \in Nat /\ x * D \in Nat
      BY <1>2, <1>4
    <3>. QED  BY <1>2, <1>4, <2>3, <3>1, <3>2
  <2>. QED  BY <1>4, <2>1, <2>2, <2>3
<1>6. ASSUME NEW c, Units(c) \in Nat, Units(c + 1) \in Nat
      PROVE  RoundsPast(m, e, c) <=>
                 \/ (Units(c) + Units(c + 1)) * D < A
                 \/ (Units(c) + Units(c + 1)) * D = A /\ c % 2 = 1
  <2> DEFINE z == Units(c) + Units(c + 1)
  <2>1. z \in Nat
    BY <1>6
  <2>2. RoundsPast(m, e, c) <=> x > z \/ (x = z /\ (y # 0 \/ c % 2 = 1))
    BY <1>3 DEF RoundsPast
  <2> HIDE DEF z
  <2>3. RoundsPast(m, e, c) <=> z * D < A \/ (z * D = A /\ c % 2 = 1)
    BY <1>4, <1>5, <2>1, <2>2
  <2>. QED  BY <2>3 DEF z
<1>7. ASSUME NEW c, Units(c) \in Nat
      PROVE  IsExactly(m, e, c) <=> A = (2 * Units(c)) * D
  <2> DEFINE z == 2 * Units(c)
  <2>1. z \in Nat
    BY <1>7
  <2>2. IsExactly(m, e, c) <=> y = 0 /\ x = z
    BY <1>3 DEF IsExactly
  <2> HIDE DEF z
  <2>3. IsExactly(m, e, c) <=> z * D = A
    BY <1>4, <1>5, <2>1, <2>2
  <2>. QED  BY <2>3 DEF z
<1>. QED  BY <1>2, <1>6, <1>7 DEF A, D

\* Where a number lies among the half steps around a quotient, as a statement on numbers.
LEMMA AmongHalves ==
  ASSUME NEW W \in Nat \ {0}, NEW A \in Nat, NEW down \in Nat, NEW last \in 0 .. 3, NEW z \in Nat, z < W,
         2 * A = (4 * down + last) * W + z
  PROVE  /\ (2 * down + 1) * W < A <=> last = 3 \/ (last = 2 /\ z # 0)
         /\ (2 * down + 1) * W = A <=> last = 2 /\ z = 0
         /\ (2 * down) * W <= A /\ A < (2 * down + 2) * W
         /\ (2 * down) * W = A <=> last = 0 /\ z = 0
<1> DEFINE p == down * W
<1>1. /\ (4 * down + last) * W = 4 * p + last * W /\ (2 * down + 1) * W = 2 * p + W
      /\ (2 * down) * W = 2 * p /\ (2 * down + 2) * W = 2 * p + 2 * W /\ p \in Nat
  OBVIOUS
<1> HIDE DEF p
<1>2. 2 * A = 4 * p + last * W + z
  BY <1>1
<1>3. CASE last = 0
  BY <1>1, <1>2, <1>3
<1>4. CASE last = 1
  BY <1>1, <1>2, <1>4
<1>5. CASE last = 2
  BY <1>1, <1>2, <1>5
<1>6. CASE last = 3
  BY <1>1, <1>2, <1>6
<1>. QED  BY <1>3, <1>4, <1>5, <1>6

\* m * 10^e leads at 2^q, with down as its significand, two bits more in last and rem left.
QuotientOf(m, e, q, down, last, rem) ==
  \E d, t \in Nat \ {0} : /\ rem < d /\ 2 ^ (q - EMin) * Under(e) = d * t
                         /\ 2 * Over(m, e) = ((4 * down + last) * d + rem) * t
RoundsUp(down, last, rem) == last = 3 \/ (last = 2 /\ (rem # 0 \/ down % 2 = 1))
RoundedBits(q, down, last, rem) == IF RoundsUp(down, last, rem) THEN Coded(q, down) + 1 ELSE Coded(q, down)

(***************************************************************************)
(* Rounding a quotient of Prec + 2 bits and what is left of it to the      *)
(* nearest number, ties to even, and telling whether anything was lost.    *)
(***************************************************************************)
LEMMA QuotientRounds ==
  ASSUME NEW m \in 0 .. 10 ^ MaxSigDigits - 1, NEW e \in -MaxExp10 .. MaxExp10,
         NEW q \in EMin .. EMax - 1, NEW down \in Hidden .. 2 * Hidden - 1, NEW last \in 0 .. 3,
         NEW rem \in Nat, QuotientOf(m, e, q, down, last, rem)
  PROVE  LET bits == RoundedBits(q, down, last, rem)
         IN  IsNearest(m, e, bits) /\ (IsExactly(m, e, bits) <=> last = 0 /\ rem = 0)
<1>. PICK d \in Nat \ {0}, t \in Nat \ {0} :
       /\ rem < d /\ 2 ^ (q - EMin) * Under(e) = d * t
       /\ 2 * Over(m, e) = ((4 * down + last) * d + rem) * t
  BY DEF QuotientOf
<1> DEFINE s == 2 ^ (q - EMin)
           c == Coded(q, down)
           A == Over(m, e)
           up == RoundsUp(down, last, rem)
           D == Under(e)
           W == d * t
           z == rem * t
<1>1. /\ EMin \in Int /\ EMax \in Nat /\ Hidden \in Nat \ {0} /\ q \in EMin .. EMax /\ q \in Int
      /\ down \in Nat /\ A \in Nat /\ D \in Nat \ {0}
  BY FormatIs, RoundingAsks
<1>2. /\ s \in Nat \ {0} /\ c \in Nat \ {0} /\ Units(c) = down * s /\ Units(c + 1) = (down + 1) * s
      /\ Units(c) \in Nat /\ Units(c + 1) \in Nat /\ Units(c - 1) \in Nat /\ Units(c - 1) < Units(c)
  <2>1. s \in Nat \ {0} /\ c \in Nat \ {0} /\ Units(c) = down * s /\ Units(c + 1) = (down + 1) * s
    BY <1>1, NormalUnits
  <2>2. Units(c - 1) \in Nat /\ Units(c - 1) < Units(c)
    BY <1>1, UnitsBelow
  <2> HIDE DEF s, c
  <2>3. down * s \in Nat /\ (down + 1) * s \in Nat
    BY <1>1, <2>1
  <2>. QED  BY <2>1, <2>2, <2>3
<1>3. Units(c + 2) \in Nat /\ Units(c + 1) < Units(c + 2)
  <2>1. PICK r \in EMin .. EMax, f \in Hidden .. 2 * Hidden - 1 : Coded(r, f) = c + 1
    <3>1. CASE down < 2 * Hidden - 1
      <4>1. down + 1 \in Hidden .. 2 * Hidden - 1
        BY <1>1, <3>1
      <4>2. Coded(q, down + 1) = c + 1
        <5>1. (q + Bias) * Hidden \in Int
          BY <1>1, FormatIs
        <5>. QED  BY <1>1, <5>1 DEF Coded
      <4>. QED  BY <1>1, <4>1, <4>2
    <3>2. CASE down = 2 * Hidden - 1
      <4>1. q + 1 \in EMin .. EMax /\ Hidden \in Hidden .. 2 * Hidden - 1
        BY <1>1
      <4>2. Coded(q + 1, Hidden) = c + 1
        <5>1. (q + 1 + Bias) * Hidden = (q + Bias) * Hidden + Hidden /\ (q + Bias) * Hidden \in Int
          BY <1>1, FormatIs
        <5>2. Coded(q + 1, Hidden) = (q + 1 + Bias) * Hidden + (Hidden - Hidden)
          BY DEF Coded
        <5>3. c = (q + Bias) * Hidden + (down - Hidden)
          BY DEF Coded
        <5>. QED  BY <1>1, <3>2, <5>1, <5>2, <5>3
      <4>. QED  BY <4>1, <4>2
    <3>. QED  BY <1>1, <3>1, <3>2
  <2>2. /\ 2 ^ (r - EMin) \in Nat /\ Units(c + 1) < Units((c + 1) + 1)
        /\ Units((c + 1) + 1) = (f + 1) * 2 ^ (r - EMin)
    BY <2>1, NormalUnits
  <2>3. f \in Nat /\ (c + 1) + 1 = c + 2
    BY <1>1, <1>2
  <2>4. (f + 1) * 2 ^ (r - EMin) \in Nat
    BY <2>2, <2>3
  <2>. QED  BY <2>2, <2>3, <2>4
<1>4. c % 2 = down % 2
  <2>1. PICK h \in Nat : Hidden = 2 * h
    BY FormatPowers
  <2> DEFINE k == q + Bias - 1
  <2>2. k \in Int
    BY <1>1, FormatIs
  <2>3. c = down + 2 * (k * h)
    <3>1. c = (k + 1) * Hidden + (down - Hidden)
      BY <1>1, FormatIs DEF Coded
    <3> HIDE DEF k, c
    <3>2. (k + 1) * Hidden = k * Hidden + Hidden /\ k * Hidden = 2 * (k * h) /\ k * h \in Int
      BY <1>1, <2>1, <2>2
    <3>. QED  BY <1>1, <2>1, <3>1, <3>2
  <2>4. k * h \in Int
    BY <2>1, <2>2
  <2> DEFINE j == k * h
  <2> HIDE DEF k, c, j
  <2>5. c = down + 2 * j /\ j \in Int
    BY <2>3, <2>4 DEF j
  <2>. QED  BY <1>1, <2>5
<1>5. /\ \A b : Units(b) \in Nat /\ Units(b + 1) \in Nat =>
              (RoundsPast(m, e, b) <=>
                 (Units(b) + Units(b + 1)) * D < A \/ ((Units(b) + Units(b + 1)) * D = A /\ b % 2 = 1))
      /\ \A b : Units(b) \in Nat => (IsExactly(m, e, b) <=> A = (2 * Units(b)) * D)
  BY RoundingAsks
<1>6. W \in Nat \ {0} /\ z \in Nat /\ z < W /\ (z = 0 <=> rem = 0) /\ s * D = W
      /\ 2 * A = (4 * down + last) * W + z
  <2> DEFINE x == 4 * down + last
  <2>1. x \in Nat /\ 2 * A = (x * d + rem) * t
    BY <1>1
  <2> HIDE DEF x, A
  <2>2. (x * d + rem) * t = x * (d * t) + rem * t
    BY <2>1
  <2>3. W \in Nat \ {0} /\ z \in Nat /\ z < W /\ (z = 0 <=> rem = 0)
    <3>1. rem * t < d * t /\ d * t \in Nat /\ rem * t \in Nat
      BY Products
    <3>2. rem = 0 \/ rem <= rem * t
      BY Products
    <3>. QED  BY <3>1, <3>2
  <2>4. s * D = W
    OBVIOUS
  <2>. QED  BY <2>1, <2>2, <2>3, <2>4 DEF x
<1>7. /\ up <=> last = 3 \/ (last = 2 /\ (rem # 0 \/ c % 2 = 1))
      /\ RoundedBits(q, down, last, rem) = IF up THEN c + 1 ELSE c
  BY <1>4 DEF RoundsUp, RoundedBits
<1> HIDE DEF s, c, A, D, W, z, up
<1>8. /\ (2 * down + 1) * W < A <=> last = 3 \/ (last = 2 /\ z # 0)
      /\ (2 * down + 1) * W = A <=> last = 2 /\ z = 0
      /\ (2 * down) * W <= A /\ A < (2 * down + 2) * W
      /\ (2 * down) * W = A <=> last = 0 /\ z = 0
  BY <1>1, <1>6, AmongHalves
<1>9. /\ (Units(c) + Units(c + 1)) * D = (2 * down + 1) * W
      /\ (2 * Units(c)) * D = (2 * down) * W
      /\ (2 * Units(c + 1)) * D = (2 * down + 2) * W
  <2>1. /\ down * s + (down + 1) * s = (2 * down + 1) * s
        /\ 2 * (down * s) = (2 * down) * s
        /\ 2 * ((down + 1) * s) = (2 * down + 2) * s
    BY <1>1, <1>2
  <2>2. \A x \in Nat : (x * s) * D = x * W
    BY <1>1, <1>2, <1>6, Swapped
  <2>3. 2 * down + 1 \in Nat /\ 2 * down \in Nat /\ 2 * down + 2 \in Nat
    BY <1>1
  <2>. QED  BY <1>2, <2>1, <2>2, <2>3
<1>10. RoundsPast(m, e, c) <=> up
  BY <1>2, <1>5, <1>6, <1>7, <1>8, <1>9
<1>11. RoundsPast(m, e, c - 1)
  <2>1. c - 1 + 1 = c
    BY <1>2
  <2>2. (Units(c - 1) + Units(c)) * D < (2 * Units(c)) * D
    <3>1. Units(c - 1) + Units(c) \in Nat /\ 2 * Units(c) \in Nat /\ Units(c - 1) + Units(c) < 2 * Units(c)
      BY <1>2
    <3>. QED  BY <1>1, <3>1, Products
  <2>3. (Units(c - 1) + Units(c)) * D < A
    <3>1. (Units(c - 1) + Units(c)) * D \in Nat /\ (2 * Units(c)) * D \in Nat
      BY <1>1, <1>2
    <3>. QED  BY <1>1, <1>8, <1>9, <2>2, <3>1
  <2>. QED  BY <1>2, <1>5, <2>1, <2>3
<1>12. ~RoundsPast(m, e, c + 1)
  <2>1. c + 1 + 1 = c + 2
    BY <1>2
  <2>2. (2 * Units(c + 1)) * D < (Units(c + 1) + Units(c + 2)) * D
    <3>1. Units(c + 1) + Units(c + 2) \in Nat /\ 2 * Units(c + 1) \in Nat /\ 2 * Units(c + 1) < Units(c + 1) + Units(c + 2)
      BY <1>2, <1>3
    <3>. QED  BY <1>1, <3>1, Products
  <2>3. A < (Units(c + 1) + Units(c + 2)) * D /\ (Units(c + 1) + Units(c + 2)) * D \in Nat
    <3>1. (Units(c + 1) + Units(c + 2)) * D \in Nat /\ (2 * Units(c + 1)) * D \in Nat
      BY <1>1, <1>2, <1>3
    <3>. QED  BY <1>1, <1>8, <1>9, <2>2, <3>1
  <2>. QED  BY <1>1, <1>2, <1>3, <1>5, <2>1, <2>3
<1>13. IsExactly(m, e, c) <=> last = 0 /\ rem = 0
  BY <1>2, <1>5, <1>6, <1>8, <1>9
<1>14. ~IsExactly(m, e, c + 1)
  BY <1>1, <1>2, <1>5, <1>8, <1>9
<1>15. CASE up
  <2> DEFINE b == c + 1
  <2>1. b - 1 = c
    BY <1>2
  <2>2. IsNearest(m, e, c + 1)
    <3>1. RoundsPast(m, e, b - 1) /\ ~RoundsPast(m, e, b)
      BY <1>10, <1>12, <1>15, <2>1
    <3> HIDE DEF b
    <3>2. IsNearest(m, e, b)
      BY <3>1 DEF IsNearest
    <3>. QED  BY <3>2 DEF b
  <2>3. ~(last = 0 /\ rem = 0)
    BY <1>7, <1>15
  <2>. QED  BY <1>7, <1>14, <1>15, <2>2, <2>3
<1>16. CASE ~up
  <2>1. IsNearest(m, e, c)
    BY <1>10, <1>11, <1>16 DEF IsNearest
  <2>. QED  BY <1>7, <1>13, <1>16, <2>1
<1>. QED  BY <1>15, <1>16

\* What is answered for such a quotient.
LEMMA NearestDoubleIs ==
  ASSUME NEW m \in 0 .. 10 ^ MaxSigDigits - 1, NEW e \in -MaxExp10 .. MaxExp10,
         NEW q \in EMin .. EMax - 1, NEW divided, divided.quo \in 4 * Hidden .. 8 * Hidden - 1,
         divided.rem \in Pairs, NEW d \in Nat \ {0}, NEW t \in Nat \ {0}, OfPair(divided.rem) < d,
         2 ^ (q - EMin) * Under(e) = d * t,
         2 * Over(m, e) = (divided.quo * d + OfPair(divided.rem)) * t,
         NEW length
  PROVE  LET answer == NearestDouble(q, divided, length)
         IN  /\ answer.status \in {"OK", "INEXACT"} /\ answer.length = length
             /\ IsNearest(m, e, answer.bits)
             /\ answer.status = "OK" <=> IsExactly(m, e, answer.bits)
<1> DEFINE quo == divided.quo
           rem == OfPair(divided.rem)
           down == quo \div 4
           last == quo % 4
           sticky == ~IsZero(divided.rem)
           up == last = 3 \/ (last = 2 /\ (sticky \/ down % 2 = 1))
           near == IF up THEN down + 1 ELSE down
           carry == near = 2 * Hidden
           power2 == IF carry THEN q + 1 ELSE q
           tail == (IF carry THEN Hidden ELSE near) % Hidden
           bits == IF up THEN Coded(q, down) + 1 ELSE Coded(q, down)
<1>1. /\ Hidden \in Nat \ {0} /\ EMin \in Int /\ EMax \in Nat /\ q \in Int /\ Bias \in Int /\ rem \in Nat
      /\ (sticky <=> rem # 0)
  <2>1. Hidden \in Nat \ {0} /\ EMin \in Int /\ EMax \in Nat /\ q \in Int /\ Bias \in Int
    BY FormatIs
  <2>2. rem \in Nat
    BY PairIs
  <2>3. sticky <=> rem # 0
    <3>1. divided.rem.hi \in Nat /\ divided.rem.lo \in Nat /\ Word \in Nat \ {0}
          /\ rem = divided.rem.hi * Word + divided.rem.lo
      BY PairIs, Sizes
    <3> DEFINE h == divided.rem.hi
               l == divided.rem.lo
    <3>2. IsZero(divided.rem) <=> h = 0 /\ l = 0
      BY DEF IsZero
    <3> HIDE DEF h, l, rem
    <3>3. h = 0 \/ h <= h * Word
      BY <3>1, Products DEF h
    <3>4. h \in Nat /\ l \in Nat /\ rem = h * Word + l /\ h * Word \in Nat
      BY <3>1 DEF h, l
    <3>. QED  BY <3>1, <3>2, <3>3, <3>4
  <2>. QED  BY <2>1, <2>2, <2>3
<1>2. /\ quo = 4 * down + last /\ last \in 0 .. 3 /\ down \in Hidden .. 2 * Hidden - 1 /\ down \in Nat
  <2>1. quo \in Int /\ 4 * Hidden <= quo /\ quo < 8 * Hidden
    BY <1>1
  <2> HIDE DEF quo
  <2>2. down \in Int /\ last \in 0 .. 3 /\ quo = 4 * down + last
    BY <2>1
  <2>. QED  BY <1>1, <2>1, <2>2
<1>3. up \in BOOLEAN /\ (up <=> last = 3 \/ (last = 2 /\ (rem # 0 \/ down % 2 = 1)))
  BY <1>1
<1>4. NearestDouble(q, divided, length) =
        IF power2 \notin EMin .. EMax THEN Answer("OUT_OF_RANGE", 0, length)
        ELSE Answer(IF last # 0 \/ sticky THEN "INEXACT" ELSE "OK", (power2 + Bias) * Hidden + tail, length)
  BY DEF NearestDouble
<1> HIDE DEF quo, rem, down, last, sticky, up
<1>5. IsNearest(m, e, bits) /\ (IsExactly(m, e, bits) <=> last = 0 /\ rem = 0)
  <2>1. rem \in Nat /\ rem < d /\ 2 ^ (q - EMin) * Under(e) = d * t
    BY <1>1 DEF rem
  <2>2. 2 * Over(m, e) = ((4 * down + last) * d + rem) * t
    BY <1>2 DEF quo, rem
  <2>3. QuotientOf(m, e, q, down, last, rem)
    BY <2>1, <2>2 DEF QuotientOf
  <2>4. bits = RoundedBits(q, down, last, rem)
    BY <1>3 DEF RoundedBits, RoundsUp
  <2> HIDE DEF bits
  <2>. QED  BY <1>2, <2>1, <2>3, <2>4, QuotientRounds
<1>6. near \in Hidden .. 2 * Hidden /\ near \in Nat /\ power2 \in EMin .. EMax
  <2>1. near \in Hidden .. 2 * Hidden /\ near \in Nat
    BY <1>1, <1>2
  <2>2. q \in EMin .. EMax /\ q + 1 \in EMin .. EMax
    BY <1>1
  <2>. QED  BY <2>1, <2>2
<1>7. (power2 + Bias) * Hidden + tail = bits
  <2>1. CASE carry
    <3>1. tail = 0 /\ power2 = q + 1
      <4>1. Hidden % Hidden = 0
        <5>1. Hidden - 1 * Hidden \in 0 .. Hidden - 1 /\ Hidden \in Int
          BY <1>1
        <5>2. Hidden % Hidden = Hidden - 1 * Hidden
          BY <1>1, <5>1, Modulo
        <5>. QED  BY <1>1, <5>2
      <4>. QED  BY <2>1, <4>1
    <3>2. up /\ down = 2 * Hidden - 1
      BY <1>1, <1>2, <2>1
    <3>3. bits = (q + Bias) * Hidden + (down - Hidden) + 1
      BY <3>2 DEF Coded
    <3>4. (q + 1 + Bias) * Hidden = (q + Bias) * Hidden + Hidden /\ (q + Bias) * Hidden \in Int
      BY <1>1
    <3>. QED  BY <1>1, <3>1, <3>2, <3>3, <3>4
  <2>2. CASE ~carry
    <3>1. tail = near - Hidden /\ power2 = q
      <4>1. near - 1 * Hidden \in 0 .. Hidden - 1 /\ near \in Int
        BY <1>1, <1>6, <2>2
      <4> HIDE DEF near
      <4>2. near % Hidden = near - 1 * Hidden
        BY <1>1, <4>1, Modulo
      <4>. QED  BY <1>1, <2>2, <4>2
    <3>2. bits = (q + Bias) * Hidden + (near - Hidden)
      <4>1. (q + Bias) * Hidden \in Int
        BY <1>1
      <4>2. Coded(q, down) = (q + Bias) * Hidden + (down - Hidden)
        BY DEF Coded
      <4>. QED  BY <1>1, <1>2, <1>3, <4>1, <4>2
    <3>. QED  BY <3>1, <3>2
  <2>. QED  BY <2>1, <2>2
<1> HIDE DEF near, carry, power2, tail, bits
<1>8. NearestDouble(q, divided, length) = Answer(IF last # 0 \/ sticky THEN "INEXACT" ELSE "OK", bits, length)
  BY <1>4, <1>6, <1>7
<1>9. last # 0 \/ sticky <=> ~IsExactly(m, e, bits)
  BY <1>1, <1>5
<1>. QED  BY <1>5, <1>8, <1>9 DEF Answer

\* The numbers within the limits fit into two words, twice.
LEMMA LimitsFitWords ==
  ASSUME NEW m \in 1 .. 10 ^ MaxSigDigits - 1, NEW e \in -MaxExp10 .. MaxExp10
  PROVE  LET num == IF e >= 0 THEN Product(m, 10 ^ e) ELSE FromWord(m)
             den == FromWord(IF e >= 0 THEN 1 ELSE 10 ^ (-e))
             x == IF e >= 0 THEN m * 10 ^ e ELSE m
         IN  /\ num \in Pairs /\ den \in Pairs /\ OfPair(num) = x /\ OfPair(den) = Under(e)
             /\ x \in Nat \ {0} /\ Under(e) \in Nat \ {0}
             /\ 2 * x <= Word * Word /\ x < 2 ^ EMax
             /\ 2 * Under(e) <= Word * Word /\ Under(e) <= 2 ^ (-EMin)
             /\ Over(m, e) = x * 2 ^ (UnitExp + 1)
<1> DEFINE most == 10 ^ (MaxSigDigits + MaxExp10)
           x == IF e >= 0 THEN m * 10 ^ e ELSE m
           k == IF e >= 0 THEN e ELSE -e
           WW == Word * Word
<1>1. /\ MaxSigDigits \in Nat /\ MaxExp10 \in Nat /\ e \in Int /\ Word \in Nat /\ Word > 1 /\ WW \in Nat
      /\ 10 ^ MaxSigDigits <= Word /\ 10 ^ MaxExp10 < Word /\ 2 * most <= WW
      /\ most <= 2 ^ EMax /\ 10 ^ MaxExp10 <= 2 ^ (-EMin)
      /\ 2 ^ EMax \in Nat /\ 2 ^ (-EMin) \in Nat /\ 2 ^ (UnitExp + 1) \in Nat
  <2>1. EMax \in 0 .. FormatMax
    BY FormatIs
  <2>2. 2 ^ EMax \in Nat
    BY <2>1, FormatIs
  <2>3. Word \in Nat /\ Word > 1 /\ WW \in Nat
    BY Sizes
  <2>. QED  BY <2>2, <2>3, TinyAssumption, RangeAssumption, FormatPowers
<1>2. /\ 10 ^ MaxSigDigits \in Nat \ {0} /\ 10 ^ MaxExp10 \in Nat \ {0} /\ 10 ^ 0 = 1
      /\ most = 10 ^ MaxSigDigits * 10 ^ MaxExp10
      /\ 10 ^ k \in Nat \ {0} /\ 10 ^ k <= 10 ^ MaxExp10 /\ k \in 0 .. MaxExp10
  <2> DEFINE l == MaxSigDigits + MaxExp10
  <2>1. l \in Nat /\ MaxSigDigits \in 0 .. l /\ MaxExp10 \in 0 .. l /\ PowersUpTo(10, l)
        /\ k \in 0 .. MaxExp10 /\ k \in 0 .. l /\ MaxSigDigits + MaxExp10 <= l /\ MaxSigDigits + MaxExp10 = l
    BY <1>1, TinyPowersAssumption
  <2> HIDE DEF l, k
  <2>2. \A j \in 0 .. l : 10 ^ j \in Nat \ {0}
    BY <2>1, PowerPositive
  <2>3. 10 ^ (MaxSigDigits + MaxExp10) = 10 ^ MaxSigDigits * 10 ^ MaxExp10
    BY <1>1, <2>1, PowerSum
  <2>4. 10 ^ k <= 10 ^ MaxExp10
    <3>1. k <= MaxExp10
      BY <1>1, <2>1
    <3>. QED  BY <2>1, <3>1, PowerOrder
  <2>5. 10 ^ 0 = 1
    BY <2>1 DEF PowersUpTo
  <2>. QED  BY <2>1, <2>2, <2>3, <2>4, <2>5
<1> DEFINE S == 10 ^ MaxSigDigits
           E == 10 ^ MaxExp10
           y == 10 ^ k
<1>3. /\ S \in Nat \ {0} /\ E \in Nat \ {0} /\ most = S * E /\ y \in Nat \ {0} /\ y <= E
      /\ S <= Word /\ E < Word /\ m \in Nat \ {0} /\ m < S
  BY <1>1, <1>2
<1>4. /\ e >= 0 => x = m * y /\ Under(e) = 1
      /\ e < 0 => x = m /\ Under(e) = y
  BY <1>1 DEF Under
<1> HIDE DEF S, E, y, most, x, k, WW
<1>5. m * y \in Nat \ {0} /\ m * y < most /\ m < most /\ most \in Nat
  <2>1. m * y < S * y /\ S * y <= S * E /\ S * y \in Nat /\ m * y \in Nat /\ S * E \in Nat
    BY <1>3, Products
  <2>2. m <= m * y
    BY <1>3, Products
  <2>. QED  BY <1>3, <2>1, <2>2
<1>6. /\ x \in Nat \ {0} /\ x < most /\ Under(e) \in Nat \ {0} /\ Under(e) <= E
  BY <1>1, <1>3, <1>4, <1>5
<1>7. 2 * x <= WW /\ x < 2 ^ EMax /\ Under(e) <= 2 ^ (-EMin)
  <2>1. E <= 2 ^ (-EMin)
    BY <1>1 DEF E
  <2>2. 2 * x <= WW
    BY <1>1, <1>5, <1>6
  <2>3. x < 2 ^ EMax
    BY <1>1, <1>5, <1>6
  <2>4. Under(e) <= 2 ^ (-EMin)
    BY <1>1, <1>3, <1>6, <2>1
  <2>. QED  BY <2>2, <2>3, <2>4
<1>8. 2 * Under(e) <= WW
  <2>1. 2 * Word <= Word * Word
    <3>1. 2 * Word <= Word * Word
      BY <1>1, Products
    <3>. QED  BY <3>1
  <2>. QED  BY <1>1, <1>3, <1>6, <2>1 DEF WW
<1>9. Over(m, e) = x * 2 ^ (UnitExp + 1)
  <2> DEFINE u == 2 ^ (UnitExp + 1)
  <2>1. Over(m, e) = (m * u) * (IF e >= 0 THEN y ELSE 1) /\ u \in Nat
    BY <1>1 DEF Over, y, k
  <2> HIDE DEF u
  <2>2. (m * u) * y = (m * y) * u /\ (m * u) * 1 = m * u
    BY <1>3, <2>1, Swapped
  <2>3. Over(m, e) = x * u
    BY <1>1, <1>4, <2>1, <2>2
  <2>. QED  BY <2>3 DEF u
<1>10. CASE e >= 0
  <2>1. m \in Words /\ y \in Words /\ 1 \in Words /\ y = 10 ^ e
    BY <1>1, <1>3, <1>10 DEF Words, y, k
  <2>2. Product(m, y) \in Pairs /\ OfPair(Product(m, y)) = m * y
    BY <2>1, ProductIsProduct
  <2>3. FromWord(1) \in Pairs /\ OfPair(FromWord(1)) = 1
    BY <2>1, FromWordIs
  <2>. QED  BY <1>4, <1>6, <1>7, <1>8, <1>9, <1>10, <2>1, <2>2, <2>3 DEF x, WW
<1>11. CASE e < 0
  <2>1. m \in Words /\ y \in Words /\ y = 10 ^ (-e) /\ ~(e >= 0)
    BY <1>1, <1>3, <1>11 DEF Words, y, k
  <2>2. FromWord(m) \in Pairs /\ OfPair(FromWord(m)) = m
    BY <2>1, FromWordIs
  <2>3. FromWord(y) \in Pairs /\ OfPair(FromWord(y)) = y
    BY <2>1, FromWordIs
  <2>. QED  BY <1>4, <1>6, <1>7, <1>8, <1>9, <1>11, <2>1, <2>2, <2>3 DEF x, WW
<1>. QED  BY <1>1, <1>10, <1>11

\* And the power of two that leads them is one of a normal number.
LEMMA LeadsInRange ==
  ASSUME NEW x \in Nat \ {0}, NEW D \in Nat \ {0}, x < 2 ^ EMax, D <= 2 ^ (-EMin),
         NEW q \in -(2 * WordBits) .. 2 * WordBits,
         q >= 0 => D * 2 ^ q <= x,
         q < 0 => x * 2 ^ (-q) < 2 * D
  PROVE  q \in EMin .. EMax - 1
<1> DEFINE w == 2 * WordBits
<1>1. /\ \A k \in 0 .. w : 2 ^ k \in Nat \ {0}
      /\ \A j, k \in 0 .. w : j <= k => 2 ^ j <= 2 ^ k
      /\ \A k \in 0 .. w - 1 : 2 ^ (k + 1) = 2 * 2 ^ k
      /\ w \in Nat
  <2>1. w \in Nat /\ PowersUpTo(2, w)
    BY WordIsPower
  <2> HIDE DEF w
  <2>. QED  BY <2>1, TwosUpTo
<1>2. q \in -w .. w /\ EMin \in Int /\ EMin <= 0 /\ EMax \in Nat
  BY FormatIs
<1> HIDE DEF w
<1>3. CASE q >= 0
  <2>1. q < EMax
    <3> SUFFICES ASSUME EMax <= q PROVE FALSE
      BY <1>1, <1>2
    <3>1. EMax \in 0 .. w /\ q \in 0 .. w
      BY <1>1, <1>2, <1>3
    <3>2. 2 ^ EMax <= 2 ^ q /\ 2 ^ q \in Nat /\ 2 ^ EMax \in Nat
      BY <1>1, <3>1
    <3> DEFINE p == 2 ^ q
    <3>3. p \in Nat /\ D * p <= x
      BY <1>3, <3>2
    <3> HIDE DEF p
    <3>4. p <= D * p /\ D * p \in Nat
      BY <3>3, Products
    <3>5. p <= x
      BY <3>3, <3>4
    <3>. QED  BY <3>2, <3>5 DEF p
  <2>. QED  BY <1>2, <1>3, <2>1
<1>4. CASE q < 0
  <2>1. EMin <= q
    <3> SUFFICES ASSUME q < EMin PROVE FALSE
      BY <1>1, <1>2
    <3>1. -EMin \in 0 .. w - 1 /\ -EMin \in 0 .. w /\ (-EMin) + 1 \in 0 .. w /\ -q \in 0 .. w /\ (-EMin) + 1 <= -q
      BY <1>1, <1>2, <1>4
    <3>2. 2 ^ ((-EMin) + 1) = 2 * 2 ^ (-EMin) /\ 2 ^ ((-EMin) + 1) <= 2 ^ (-q) /\ 2 ^ (-q) \in Nat /\ 2 ^ (-EMin) \in Nat
      BY <1>1, <3>1
    <3> DEFINE p == 2 ^ (-q)
               t == 2 ^ (-EMin)
    <3>3. p \in Nat /\ t \in Nat /\ 2 * t <= p /\ D <= t /\ x * p < 2 * D
      BY <1>4, <3>2
    <3> HIDE DEF p, t
    <3>4. p <= x * p /\ x * p \in Nat
      BY <3>3, Products
    <3>. QED  BY <3>3, <3>4
  <2>. QED  BY <1>1, <1>2, <1>4, <2>1
<1>. QED  BY <1>2, <1>3, <1>4

(***************************************************************************)
(* ryu_tiny_mq_to_double answers the number nearest to m * 10^e, ties to   *)
(* even, and OK exactly when nothing was lost; within the limits of the    *)
(* tiny parser it refuses nothing.                                         *)
(***************************************************************************)
THEOREM ConvertsToNearest ==
  ASSUME NEW m \in 1 .. 10 ^ MaxSigDigits - 1, NEW e \in -MaxExp10 .. MaxExp10, NEW length
  PROVE  LET answer == MqToDouble(m, e, length)
         IN  /\ answer.status \in {"OK", "INEXACT"} /\ answer.length = length
             /\ IsNearest(m, e, answer.bits)
             /\ answer.status = "OK" <=> IsExactly(m, e, answer.bits)
<1> DEFINE num == IF e >= 0 THEN Product(m, 10 ^ e) ELSE FromWord(m)
           den == FromWord(IF e >= 0 THEN 1 ELSE 10 ^ (-e))
           q == FloorLog2(num, den)
           n == IF q >= 0 THEN num ELSE Shifted(num, -q)
           d == IF q >= 0 THEN Shifted(den, q) ELSE den
           x == IF e >= 0 THEN m * 10 ^ e ELSE m
           D == Under(e)
           divided == Divide(n, d)
           rem == OfPair(divided.rem)
           nn == OfPair(n)
           dd == OfPair(d)
           s == 2 ^ (q - EMin)
           t == IF q >= 0 THEN 2 ^ (-EMin) ELSE s
           WW == Word * Word
<1>1. /\ num \in Pairs /\ den \in Pairs /\ OfPair(num) = x /\ OfPair(den) = D
      /\ x \in Nat \ {0} /\ D \in Nat \ {0} /\ 2 * x <= WW /\ x < 2 ^ EMax
      /\ 2 * D <= WW /\ D <= 2 ^ (-EMin) /\ Over(m, e) = x * 2 ^ (UnitExp + 1)
  BY LimitsFitWords
<1>2. MqToDouble(m, e, length) = IF Less(n, d) THEN Rejected ELSE NearestDouble(q, divided, length)
  BY DEF MqToDouble
<1> HIDE DEF num, den, x
<1>3. /\ q \in -(2 * WordBits) .. 2 * WordBits /\ n \in Pairs /\ d \in Pairs
      /\ nn = (IF q >= 0 THEN x ELSE x * 2 ^ (-q))
      /\ dd = (IF q >= 0 THEN D * 2 ^ q ELSE D)
      /\ dd <= nn /\ nn < 2 * dd
  <2>1. OfPair(num) > 0 /\ OfPair(den) > 0 /\ 2 * OfPair(den) <= Word * Word
    BY <1>1
  <2> HIDE DEF D
  <2>2. /\ q \in -(2 * WordBits) .. 2 * WordBits /\ n \in Pairs /\ d \in Pairs
        /\ nn = (IF q >= 0 THEN OfPair(num) ELSE OfPair(num) * 2 ^ (-q))
        /\ dd = (IF q >= 0 THEN OfPair(den) * 2 ^ q ELSE OfPair(den))
        /\ dd <= nn /\ nn < 2 * dd
    BY <1>1, <2>1, QuotientLeads, Zenon
  <2>. QED  BY <1>1, <2>2
<1> HIDE DEF q, n, d, divided, nn, dd, D
<1>4. q \in Int /\ (q >= 0 \/ q < 0)
  <2>1. WordBits \in Nat
    BY WordIsPower
  <2>. QED  BY <1>3, <2>1
<1>5. q \in EMin .. EMax - 1
  <2>1. q >= 0 => D * 2 ^ q <= x
    BY <1>3
  <2>2. q < 0 => x * 2 ^ (-q) < 2 * D
    BY <1>3, <1>4
  <2>. QED  BY <1>1, <1>3, <2>1, <2>2, LeadsInRange
<1>6. /\ EMin \in Int /\ EMax \in Nat /\ q - EMin \in 0 .. FormatMax /\ s \in Nat \ {0} /\ t \in Nat \ {0}
      /\ Hidden \in Nat \ {0} /\ 2 ^ (Prec + 1) = 4 * Hidden
      /\ q >= 0 => 2 ^ q \in Nat \ {0} /\ s = 2 ^ q * t
      /\ q < 0 => 2 ^ (-q) \in Nat \ {0} /\ 2 ^ (-q) * s = 2 ^ (-EMin) /\ t = s
  <2>1. EMin \in Int /\ EMin <= 0 /\ EMax \in Nat /\ q - EMin \in 0 .. FormatMax /\ -EMin \in 0 .. FormatMax
    BY <1>4, <1>5, FormatIs
  <2>2. s \in Nat \ {0} /\ t \in Nat \ {0} /\ Hidden \in Nat \ {0}
    BY <2>1, FormatIs
  <2>3. ASSUME q >= 0 PROVE 2 ^ q \in Nat \ {0} /\ s = 2 ^ q * t
    <3>1. q \in 0 .. FormatMax /\ q + (-EMin) = q - EMin /\ q + (-EMin) <= FormatMax
      BY <1>4, <2>1, <2>3, FormatIs
    <3>2. 2 ^ (q + (-EMin)) = 2 ^ q * 2 ^ (-EMin) /\ 2 ^ q \in Nat \ {0}
      BY <2>1, <3>1, FormatIs
    <3>. QED  BY <2>3, <3>1, <3>2
  <2>4. ASSUME q < 0 PROVE 2 ^ (-q) \in Nat \ {0} /\ 2 ^ (-q) * s = 2 ^ (-EMin) /\ t = s
    <3>1. -q \in 0 .. FormatMax /\ (-q) + (q - EMin) = -EMin /\ (-q) + (q - EMin) <= FormatMax /\ ~(q >= 0)
      BY <1>4, <1>5, <2>1, <2>4, FormatIs
    <3>2. 2 ^ ((-q) + (q - EMin)) = 2 ^ (-q) * 2 ^ (q - EMin) /\ 2 ^ (-q) \in Nat \ {0}
      BY <2>1, <3>1, FormatIs
    <3>. QED  BY <3>1, <3>2
  <2>. QED  BY <2>1, <2>2, <2>3, <2>4, FormatPowers
<1>7. nn \in Nat \ {0} /\ dd \in Nat \ {0} /\ 2 * dd <= WW
  <2>1. nn \in Nat /\ dd \in Nat /\ WW \in Nat
    BY <1>3, PairIs, Sizes DEF nn, dd
  <2>2. dd # 0
    BY <1>3, <2>1
  <2>3. q >= 0 => dd <= x
    BY <1>3
  <2>4. q < 0 => dd = D
    BY <1>3, <1>4
  <2> HIDE DEF WW
  <2>. QED  BY <1>1, <1>3, <1>4, <2>1, <2>2, <2>3, <2>4
<1>8. /\ divided.quo \in Nat /\ divided.rem \in Pairs /\ rem < dd /\ rem \in Nat
      /\ nn * (4 * Hidden) = divided.quo * dd + rem
      /\ 4 * Hidden <= divided.quo /\ divided.quo < 2 * (4 * Hidden)
  <2>1. /\ divided.quo \in Nat /\ divided.rem \in Pairs /\ OfPair(divided.rem) < dd
        /\ nn * 2 ^ (Prec + 1) = divided.quo * dd + OfPair(divided.rem)
        /\ 2 ^ (Prec + 1) <= divided.quo /\ divided.quo < 2 * 2 ^ (Prec + 1)
    <3>1. nn = OfPair(n) /\ dd = OfPair(d) /\ nn \in Nat /\ 2 * dd <= Word * Word
      BY <1>7 DEF nn, dd
    <3>. QED  BY <1>3, <1>7, <3>1, DivisionIsDivision DEF divided
  <2>2. rem \in Nat
    BY <2>1, PairIs
  <2>. QED  BY <1>6, <2>1, <2>2
<1> HIDE DEF rem, s, t, WW
<1>9. s * D = dd * t
  <2>1. CASE q >= 0
    <3> DEFINE p == 2 ^ q
    <3>1. p \in Nat /\ s = p * t /\ dd = D * p
      BY <1>3, <1>6, <2>1
    <3> HIDE DEF p
    <3>2. (p * t) * D = (D * p) * t
      BY <1>1, <1>6, <3>1, Swapped
    <3>. QED  BY <3>1, <3>2
  <2>2. CASE q < 0
    <3>1. t = s /\ dd = D
      BY <1>3, <1>4, <1>6, <2>2
    <3>. QED  BY <1>1, <1>6, <3>1
  <2>. QED  BY <1>4, <2>1, <2>2
<1>10. 2 * Over(m, e) = (divided.quo * dd + rem) * t
  <2> DEFINE u == 2 ^ (-EMin)
             H == Hidden
  <2>1. Over(m, e) = x * (2 * H * u) /\ u \in Nat /\ H \in Nat
    BY <1>1, <1>6, FormatPowers
  <2>2. nn * t = x * u
    <3>1. CASE q >= 0
      <4>1. nn = x /\ t = u
        BY <1>3, <3>1 DEF t
      <4>. QED  BY <4>1
    <3>2. CASE q < 0
      <4> DEFINE p == 2 ^ (-q)
      <4>1. nn = x * p /\ p * s = u /\ t = s /\ p \in Nat
        BY <1>3, <1>4, <1>6, <3>2
      <4> HIDE DEF p, u
      <4>2. (x * p) * s = x * (p * s)
        BY <1>1, <1>6, <4>1, Swapped
      <4>. QED  BY <4>1, <4>2
    <3>. QED  BY <1>4, <3>1, <3>2
  <2> HIDE DEF u, H
  <2>3. 2 * (x * (2 * H * u)) = (4 * H) * (x * u)
    <3> DEFINE a == x * u
    <3>1. a \in Nat /\ x * (2 * H * u) = (2 * H) * a
      BY <1>1, <2>1
    <3> HIDE DEF a
    <3>2. 2 * ((2 * H) * a) = (4 * H) * a
      BY <2>1, <3>1
    <3>. QED  BY <3>1, <3>2 DEF a
  <2>4. (nn * (4 * H)) * t = (4 * H) * (nn * t)
    BY <1>6, <1>7, <2>1
  <2>. QED  BY <1>8, <2>1, <2>2, <2>3, <2>4 DEF H
<1>11. ~Less(n, d)
  <2>1. ~(nn < dd)
    BY <1>3, <1>7
  <2>. QED  BY <1>3, <2>1, LessIsLess DEF nn, dd
<1>12. /\ m \in 0 .. 10 ^ MaxSigDigits - 1 /\ divided.quo \in 4 * Hidden .. 8 * Hidden - 1
       /\ OfPair(divided.rem) < dd /\ 2 ^ (q - EMin) * Under(e) = dd * t
       /\ 2 * Over(m, e) = (divided.quo * dd + OfPair(divided.rem)) * t
  <2>1. m \in 0 .. 10 ^ MaxSigDigits - 1
    OBVIOUS
  <2>2. divided.quo \in 4 * Hidden .. 8 * Hidden - 1
    BY <1>6, <1>8
  <2>. QED  BY <1>8, <1>9, <1>10, <2>1, <2>2 DEF rem, s, D
<1>13. LET answer == NearestDouble(q, divided, length)
       IN  /\ answer.status \in {"OK", "INEXACT"} /\ answer.length = length
           /\ IsNearest(m, e, answer.bits)
           /\ answer.status = "OK" <=> IsExactly(m, e, answer.bits)
  BY <1>5, <1>6, <1>7, <1>8, <1>12, NearestDoubleIs
<1>. QED  BY <1>2, <1>11, <1>13

---------------------------------------------------------------------------
(* The tiny parser: what its call answers *)

\* Zero is zero, whatever the exponent.
LEMMA ZeroIsZero ==
  ASSUME NEW e \in Int
  PROVE  IsNearest(0, e, 0) /\ IsExactly(0, e, 0)
<1> DEFINE u == 2 ^ (UnitExp + 1)
           k == IF e < -SmallExp10 THEN SmallExp10 ELSE -e
<1>1. /\ SmallExp10 \in Nat /\ LargeExp10 \in Nat
      /\ \A j \in 0 .. SmallExp10 : 10 ^ j \in Nat \ {0}
      /\ \A j \in 0 .. LargeExp10 : 10 ^ j \in Nat \ {0}
  BY FormatAssumption, TinyPowersAssumption, PowerPositive
<1>2. u \in Nat /\ Hidden \in Nat /\ Hidden > 1
  <2>1. PICK h \in Nat : Hidden = 2 * h
    BY FormatPowers
  <2>. QED  BY <2>1, FormatIs, FormatPowers
<1> HIDE DEF u
<1>3. 0 * u = 0
  BY <1>2
<1>4. Units(0) = 0 /\ Units(1) = 1
  <2>1. 0 \div Hidden = 0 /\ 0 % Hidden = 0 /\ 1 \div Hidden = 0 /\ 1 % Hidden = 1
    <3>1. \A r \in 0 .. Hidden - 1 : r \div Hidden = 0 /\ r % Hidden = r
      <4> SUFFICES ASSUME NEW r \in 0 .. Hidden - 1 PROVE r \div Hidden = 0 /\ r % Hidden = r
        OBVIOUS
      <4>1. r - 0 * Hidden \in 0 .. Hidden - 1 /\ r \in Int /\ r - 0 * Hidden = r /\ 0 \in Int
        BY <1>2
      <4>. QED  BY <1>2, <4>1, Modulo
    <3>2. 0 \in 0 .. Hidden - 1 /\ 1 \in 0 .. Hidden - 1
      BY <1>2
    <3>. QED  BY <3>1, <3>2
  <2>. QED  BY <2>1, Zenon DEF Units
<1>5. CASE e < 0
  <2>1. 10 ^ k \in Nat \ {0}
    <3>1. k \in 0 .. SmallExp10
      BY <1>1, <1>5
    <3>. QED  BY <1>1, <3>1
  <2> DEFINE y == 10 ^ k
  <2> HIDE DEF y
  <2>2. y \in Nat \ {0} /\ 0 \div y = 0 /\ 0 % y = 0
    <3>1. y \in Nat \ {0}
      BY <2>1 DEF y
    <3>2. 0 - 0 * y \in 0 .. y - 1 /\ 0 - 0 * y = 0 /\ 0 \in Int
      BY <3>1
    <3>. QED  BY <3>1, <3>2, Modulo
  <2>3. HalfUnits(0, e) = 0 /\ ~Leftover(0, e)
    <3>1. HalfUnits(0, e) = (0 * u) \div y
      BY <1>5 DEF HalfUnits, u, y
    <3>2. Leftover(0, e) <=> (0 * u) % y # 0
      BY <1>5 DEF Leftover, u, y
    <3>. QED  BY <1>3, <2>2, <3>1, <3>2
  <2>. QED  BY <1>4, <2>3 DEF IsNearest, IsExactly, RoundsPast
<1>6. CASE e >= 0
  <2>1. HalfUnits(0, e) = 0 /\ ~Leftover(0, e)
    <3>1. ~Leftover(0, e)
      BY <1>6 DEF Leftover
    <3>2. CASE e > LargeExp10 \/ 0 > 2 * Units(InfBits)
      <4>1. HalfUnits(0, e) = IF 0 = 0 THEN 0 ELSE 2 * (2 * Units(InfBits))
        <5>1. ~(e < 0) /\ e >= 0
          BY <1>6
        <5>. QED  BY <3>2, <5>1, Zenon DEF HalfUnits
      <4>. QED  BY <3>1, <4>1
    <3>3. CASE ~(e > LargeExp10 \/ 0 > 2 * Units(InfBits))
      <4> DEFINE y == 10 ^ e
      <4>1. y \in Nat
        <5>1. e \in 0 .. LargeExp10
          BY <1>1, <1>6, <3>3
        <5>. QED  BY <1>1, <5>1
      <4>2. HalfUnits(0, e) = (0 * u) * y
        BY <1>6, <3>3 DEF HalfUnits, u
      <4> HIDE DEF y
      <4>. QED  BY <1>3, <3>1, <4>1, <4>2
    <3>. QED  BY <3>1, <3>2, <3>3
  <2>. QED  BY <1>4, <2>1 DEF IsNearest, IsExactly, RoundsPast
<1>. QED  BY <1>5, <1>6

\* An exponent that no longer grows is past the limit, as is the one that is spelled.
LEMMA CappedIsPast ==
  ASSUME ShortTexts, NEW d \in -MaxLen + 1 .. 0, NEW x \in Nat, TinyExpCap <= x
  PROVE  d - x \notin -MaxExp10 .. MaxExp10 /\ d + x \notin -MaxExp10 .. MaxExp10
<1>1. MaxLen \in Nat \ {0} /\ MaxExp10 \in Nat /\ TinyExpCap \in Nat /\ MaxLen + MaxExp10 <= TinyExpCap
  BY BoundsAssumption, TinyAssumption DEF ShortTexts
<1>. QED  BY <1>1

\* What it answers for a number, and for digits that are none.
NumberAnswered(answer) ==
  /\ outcome = "invalid" => answer = Rejected
  /\ outcome = "number" =>
       /\ answer.status # "INVALID" /\ answer.length = parsedLen
       /\ answer.status = "OUT_OF_RANGE" <=>
            sawNonzero /\ (sigDigits > MaxSigDigits \/ TrueExp10 \notin -MaxExp10 .. MaxExp10)
       /\ answer.status \in {"OK", "INEXACT"} =>
            /\ IsNearest(exact, TrueExp10, answer.bits)
            /\ answer.status = "OK" <=> IsExactly(exact, TrueExp10, answer.bits)
LEMMA NumberAnswers ==
  ASSUME DigitsInv, ShortTexts, phase = "done", outcome \in {"number", "invalid"},
         NEW b \in 1 .. Len(text), NEW p \in 1 .. Len(text), NEW e \in 1 .. Len(text), b <= p, p <= e,
         NumberRead(b, p, e)
  PROVE  NumberAnswered(Decimal(Number(b)))
<1> DEFINE number == Number(b)
           digits == Gathered(text, b, p, e - 1)
           inRange == ~digits.tooManySig /\ number.exp10 \in -MaxExp10 .. MaxExp10
           answer == Decimal(number)
           k == sigDigits
<1>1. /\ number.digits = digits /\ digits \in Gatherings /\ ReadAlike(digits)
      /\ outcome = "number" => sawDigit /\ number.length = parsedLen
      /\ outcome = "invalid" => ~sawDigit
      /\ outcome = "number" =>
           \/ number.exp10 = TrueExp10
           \/ \E part \in Nat : /\ TinyExpCap <= part /\ part <= truePart
                                /\ \/ number.exp10 = DigitsExp10 - part /\ TrueExp10 = DigitsExp10 - truePart
                                   \/ number.exp10 = DigitsExp10 + part /\ TrueExp10 = DigitsExp10 + truePart
  BY NumberIs, Zenon
<1>2. answer = CASE ~digits.sawDigit -> Rejected
                 [] digits.sawDigit /\ ~digits.sawNonzero -> Answer("OK", 0, number.length)
                 [] digits.sawDigit /\ digits.sawNonzero /\ ~inRange ->
                      Answer("OUT_OF_RANGE", 0, number.length)
                 [] digits.sawDigit /\ digits.sawNonzero /\ inRange ->
                      MqToDouble(digits.sig, number.exp10, number.length)
  BY <1>1, Zenon DEF Decimal
<1>3. /\ TypeOK /\ sigDigits \in Nat /\ exact \in Nat /\ truePart \in Nat /\ sawNonzero \in BOOLEAN
      /\ exp10 \in Int /\ expPart \in Nat /\ sawDigit \in BOOLEAN
      /\ MaxLen \in Nat \ {0} /\ MaxSigDigits \in Nat \ {0} /\ MaxExp10 \in Nat /\ TinyExpCap \in Nat
  BY BoundsAssumption, TinyAssumption DEF DigitsInv, TypeOK
<1>4. TrueExp10 \in Int
  BY <1>3 DEF TrueExp10
<1>5. DigitsExp10 \in -MaxLen + 1 .. 0
  <2>1. Len(text) \in Nat /\ Len(text) <= MaxLen + 1
    BY <1>3, TextRead DEF DigitsInv, TextInv
  <2>2. DigitsExp10 = IF p < e THEN p + 1 - e ELSE 0
    BY DEF NumberRead, DigitsRead
  <2>. QED  BY <1>3, <2>1, <2>2
<1>6. ASSUME outcome = "number"
      PROVE  /\ number.exp10 \in -MaxExp10 .. MaxExp10 => number.exp10 = TrueExp10
             /\ number.exp10 \in -MaxExp10 .. MaxExp10 <=> TrueExp10 \in -MaxExp10 .. MaxExp10
  <2>1. CASE number.exp10 = TrueExp10
    BY <2>1
  <2>2. ASSUME NEW part \in Nat, TinyExpCap <= part, part <= truePart,
               \/ number.exp10 = DigitsExp10 - part /\ TrueExp10 = DigitsExp10 - truePart
               \/ number.exp10 = DigitsExp10 + part /\ TrueExp10 = DigitsExp10 + truePart
        PROVE  number.exp10 \notin -MaxExp10 .. MaxExp10 /\ TrueExp10 \notin -MaxExp10 .. MaxExp10
    <3>1. TinyExpCap <= truePart
      BY <1>3, <2>2
    <3>2. /\ DigitsExp10 - part \notin -MaxExp10 .. MaxExp10 /\ DigitsExp10 + part \notin -MaxExp10 .. MaxExp10
          /\ DigitsExp10 - truePart \notin -MaxExp10 .. MaxExp10 /\ DigitsExp10 + truePart \notin -MaxExp10 .. MaxExp10
      BY <1>3, <1>5, <2>2, <3>1, CappedIsPast
    <3>. QED  BY <2>2, <3>2, Zenon
  <2>. QED  BY <1>1, <1>6, <2>1, <2>2, Zenon
<1>7. /\ digits.sawDigit = sawDigit /\ digits.sawNonzero = sawNonzero
      /\ digits.tooManySig <=> sigDigits > MaxSigDigits
      /\ ~digits.tooManySig => digits.sig = exact
  BY <1>1 DEF ReadAlike
<1>8. ASSUME sawNonzero, ~digits.tooManySig PROVE exact \in 1 .. 10 ^ MaxSigDigits - 1
  <2>1. 10 ^ (k - 1) <= exact /\ exact < 10 ^ k /\ k > 0 /\ k < Len(text)
    BY <1>8 DEF DigitsInv, CountsDigits, TextInv
  <2>2. k <= MaxSigDigits /\ k \in 0 .. MaxSigDigits + MaxExp10 /\ k - 1 \in 0 .. MaxSigDigits + MaxExp10
        /\ MaxSigDigits \in 0 .. MaxSigDigits + MaxExp10
    BY <1>3, <1>7, <1>8, <2>1
  <2>3. 10 ^ (k - 1) \in Nat \ {0} /\ 10 ^ k \in Nat /\ 10 ^ MaxSigDigits \in Nat /\ 10 ^ k <= 10 ^ MaxSigDigits
    BY <2>2, TinyPowers
  <2>. QED  BY <1>3, <2>1, <2>3
<1>9. ~sawNonzero => exact = 0
  BY DEF DigitsInv, CountsDigits
<1> HIDE DEF digits, number, answer
<1>10. CASE ~digits.sawDigit
  <2>1. answer = Rejected
    BY <1>2, <1>10
  <2>. QED  BY <1>1, <1>7, <1>10, <2>1 DEF NumberAnswered, answer, number
<1>11. CASE digits.sawDigit /\ ~digits.sawNonzero
  <2>1. answer = Answer("OK", 0, number.length)
    BY <1>2, <1>11
  <2>2. answer.status = "OK" /\ answer.bits = 0 /\ answer.length = number.length
    BY <2>1 DEF Answer
  <2>3. IsNearest(exact, TrueExp10, 0) /\ IsExactly(exact, TrueExp10, 0)
    BY <1>4, <1>7, <1>9, <1>11, ZeroIsZero
  <2>. QED  BY <1>1, <1>7, <1>11, <2>2, <2>3 DEF NumberAnswered, answer, number
<1>12. CASE digits.sawDigit /\ digits.sawNonzero /\ ~inRange
  <2>1. answer = Answer("OUT_OF_RANGE", 0, number.length)
    BY <1>2, <1>12
  <2>2. answer.status = "OUT_OF_RANGE" /\ answer.length = number.length
    BY <2>1 DEF Answer
  <2>. QED  BY <1>1, <1>6, <1>7, <1>12, <2>2 DEF NumberAnswered, answer, number
<1>13. CASE digits.sawDigit /\ digits.sawNonzero /\ inRange
  <2>1. answer = MqToDouble(digits.sig, number.exp10, number.length)
    BY <1>2, <1>13
  <2>2. digits.sig = exact /\ exact \in 1 .. 10 ^ MaxSigDigits - 1 /\ number.exp10 \in -MaxExp10 .. MaxExp10
    BY <1>7, <1>8, <1>13
  <2>3. /\ answer.status \in {"OK", "INEXACT"} /\ answer.length = number.length
        /\ IsNearest(exact, number.exp10, answer.bits)
        /\ answer.status = "OK" <=> IsExactly(exact, number.exp10, answer.bits)
    <3> DEFINE e10 == number.exp10
               length == number.length
    <3>1. e10 \in -MaxExp10 .. MaxExp10 /\ answer = MqToDouble(exact, e10, length)
      BY <2>1, <2>2
    <3> HIDE DEF e10, length
    <3>2. LET a == MqToDouble(exact, e10, length)
          IN  /\ a.status \in {"OK", "INEXACT"} /\ a.length = length
              /\ IsNearest(exact, e10, a.bits)
              /\ a.status = "OK" <=> IsExactly(exact, e10, a.bits)
      BY <2>2, <3>1, ConvertsToNearest
    <3>. QED  BY <3>1, <3>2 DEF e10, length
  <2>4. ASSUME outcome = "number" PROVE NumberAnswered(answer)
    <3>1. number.exp10 = TrueExp10 /\ TrueExp10 \in -MaxExp10 .. MaxExp10 /\ ~(sigDigits > MaxSigDigits)
          /\ number.length = parsedLen
      BY <1>1, <1>6, <1>7, <1>13, <2>2, <2>4
    <3>2. answer.status # "INVALID" /\ answer.status # "OUT_OF_RANGE"
      BY <2>3
    <3>. QED  BY <2>3, <2>4, <3>1, <3>2 DEF NumberAnswered
  <2>5. outcome = "number"
    BY <1>1, <1>7, <1>13
  <2>. QED  BY <2>4, <2>5 DEF answer, number
<1>. QED  BY <1>10, <1>11, <1>12, <1>13

\* It starts where the lexer has started, at a sign or without.
LEMMA StartIs ==
  ASSUME TypeOK, NEW a \in 1 .. Len(text), NEW b \in a .. a + 1, Begun(a, b)
  PROVE  /\ RunEnd(1, {Space}) = a /\ AfterSignAt(a) = b /\ b \in 1 .. Len(text)
         /\ text[b] = Inf => Tiny = Answer("OK", InfBits, b)
         /\ text[b] = Nan => Tiny = Answer("OK", InfBits + (Hidden \div 2), b)
         /\ text[b] \notin {Inf, Nan} => Tiny = Decimal(Number(b))
<1>1. Len(text) \in Nat \ {0} /\ 1 \in 1 .. Len(text) /\ a \in 1 .. Len(text) /\ a \in Nat /\ b \in Nat
  BY TextRead
<1>2. AllIn(text, 1, a - 1, {Space}) /\ text[a] \notin {Space} /\ b = SignEnd(a) /\ b <= Len(text) /\ text[a] # End
  BY DEF Begun, Begins
<1>3. RunEnd(1, {Space}) = a
  BY <1>1, <1>2, RunEndIs
<1>4. AfterSignAt(a) = b
  BY <1>2 DEF AfterSignAt, SignEnd
<1>5. b \in 1 .. Len(text)
  BY <1>1, <1>2
<1>6. /\ text[a] # End
      /\ Tiny = CASE text[a] = End -> Rejected
                  [] text[a] # End /\ text[b] = Inf -> Answer("OK", InfBits, b)
                  [] text[a] # End /\ text[b] = Nan -> Answer("OK", InfBits + (Hidden \div 2), b)
                  [] text[a] # End /\ text[b] \notin {Inf, Nan} -> Decimal(Number(b))
  BY <1>2, <1>3, <1>4, Zenon DEF Tiny
<1>7. Inf # Nan
  BY DEF Inf, Nan
<1>8. text[b] = Inf => Tiny = Answer("OK", InfBits, b)
  BY <1>6, <1>7
<1>9. text[b] = Nan => Tiny = Answer("OK", InfBits + (Hidden \div 2), b)
  BY <1>6, <1>7
<1>10. text[b] \notin {Inf, Nan} => Tiny = Decimal(Number(b))
  BY <1>6
<1>. QED  BY <1>3, <1>4, <1>5, <1>8, <1>9, <1>10

\* The call, held against what the lexer has come to.
LEMMA CallIs ==
  ASSUME DigitsInv, TwinInv, ShortTexts, phase = "done"
  PROVE  /\ outcome \in {"number", "inf", "nan", "invalid"}
         /\ outcome = "inf" => Tiny = Answer("OK", InfBits, parsedLen)
         /\ outcome = "nan" => /\ Tiny = Answer("OK", InfBits + (Hidden \div 2), Index)
                               /\ parsedLen = IF Here = Payload THEN Index + 1 ELSE Index
         /\ outcome \in {"number", "invalid"} => NumberAnswered(Tiny)
         /\ outcome = "invalid" => parsedLen = 0
<1>1. TypeOK /\ Len(text) \in Nat \ {0} /\ Index = Len(text) - 1 /\ Here = text[Len(text)] /\ Index \in Nat
      /\ outcome \in Outcomes
  BY TextRead DEF DigitsInv, TypeOK
<1>2. outcome \in {"number", "inf", "nan", "invalid"} /\ (outcome = "invalid" => parsedLen = 0)
  BY <1>1 DEF TwinInv, Outcomes
<1>3. ASSUME outcome \in {"inf", "nan"}
      PROVE  /\ outcome = "inf" => Tiny = Answer("OK", InfBits, parsedLen)
             /\ outcome = "nan" => /\ Tiny = Answer("OK", InfBits + (Hidden \div 2), Index)
                                   /\ parsedLen = IF Here = Payload THEN Index + 1 ELSE Index
  <2>1. PICK a \in 1 .. Len(text) : \E b \in a .. a + 1 :
          /\ Begun(a, b)
          /\ outcome = "inf" => b = Len(text) /\ text[b] = Inf /\ parsedLen = b
          /\ outcome = "nan" => /\ b = Index /\ text[b] = Nan
                                /\ parsedLen = IF Here = Payload THEN Len(text) ELSE Index
    BY <1>3, Zenon DEF TwinInv
  <2>2. PICK b \in a .. a + 1 :
          /\ Begun(a, b)
          /\ outcome = "inf" => b = Len(text) /\ text[b] = Inf /\ parsedLen = b
          /\ outcome = "nan" => /\ b = Index /\ text[b] = Nan
                                /\ parsedLen = IF Here = Payload THEN Len(text) ELSE Index
    BY <2>1
  <2>3. /\ text[b] = Inf => Tiny = Answer("OK", InfBits, b)
        /\ text[b] = Nan => Tiny = Answer("OK", InfBits + (Hidden \div 2), b)
    BY <1>1, <2>2, StartIs
  <2>. QED  BY <1>1, <2>2, <2>3
<1>4. ASSUME outcome \in {"number", "invalid"}
      PROVE  NumberAnswered(Tiny)
  <2>1. CASE outcome = "invalid" /\ Here = End /\ AllIn(text, 1, Index, {Space})
    <3> DEFINE n == Len(text)
    <3>1. text[n] \notin {Space} /\ AllIn(text, 1, n - 1, {Space}) /\ n \in 1 .. Len(text) /\ 1 \in 1 .. Len(text)
      BY <1>1, <2>1 DEF End, Space
    <3>2. RunEnd(1, {Space}) = n
      BY <1>1, <3>1, RunEndIs
    <3>3. text[n] = End
      BY <1>1, <2>1
    <3> HIDE DEF n
    <3>4. Tiny = Rejected
      BY <3>2, <3>3, Zenon DEF Tiny
    <3>. QED  BY <2>1, <3>4 DEF NumberAnswered
  <2>2. CASE \E a \in 1 .. Len(text) : \E b \in a .. a + 1 :
               Begun(a, b) /\ \E p, e \in 1 .. Len(text) : b <= p /\ p <= e /\ NumberRead(b, p, e)
    <3>0. PICK a \in 1 .. Len(text) : \E b \in a .. a + 1 :
            Begun(a, b) /\ \E p, e \in 1 .. Len(text) : b <= p /\ p <= e /\ NumberRead(b, p, e)
      BY <2>2
    <3>1. PICK b \in a .. a + 1, p \in 1 .. Len(text), e \in 1 .. Len(text) :
            Begun(a, b) /\ b <= p /\ p <= e /\ NumberRead(b, p, e)
      BY <3>0
    <3>2. b \in 1 .. Len(text) /\ (text[b] \notin {Inf, Nan} => Tiny = Decimal(Number(b)))
      BY <1>1, <3>1, StartIs
    <3>3. text[b] \notin {Inf, Nan}
      BY <3>1 DEF NumberRead, DigitsRead
    <3>4. Tiny = Decimal(Number(b))
      BY <3>2, <3>3
    <3>5. NumberAnswered(Decimal(Number(b)))
      BY <1>4, <3>1, <3>2, NumberAnswers
    <3>. QED  BY <3>4, <3>5
  <2>3. phase \notin {"space", "word", "payload"} /\ outcome \notin {"inf", "nan"}
    BY <1>4
  <2>. QED  BY <2>1, <2>2, <2>3, Zenon DEF TwinInv
<1>. QED  BY <1>2, <1>3, <1>4

LEMMA CallStarts == TInit => CallInv
<1> SUFFICES ASSUME TInit PROVE CallInv
  OBVIOUS
<1>1. Init /\ tiny = NotCalled
  BY DEF TInit
<1>. QED  BY <1>1, LexerStarts, ReadStarts, TwinStarts DEF CallInv, TinyInv

LEMMA CallStep == CallInv /\ [TNext]_<<vars, tiny>> => CallInv'
<1> SUFFICES ASSUME CallInv, [TNext]_<<vars, tiny>> PROVE CallInv'
  OBVIOUS
<1>1. DigitsInv /\ ReadInv /\ TwinInv /\ TinyInv /\ TypeOK
  BY DEF CallInv, DigitsInv
<1>2. [Next]_vars
  BY DEF TNext, ReadOn, CallTiny
<1>3. DigitsInv' /\ ReadInv' /\ TwinInv'
  <2>1. DigitsInv'
    BY <1>1, <1>2, InvStep
  <2>. QED  BY <1>1, <1>2, <2>1, ReadStep, TwinStep
<1>4. TinyInv'
  <2>1. ASSUME UNCHANGED vars PROVE UNCHANGED Tiny
    <3>1. UNCHANGED text
      BY <2>1 DEF vars
    <3>2. \A k, symbols : RunEnd(k, symbols)' = RunEnd(k, symbols) /\ AfterSignAt(k)' = AfterSignAt(k)
      BY <3>1 DEF RunEnd, AfterSignAt
    <3>3. \A k : Number(k)' = Number(k)
      BY <3>1, SMTT(60) DEF Number, RunEnd, AfterSignAt
    <3> DEFINE start == RunEnd(1, {Space})
               first == text[start]
               k == AfterSignAt(start)
               next == text[k]
               number == Decimal(Number(k))
    <3>4. UNCHANGED <<first, k, next>>
      BY <3>1, <3>2
    <3>5. UNCHANGED number
      BY <3>3, <3>4
    <3>6. Tiny = CASE first = End -> Rejected
                   [] first # End /\ next = Inf -> Answer("OK", InfBits, k)
                   [] first # End /\ next = Nan -> Answer("OK", InfBits + (Hidden \div 2), k)
                   [] first # End /\ next \notin {Inf, Nan} -> number
      BY Zenon DEF Tiny
    <3>7. Tiny' = CASE first' = End -> Rejected
                    [] first' # End /\ next' = Inf -> Answer("OK", InfBits, k')
                    [] first' # End /\ next' = Nan -> Answer("OK", InfBits + (Hidden \div 2), k')
                    [] first' # End /\ next' \notin {Inf, Nan} -> number'
      BY Zenon DEF Tiny
    <3> HIDE DEF first, k, next, number
    <3>. QED  BY <3>4, <3>5, <3>6, <3>7
  <2>2. CASE ReadOn
    <3>1. phase # "done"
      BY <2>2 DEF ReadOn, Next, SkipSpace, Empty, Sign, Infinity, NotANumber, NanPayload, NoWord,
                  IntDigit, IntEnd, FracDigit, FracEnd, NoDigits, NoExponent, Exponent, ExpSign,
                  ExpDigit, ExpEnd
    <3>2. tiny' = NotCalled
      BY <1>1, <2>2, <3>1 DEF TinyInv, ReadOn
    <3>. QED  BY <3>2 DEF TinyInv, NotCalled, Answer
  <2>3. CASE CallTiny
    <3>1. phase' = "done" /\ tiny' = Tiny /\ UNCHANGED vars
      BY <2>3 DEF CallTiny, vars
    <3>. QED  BY <2>1, <3>1 DEF TinyInv
  <2>4. CASE UNCHANGED <<vars, tiny>>
    <3>1. UNCHANGED <<phase, tiny, Tiny, NotCalled>>
      BY <2>1, <2>4 DEF vars, NotCalled, Answer
    <3>. QED  BY <1>1, <3>1 DEF TinyInv
  <2>. QED  BY <2>2, <2>3, <2>4 DEF TNext
<1>. QED  BY <1>3, <1>4 DEF CallInv

(***************************************************************************)
(* The tiny parser is called at the end of the text, and what its loops    *)
(* come to there is what the lexer has counted: where the text starts and  *)
(* ends, how many digits it has, what they spell, and the exponent, or     *)
(* that both have stopped counting it.                                     *)
(***************************************************************************)
THEOREM CallInvariance == TSpec => []CallInv
<1>. QED  BY CallStarts, CallStep, PTL DEF TSpec

(***************************************************************************)
(* The tiny parser refuses what the full parser finds no number in and     *)
(* what is outside of its limits, nothing else, and ends where the full    *)
(* parser ends, on every text too short for its digits to make up for an   *)
(* exponent that no longer grows (at most 999981 bytes in the code).       *)
(***************************************************************************)
THEOREM ContractKept ==
  ASSUME ShortTexts
  PROVE  TSpec => []TinyKeepsItsContract
<1>1. CallInv => TinyKeepsItsContract
  <2> SUFFICES ASSUME CallInv, Answers PROVE TinyKeepsItsContract
    BY DEF TinyKeepsItsContract
  <2>1. DigitsInv /\ TwinInv /\ phase = "done" /\ tiny = Tiny
    BY DEF CallInv, TinyInv, Answers
  <2>2. /\ outcome \in {"number", "inf", "nan", "invalid"}
        /\ outcome = "inf" => tiny = Answer("OK", InfBits, parsedLen)
        /\ outcome = "nan" => /\ tiny = Answer("OK", InfBits + (Hidden \div 2), Index)
                              /\ parsedLen = IF Here = Payload THEN Index + 1 ELSE Index
        /\ outcome \in {"number", "invalid"} => NumberAnswered(tiny)
        /\ outcome = "invalid" => parsedLen = 0
    BY <2>1, CallIs
  <2>3. Index \in Nat
    BY <2>1, TextRead DEF DigitsInv
  <2>4. CASE outcome = "inf"
    <3>1. tiny.status = "OK" /\ tiny.length = parsedLen
      BY <2>2, <2>4 DEF Answer
    <3>. QED  BY <2>4, <3>1 DEF TinyKeepsItsContract
  <2>5. CASE outcome = "nan"
    <3>1. /\ tiny.status = "OK" /\ tiny.length = Index
          /\ parsedLen = IF Here = Payload THEN Index + 1 ELSE Index
      BY <2>2, <2>5 DEF Answer
    <3>. QED  BY <2>3, <2>5, <3>1 DEF TinyKeepsItsContract
  <2>6. CASE outcome = "invalid"
    <3>1. tiny.status = "INVALID" /\ tiny.length = 0 /\ parsedLen = 0
      BY <2>2, <2>6 DEF NumberAnswered, Rejected, Answer
    <3>. QED  BY <2>6, <3>1 DEF TinyKeepsItsContract
  <2>7. CASE outcome = "number"
    BY <2>2, <2>7 DEF NumberAnswered, TinyKeepsItsContract
  <2>. QED  BY <2>2, <2>4, <2>5, <2>6, <2>7
<1>. QED  BY <1>1, CallInvariance, PTL

(***************************************************************************)
(* Within its limits the tiny parser is correctly rounded, ties to even,   *)
(* and says OK exactly when the text is the number it answers: for every   *)
(* format, size of word and such text, not for the samples of the run.     *)
(***************************************************************************)
THEOREM NearestAnswered ==
  ASSUME ShortTexts
  PROVE  TSpec => []TinyIsNearest
<1>1. CallInv => TinyIsNearest
  <2> SUFFICES ASSUME CallInv, HasNumber PROVE TinyIsNearest
    BY DEF TinyIsNearest
  <2>1. DigitsInv /\ TwinInv /\ phase = "done" /\ tiny = Tiny /\ outcome = "number"
        /\ tiny.status \in {"OK", "INEXACT"}
    BY DEF CallInv, TinyInv, HasNumber, Answers
  <2>2. NumberAnswered(tiny)
    BY <2>1, CallIs
  <2>. QED  BY <2>1, <2>2 DEF NumberAnswered, TinyIsNearest
<1>. QED  BY <1>1, CallInvariance, PTL

=============================================================================
