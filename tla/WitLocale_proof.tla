-------------------------- MODULE WitLocale_proof ---------------------------
(***************************************************************************)
(* Proofs about WitLocale: the places the normalisation keeps lead back to *)
(* the bytes of the text, and only a misplaced separator is refused, for   *)
(* every locale, every text and every size of the buffers.                 *)
(***************************************************************************)
EXTENDS WitLocale, SequenceTheorems, WellFoundedInduction, TLAPS

---------------------------------------------------------------------------
(* The invariant. *)

Reading == pc \in {"start", "special", "token", "scan", "expSign", "expDigits", "end"}
Small == Len(text) < PlaceMod
StartsWithDigit == Distinct /\ text # <<>> /\ text[1] \in Digits

TypeInv ==
  /\ pc \in {"format", "parse", "done"} \/ Reading
  /\ pc = "format" => number \in Numbers
  /\ locale \in Locales /\ text \in Seq(Nat)
  /\ si \in 0 .. Len(text) /\ norm \in Seq(Nat) /\ map \in Seq(Nat)
  /\ inInteger \in BOOLEAN /\ lastWasSep \in BOOLEAN /\ sawDigit \in BOOLEAN

\* What the flags of the loop say of each other and of the last byte kept.
FlagInv ==
  /\ pc \in {"format", "start"} => si = 0 /\ norm = <<>> /\ map = <<>>
  /\ pc \in {"format", "start", "special", "token"} => inInteger /\ ~lastWasSep /\ ~sawDigit
  /\ pc \in {"expSign", "expDigits"} => ~inInteger
  /\ lastWasSep => inInteger /\ sawDigit /\ Len(norm) < NormCap
  /\ inInteger /\ sawDigit => si > 0 /\ norm # <<>> /\ norm[Len(norm)] \in Digits

\* Between the bytes j and j + 1 there is nothing, or one separator between digits.
Gap(j) == /\ norm[j] \in Digits /\ norm[j + 1] \in Digits
          /\ SubSeq(text, EndOf(j) + 1, map[j + 1]) = locale.sep
Chained == \A j \in 1 .. Len(norm) - 1 : map[j + 1] = EndOf(j) \/ Gap(j)

\* And so it is between the last byte and the place read.
PlaceInv ==
  Reading =>
    /\ Len(map) = Len(norm)
    /\ Small => Chained
    /\ Small /\ norm # <<>> /\ ~lastWasSep => si = EndOf(Len(norm))
    /\ Small /\ norm # <<>> /\ lastWasSep => SubSeq(text, EndOf(Len(norm)) + 1, si) = locale.sep

\* The separator just read, and what may follow where the scan has ended on it.
SepInv ==
  lastWasSep => /\ locale.sep # <<>> /\ si - Len(locale.sep) >= 1
                /\ SubSeq(text, si - Len(locale.sep) + 1, si) = locale.sep
                /\ pc = "end" => si = Len(text) \/ text[si + 1] \notin Digits

\* A text that starts with a digit leaves one, and gets past the first byte.
FirstInv ==
  StartsWithDigit =>
    /\ norm # <<>> => norm[1] \in Digits
    /\ pc = "special" => norm = <<>> /\ si = 0
    /\ pc = "scan" /\ norm = <<>> => si = 0 /\ inInteger
    /\ pc \in {"end", "expSign", "expDigits", "parse"} => norm # <<>>
    /\ pc # "token"

\* The map as it is handed to the parser, its last place included.
ParseInv ==
  pc = "parse" =>
    /\ Len(map) = Len(norm) + 1
    /\ Small => Chained
    /\ Small /\ norm # <<>> => map[Len(norm) + 1] = EndOf(Len(norm))

Inv == /\ TypeInv /\ FlagInv /\ PlaceInv /\ SepInv /\ FirstInv /\ ParseInv
       /\ LengthIsConsumed /\ RefusesMisplacedOnly

---------------------------------------------------------------------------
(* Sets of positions, and what the grammar says of a prefix. *)

\* A set of positions that is not empty has a last one.
LEMMA LastOne ==
  ASSUME NEW n \in Nat, NEW S \in SUBSET (1 .. n), S # {}
  PROVE  \E k \in S : \A l \in S : l <= k
<1> DEFINE T == {n - k : k \in S}
<1>1. T \subseteq Nat /\ T # {}
  <2>1. \A k \in S : n - k \in Nat
    OBVIOUS
  <2> QED
    BY <2>1
<1>2. PICK x \in T : \A y \in T : ~(<<y, x>> \in OpToRel(<, Nat))
  BY <1>1, NatLessThanWellFounded, WFMin
<1>3. \A y \in T : ~(y < x)
  BY <1>1, <1>2 DEF OpToRel
<1>4. PICK k \in S : x = n - k
  OBVIOUS
<1>5. ASSUME NEW l \in S
      PROVE  l <= k
  BY <1>3, <1>4, n - l \in T
<1> QED
  BY <1>5

\* What holds of positions at which two texts agree.
LEMMA Agreeing ==
  ASSUME NEW u, NEW v, NEW k \in Nat, \A i \in 1 .. k : u[i] = v[i],
         NEW a \in Nat, a >= 1, NEW b \in Int, b <= k, NEW S, AllIn(u, a, b, S)
  PROVE  AllIn(v, a, b, S)
<1>1. ASSUME NEW i \in a .. b
      PROVE  v[i] \in S
  <2>1. u[i] \in S
    BY DEF AllIn
  <2>2. i \in 1 .. k
    OBVIOUS
  <2> QED
    BY <2>1, <2>2
<1> QED
  BY <1>1 DEF AllIn

\* A digit on its own is a numeral.
LEMMA OneDigit ==
  ASSUME NEW w \in Seq(Nat), w # <<>>, w[1] \in Digits
  PROVE  IsNumeral(SubSeq(w, 1, 1))
<1> DEFINE u == SubSeq(w, 1, 1)
<1>1. Len(u) = 1 /\ u[1] = w[1]
  <2>1. Len(w) >= 1
    OBVIOUS
  <2> QED
    BY <2>1
<1> HIDE DEF u
<1>2. 1 \in AfterSign(u, 1)
  BY DEF AfterSign
<1>3. AllIn(u, 1, 0, {Space}) /\ AllIn(u, 1, 1, Digits \cup {Point})
  BY <1>1 DEF AllIn
<1>4. u[1] # Point
  BY <1>1 DEF Digits, Point
<1>5. \A k \in 1 .. 2 - 1 : u[k] = Point => AllIn(u, k + 1, 2 - 1, Digits)
  BY <1>4
<1>6. \E k \in 1 .. 2 - 1 : u[k] \in Digits
  BY <1>1
<1> QED
  BY <1>1, <1>2, <1>3, <1>5, <1>6 DEF IsNumeral, u

\* A numeral that ends in a digit goes on with the next digit.
LEMMA LongerNumeral ==
  ASSUME NEW w \in Seq(Nat), NEW k \in 1 .. Len(w) - 1, IsNumeral(SubSeq(w, 1, k)),
         w[k] \in Digits, w[k + 1] \in Digits
  PROVE  IsNumeral(SubSeq(w, 1, k + 1))
<1> DEFINE u == SubSeq(w, 1, k)
           v == SubSeq(w, 1, k + 1)
<1>1. /\ Len(u) = k /\ Len(v) = k + 1
      /\ \A i \in 1 .. k : u[i] = v[i]
      /\ v[k] \in Digits /\ v[k + 1] \in Digits
  OBVIOUS
<1>2. PICK a \in 1 .. Len(u) :
        /\ AllIn(u, 1, a - 1, {Space})
        /\ \E b \in AfterSign(u, a), e \in 1 .. Len(u) + 1 :
             /\ e = Len(u) + 1 \/ IsExponent(u, e)
             /\ AllIn(u, b, e - 1, Digits \cup {Point})
             /\ \E i \in b .. e - 1 : u[i] \in Digits
             /\ \A i \in b .. e - 1 : u[i] = Point => AllIn(u, i + 1, e - 1, Digits)
  BY DEF IsNumeral
<1>3. PICK b \in AfterSign(u, a), e \in 1 .. Len(u) + 1 :
             /\ e = Len(u) + 1 \/ IsExponent(u, e)
             /\ AllIn(u, b, e - 1, Digits \cup {Point})
             /\ \E i \in b .. e - 1 : u[i] \in Digits
             /\ \A i \in b .. e - 1 : u[i] = Point => AllIn(u, i + 1, e - 1, Digits)
  BY <1>2
<1> HIDE DEF u, v
<1>4. AllIn(v, 1, a - 1, {Space}) /\ a \in 1 .. Len(v)
  <2>1. a \in 1 .. k /\ a \in 1 .. Len(v)
    BY <1>1
  <2>2. \A i \in 1 .. a - 1 : u[i] \in {Space}
    BY <1>2 DEF AllIn
  <2>3. \A i \in 1 .. a - 1 : i \in 1 .. k
    BY <2>1
  <2>4. \A i \in 1 .. a - 1 : v[i] \in {Space}
    BY <1>1, <2>2, <2>3
  <2> QED
    BY <2>1, <2>4 DEF AllIn
<1>5. b \in AfterSign(v, a) /\ b \in Nat /\ b >= 1
  BY <1>1, <1>3 DEF AfterSign
<1>10. k \in Nat /\ \A i \in 1 .. k : u[i] = v[i]
  BY <1>1
<1>6. CASE e = Len(u) + 1
  <2> DEFINE f == k + 2
  <2>1. AllIn(v, b, f - 1, Digits \cup {Point})
    BY <1>1, <1>3, <1>5, <1>6 DEF AllIn
  <2>2. \E i \in b .. f - 1 : v[i] \in Digits
    BY <1>1, <1>3, <1>5, <1>6
  <2>3. v[k + 1] # Point
    BY <1>1, SMTT(60) DEF Digits, Point
  <2>4. \A i \in b .. f - 1 : v[i] = Point => AllIn(v, i + 1, f - 1, Digits)
    BY <1>1, <1>3, <1>5, <1>6, <2>3, SMTT(60) DEF AllIn
  <2>5. f \in 1 .. Len(v) + 1 /\ f = Len(v) + 1
    BY <1>1
  <2> HIDE DEF f
  <2> QED
    BY <1>4, <1>5, <2>1, <2>2, <2>4, <2>5 DEF IsNumeral, v
<1>7. CASE e # Len(u) + 1
  <2>1. IsExponent(u, e) /\ e \in 1 .. k
    BY <1>1, <1>3, <1>7
  <2>2. PICK d \in AfterSign(u, e + 1) : d <= Len(u) /\ AllIn(u, d, Len(u), Digits)
    BY <2>1 DEF IsExponent
  <2>3. e < k /\ u[e] = Exp
    BY <1>1, <2>1 DEF IsExponent
  <2>4. d \in AfterSign(v, e + 1) /\ d \in Nat /\ d >= 1 /\ d <= k + 1
    BY <1>1, <2>1, <2>2, <2>3 DEF AfterSign
  <2>5. AllIn(v, d, Len(v), Digits)
    <3>1. AllIn(v, d, k, Digits)
      <4>1. AllIn(u, d, k, Digits) /\ d \in Nat /\ d >= 1 /\ k \in Int /\ k <= k
        BY <1>1, <2>2, <2>4
      <4> QED
        BY <1>10, <4>1, Agreeing
    <3> QED
      BY <1>1, <2>4, <3>1 DEF AllIn
  <2>6. IsExponent(v, e)
    BY <1>1, <2>1, <2>3, <2>4, <2>5 DEF IsExponent
  <2>7. AllIn(v, b, e - 1, Digits \cup {Point})
    <3>1. e - 1 \in Int /\ e - 1 <= k
      BY <2>1
    <3> QED
      BY <1>10, <1>3, <1>5, <3>1, Agreeing
  <2>8. \E i \in b .. e - 1 : v[i] \in Digits
    BY <1>1, <1>3, <1>5, <2>1
  <2>9. ASSUME NEW i \in b .. e - 1, v[i] = Point
        PROVE  AllIn(v, i + 1, e - 1, Digits)
    <3>1. i \in 1 .. k /\ e - 1 \in Int /\ e - 1 <= k /\ i + 1 \in Nat /\ i + 1 >= 1
      BY <1>5, <2>1
    <3>2. AllIn(u, i + 1, e - 1, Digits)
      BY <1>1, <1>3, <2>9, <3>1
    <3> QED
      BY <1>10, <3>1, <3>2, Agreeing
  <2> QED
    <3>1. e \in 1 .. Len(v) + 1
      BY <1>1, <2>1
    <3>2. IsNumeral(v)
      BY <1>4, <1>5, <2>6, <2>7, <2>8, <2>9, <3>1 DEF IsNumeral
    <3> QED
      BY <3>2 DEF v
<1> QED
  BY <1>6, <1>7

\* The length the parser consumes is the longest of those it could.
LEMMA Parsed ==
  ASSUME NEW w \in Seq(Nat)
  PROVE  /\ ParsedLen(w) \in 0 .. Len(w)
         /\ ParsedLen(w) = 0 => w = <<>> \/ w[1] \notin Digits
         /\ ParsedLen(w) \in 1 .. Len(w) - 1 =>
              ~(w[ParsedLen(w)] \in Digits /\ w[ParsedLen(w) + 1] \in Digits)
<1> DEFINE S == {k \in 1 .. Len(w) : IsNumeral(SubSeq(w, 1, k)) \/ IsWord(SubSeq(w, 1, k))}
           p == ParsedLen(w)
<1>1. w # <<>> /\ w[1] \in Digits => 1 \in S
  BY OneDigit
<1>2. CASE S = {}
  <2>1. p = 0
    BY <1>2 DEF ParsedLen
  <2> QED
    BY <1>1, <1>2, <2>1
<1>3. CASE S # {}
  <2>1. S \in SUBSET (1 .. Len(w)) /\ Len(w) \in Nat
    OBVIOUS
  <2>2. \E k \in S : \A l \in S : l <= k
    BY <1>3, <2>1, LastOne
  <2>3. p \in S /\ \A l \in S : l <= p
    BY <1>3, <2>2 DEF ParsedLen
  <2>4. ASSUME p \in 1 .. Len(w) - 1, w[p] \in Digits, w[p + 1] \in Digits
        PROVE  FALSE
    <3>1. p \in 1 .. Len(w) /\ Len(SubSeq(w, 1, p)) = p /\ SubSeq(w, 1, p)[p] = w[p]
      BY <2>4
    <3>2. ~IsWord(SubSeq(w, 1, p))
      <4> DEFINE u == SubSeq(w, 1, p)
      <4>1. Len(u) = p /\ u[Len(u)] \in Digits
        BY <2>4, <3>1
      <4> HIDE DEF u
      <4>2. IsWord(u) => u[Len(u)] \in Words
        BY DEF IsWord
      <4>3. \A x \in Digits : x \notin Words
        BY DEF Digits, Words, Inf, Nan
      <4>4. ~IsWord(u)
        BY <4>1, <4>2, <4>3
      <4> QED
        BY <4>4 DEF u
    <3>3. IsNumeral(SubSeq(w, 1, p + 1))
      BY <2>3, <2>4, <3>2, LongerNumeral
    <3> QED
      BY <2>3, <2>4, <3>3
  <2> QED
    BY <2>1, <2>3, <2>4
<1> QED
  BY <1>2, <1>3

---------------------------------------------------------------------------
(* The steps. *)

\* A place below PlaceMod is kept as it is, any other as some number.
LEMMA Kept ==
  ASSUME NEW x \in Nat
  PROVE  x % PlaceMod \in Nat /\ (x < PlaceMod => x % PlaceMod = x)
<1> DEFINE d == PlaceMod
           q == x \div d
           r == x % d
<1>1. d \in Nat \ {0}
  BY CapAssumption
<1> HIDE DEF d
<1>2. q \in Int /\ r \in 0 .. d - 1 /\ x = d * q + r
  BY <1>1
<1> HIDE DEF q, r
<1>3. ASSUME x < d
      PROVE  r = x
  <2>1. CASE q >= 1
    <3>1. d * q >= d * 1
      BY <1>1, <1>2, <2>1
    <3> QED
      BY <1>1, <1>2, <1>3, <3>1
  <2>2. CASE q <= -1
    <3>1. d * (-q) >= d * 1
      BY <1>1, <1>2, <2>2
    <3>2. d * (-q) = -(d * q)
      BY <1>1, <1>2
    <3> QED
      BY <1>1, <1>2, <3>1, <3>2
  <2>3. CASE q = 0
    BY <1>1, <1>2, <2>3
  <2> QED
    BY <1>2, <2>1, <2>2, <2>3
<1>4. r \in Nat
  BY <1>1, <1>2
<1> QED
  BY <1>3, <1>4 DEF r, d

\* Where the call is not over, there is nothing to say of its answer.
LEMMA NotDone ==
  ASSUME pc' # "done"
  PROVE  LengthIsConsumed' /\ RefusesMisplacedOnly'
BY DEF LengthIsConsumed, Accepted, RefusesMisplacedOnly

\* The bytes of a locale are sequences, those of a text numbers.
LEMMA Bytes ==
  ASSUME TypeInv
  PROVE  /\ locale.dp \in Seq(Nat) /\ locale.sep \in Seq(Nat)
         /\ More => Here \in Nat /\ si + 1 \in 1 .. Len(text)
BY LocaleAssumption DEF TypeInv, More, Here

\* A byte is kept behind the others, with the place it came from.
LEMMA EmitInv ==
  ASSUME TypeInv, PlaceInv, Reading, NEW c \in Nat, NEW n \in Nat, Emit(c, n),
         si + n <= Len(text), n = IF c = Point THEN Len(locale.dp) ELSE 1,
         lastWasSep => c \in Digits /\ norm # <<>> /\ norm[Len(norm)] \in Digits,
         UNCHANGED <<text, locale>>
  PROVE  /\ norm' \in Seq(Nat) /\ map' \in Seq(Nat) /\ si' \in 0 .. Len(text')
         /\ Len(norm') = Len(norm) + 1 /\ Len(map') = Len(norm')
         /\ norm' # <<>> /\ norm'[Len(norm')] = c
         /\ IF norm = <<>> THEN norm'[1] = c ELSE norm'[1] = norm[1]
         /\ Small' => Chained' /\ si' = EndOf(Len(norm))'
<1>1. /\ norm \in Seq(Nat) /\ map \in Seq(Nat) /\ si \in 0 .. Len(text) /\ Len(text) \in Nat
      /\ Len(map) = Len(norm) /\ locale.dp \in Seq(Nat)
  BY LocaleAssumption DEF TypeInv, PlaceInv
<1>2. /\ norm' = Append(norm, c) /\ map' = Append(map, si % PlaceMod) /\ si' = si + n
  BY DEF Emit
<1>3. si % PlaceMod \in Nat
  BY <1>1, Kept
<1>4. /\ norm' \in Seq(Nat) /\ map' \in Seq(Nat) /\ si' \in 0 .. Len(text')
      /\ Len(norm') = Len(norm) + 1 /\ Len(map') = Len(norm') /\ norm' # <<>>
      /\ \A i \in 1 .. Len(norm) : norm'[i] = norm[i] /\ map'[i] = map[i]
      /\ norm'[Len(norm) + 1] = c /\ map'[Len(norm) + 1] = si % PlaceMod
      /\ Len(norm) \in Nat /\ text' = text /\ locale' = locale
  <2>1. /\ norm' \in Seq(Nat) /\ Len(norm') = Len(norm) + 1
        /\ \A i \in 1 .. Len(norm) : norm'[i] = norm[i]
        /\ norm'[Len(norm) + 1] = c
    BY <1>1, <1>2, AppendProperties
  <2>2. /\ map' \in Seq(Nat) /\ Len(map') = Len(map) + 1
        /\ \A i \in 1 .. Len(map) : map'[i] = map[i]
        /\ map'[Len(map) + 1] = si % PlaceMod
    BY <1>1, <1>2, <1>3, AppendProperties
  <2>3. si' \in 0 .. Len(text') /\ text' = text /\ locale' = locale
    BY <1>1, <1>2
  <2> QED
    <3>1. norm' # <<>> /\ Len(norm) \in Nat
      BY <1>1, <2>1
    <3> QED
      BY <1>1, <2>1, <2>2, <2>3, <3>1
<1>5. IF norm = <<>> THEN norm'[1] = c ELSE norm'[1] = norm[1]
  BY <1>1, <1>4
<1>6. ASSUME Small'
      PROVE  Chained' /\ si' = EndOf(Len(norm))'
  <2>1. Small /\ si % PlaceMod = si
    <3>1. Small /\ si \in Nat /\ si < PlaceMod
      BY <1>1, <1>4, <1>6, CapAssumption DEF Small
    <3> QED
      BY <3>1, Kept
  <2>2. \A i \in 1 .. Len(norm) : EndOf(i)' = EndOf(i)
    BY <1>4 DEF EndOf
  <2>3. EndOf(Len(norm))' = si'
    BY <1>2, <1>4, <2>1 DEF EndOf
  <2>4. ASSUME NEW j \in 1 .. Len(norm') - 1
        PROVE  map'[j + 1] = EndOf(j)' \/ Gap(j)'
    <3>1. CASE j < Len(norm)
      <4>1. map[j + 1] = EndOf(j) \/ Gap(j)
        BY <1>4, <2>1, <3>1 DEF PlaceInv, Chained
      <4>2. j \in 1 .. Len(norm) /\ j + 1 \in 1 .. Len(norm)
        BY <1>4, <3>1
      <4> QED
        BY <1>4, <2>2, <4>1, <4>2 DEF Gap
    <3>2. CASE j = Len(norm)
      <4>1. norm # <<>> /\ j \in 1 .. Len(norm) /\ norm[j] = norm'[j]
        BY <1>1, <1>4, <3>2
      <4>2. CASE ~lastWasSep
        BY <1>4, <2>1, <2>2, <3>2, <4>1, <4>2 DEF PlaceInv
      <4>3. CASE lastWasSep
        <5>1. SubSeq(text, EndOf(j) + 1, si) = locale.sep
          BY <2>1, <3>2, <4>1, <4>3 DEF PlaceInv
        <5>2. norm'[j] \in Digits /\ norm'[j + 1] \in Digits
          BY <1>4, <3>2, <4>1, <4>3
        <5> QED
          BY <1>4, <2>1, <2>2, <3>2, <4>1, <5>1, <5>2 DEF Gap
      <4> QED
        BY <4>2, <4>3
    <3> QED
      BY <1>1, <1>4, <3>1, <3>2
  <2>5. Chained'
    BY <2>4 DEF Chained
  <2> QED
    BY <1>4, <2>3, <2>5
<1> QED
  BY <1>4, <1>5, <1>6

\* A number to format, or a text typed, before the first byte is read.
LEMMA InitInv == ASSUME Init PROVE Inv
<1>1. /\ pc \in {"format", "start"} /\ locale \in Locales
      /\ pc = "format" => number \in Numbers
      /\ text = <<>> \/ text \in Typed
      /\ si = 0 /\ norm = <<>> /\ map = <<>>
      /\ inInteger = TRUE /\ lastWasSep = FALSE /\ sawDigit = FALSE
  BY DEF Init
<1>2. TypeInv
  <2>0. <<>> \in Seq(Nat)
    OBVIOUS
  <2>1. text \in Seq(Nat)
    <3>1. Typed \subseteq Seq(Nat)
      BY TextAssumption
    <3> QED
      BY <1>1, <2>0, <3>1
  <2>2. Len(text) \in Nat
    BY <2>1
  <2>3. si \in 0 .. Len(text)
    BY <1>1, <2>2
  <2> QED
    BY <1>1, <2>0, <2>1, <2>3 DEF TypeInv, Reading
<1>3. FlagInv /\ SepInv /\ FirstInv /\ ParseInv
  BY <1>1 DEF FlagInv, SepInv, FirstInv, ParseInv
<1>4. PlaceInv
  BY <1>1 DEF PlaceInv, Chained
<1>5. LengthIsConsumed /\ RefusesMisplacedOnly
  BY <1>1 DEF LengthIsConsumed, Accepted, RefusesMisplacedOnly
<1> QED
  BY <1>2, <1>3, <1>4, <1>5 DEF Inv

\* format-f64 leaves the parser at the beginning.
LEMMA FormatInv == ASSUME Inv, Format PROVE Inv'
<1>1. /\ pc = "format" /\ pc' = "start"
      /\ UNCHANGED <<number, locale, si, norm, map, inInteger, lastWasSep, sawDigit, outcome>>
      /\ TypeInv /\ FlagInv
  BY DEF Inv, Format, scanning
<1>2. text' \in Seq(Nat)
  <2>1. PICK rule \in Rules, flag \in Flags :
          text' = ApplyWidth(ApplyLocale(number, locale, rule), flag)
    BY DEF Format
  <2>2. number \in Numbers /\ locale \in Locales
    BY <1>1 DEF TypeInv
  <2>3. text' \in Formatted
    BY <2>1, <2>2 DEF Formatted
  <2> QED
    BY <2>3, TextAssumption
<1>3. si = 0 /\ norm = <<>> /\ map = <<>> /\ inInteger /\ ~lastWasSep /\ ~sawDigit
  BY <1>1 DEF FlagInv
<1>4. TypeInv'
  BY <1>1, <1>2, <1>3 DEF TypeInv, Reading
<1>5. FlagInv' /\ SepInv' /\ FirstInv' /\ ParseInv'
  BY <1>1, <1>3 DEF FlagInv, SepInv, FirstInv, ParseInv
<1>6. PlaceInv'
  BY <1>1, <1>3 DEF PlaceInv, Chained
<1> QED
  BY <1>1, <1>4, <1>5, <1>6, NotDone DEF Inv

\* In the C locale each byte is its own place.
LEMMA DirectInv == ASSUME Inv, Direct PROVE Inv'
<1>0. locale.dp = <<Point>>
  BY LocaleAssumption DEF Inv, TypeInv, Direct, IsCLocale, Point
<1>1. /\ pc = "start" /\ pc' = "parse" /\ locale.dp = <<Point>>
      /\ norm' = text /\ map' = [k \in 1 .. Len(text) + 1 |-> k - 1]
      /\ UNCHANGED <<number, locale, text, si, inInteger, lastWasSep, sawDigit, outcome>>
      /\ TypeInv /\ FlagInv
  BY <1>0 DEF Inv, Direct, input
<1>2. text \in Seq(Nat) /\ Len(text) \in Nat /\ inInteger /\ ~lastWasSep /\ ~sawDigit
  BY <1>1 DEF TypeInv, FlagInv
<1>3. map' \in Seq(Nat) /\ Len(map') = Len(text) + 1
  <2>1. map' \in [1 .. Len(text) + 1 -> Nat]
    BY <1>1, <1>2
  <2> QED
    BY <1>2, <2>1, LenProperties, SeqDef
<1>4. TypeInv'
  BY <1>1, <1>2, <1>3 DEF TypeInv, Reading
<1>5. FlagInv' /\ SepInv' /\ PlaceInv'
  BY <1>1, <1>2 DEF FlagInv, SepInv, PlaceInv, Reading
<1>6. FirstInv'
  BY <1>1 DEF FirstInv, StartsWithDigit, Distinct
<1>7. \A k \in 1 .. Len(text) : EndOf(k)' = k
  <2>1. Len(locale'.dp) = 1
    BY <1>1
  <2>2. \A k \in 1 .. Len(text) : map'[k] = k - 1
    BY <1>1, <1>2
  <2> QED
    BY <2>1, <2>2 DEF EndOf
<1>8. ParseInv'
  <2>1. \A k \in 1 .. Len(text) : map'[k + 1] = EndOf(k)'
    BY <1>1, <1>2, <1>7
  <2>2. Chained'
    BY <1>1, <1>2, <2>1 DEF Chained
  <2>3. norm' # <<>> => map'[Len(norm') + 1] = EndOf(Len(norm))'
    BY <1>1, <1>2, <1>7, <2>1
  <2> QED
    BY <1>1, <1>3, <2>2, <2>3 DEF ParseInv
<1> QED
  BY <1>1, <1>4, <1>5, <1>6, <1>8, NotDone DEF Inv

\* What a step leaves alone it leaves as true as it was.
LEMMA SamePlaces ==
  ASSUME PlaceInv, Reading, UNCHANGED <<text, locale, si, norm, map, lastWasSep>>
  PROVE  PlaceInv'
BY DEF PlaceInv, Chained, Gap, EndOf, Small

\* The sign in front is kept.
LEMMA OptionalSignInv == ASSUME Inv, OptionalSign PROVE Inv'
<1>1. /\ pc = "start" /\ pc' = "special" /\ Reading
      /\ UNCHANGED <<number, locale, text, inInteger, lastWasSep, sawDigit, outcome>>
      /\ TypeInv /\ FlagInv /\ PlaceInv /\ FirstInv
      /\ si = 0 /\ norm = <<>> /\ map = <<>> /\ inInteger /\ ~lastWasSep /\ ~sawDigit
  BY DEF Inv, OptionalSign, input, NothingSeen, FlagInv, Reading
<1>2. CASE More /\ Here \in Signs
  <2>1. Keep /\ Here \in Nat /\ Here # Point /\ Here \notin Digits /\ si + 1 <= Len(text) /\ Here = text[1]
    BY <1>1, <1>2, Bytes DEF OptionalSign, Signs, Plus, Minus, Point, Digits, More, Here
  <2>2. /\ norm' \in Seq(Nat) /\ map' \in Seq(Nat) /\ si' \in 0 .. Len(text')
        /\ Len(map') = Len(norm')
        /\ Small' => Chained' /\ si' = EndOf(Len(norm))'
    BY <1>1, <2>1, EmitInv DEF Keep
  <2>3. TypeInv' /\ FlagInv' /\ SepInv' /\ ParseInv'
    BY <1>1, <2>2 DEF TypeInv, Reading, FlagInv, SepInv, ParseInv
  <2>4. PlaceInv'
    BY <1>1, <2>2 DEF PlaceInv
  <2>5. FirstInv'
    BY <1>1, <2>1 DEF FirstInv, StartsWithDigit
  <2> QED
    BY <1>1, <2>3, <2>4, <2>5, NotDone DEF Inv
<1>3. CASE ~(More /\ Here \in Signs)
  <2>1. UNCHANGED <<si, norm, map>>
    BY <1>3 DEF OptionalSign
  <2>2. TypeInv' /\ FlagInv' /\ SepInv' /\ ParseInv' /\ FirstInv'
    BY <1>1, <2>1 DEF TypeInv, Reading, FlagInv, SepInv, ParseInv, FirstInv, StartsWithDigit, Distinct
  <2> QED
    BY <1>1, <2>1, <2>2, SamePlaces, NotDone DEF Inv
<1> QED
  BY <1>2, <1>3

\* A digit in front is no word.
LEMMA SpecialInv == ASSUME Inv, Special PROVE Inv'
<1>1. /\ pc = "special" /\ Reading /\ pc' \in {"token", "scan"}
      /\ UNCHANGED <<number, locale, text, si, norm, map, inInteger, lastWasSep, sawDigit, outcome>>
      /\ TypeInv /\ FlagInv /\ PlaceInv /\ FirstInv
      /\ inInteger /\ ~lastWasSep /\ ~sawDigit
  BY DEF Inv, Special, input, scanning, FlagInv, Reading
<1>2. TypeInv' /\ FlagInv' /\ SepInv' /\ ParseInv'
  BY <1>1 DEF TypeInv, Reading, FlagInv, SepInv, ParseInv
<1>3. FirstInv'
  <2>1. ASSUME StartsWithDigit
        PROVE  pc' = "scan" /\ norm = <<>> /\ si = 0
    <3>1. norm = <<>> /\ si = 0 /\ text[1] \in Digits
      BY <1>1, <2>1 DEF FirstInv, StartsWithDigit
    <3>2. ~(More /\ Here \in Words)
      BY <3>1 DEF Here, Words, Digits, Inf, Nan
    <3> QED
      BY <3>1, <3>2 DEF Special
  <2> QED
    BY <1>1, <2>1 DEF FirstInv, StartsWithDigit, Distinct
<1> QED
  BY <1>1, <1>2, <1>3, SamePlaces, NotDone DEF Inv

\* The bytes of a word are kept.
LEMMA TokenInv == ASSUME Inv, Token PROVE Inv'
<1>1. /\ pc = "token" /\ pc' = pc /\ Reading /\ More /\ Here \in TokenBytes /\ Keep
      /\ UNCHANGED <<number, locale, text, inInteger, lastWasSep, sawDigit, outcome>>
      /\ TypeInv /\ FlagInv /\ PlaceInv /\ FirstInv
      /\ inInteger /\ ~lastWasSep /\ ~sawDigit
  BY DEF Inv, Token, input, NothingSeen, FlagInv, Reading
<1>2. Here \in Nat /\ Here # Point /\ si + 1 <= Len(text)
  BY <1>1, Bytes DEF TokenBytes, Words, Digits, Inf, Nan, Exp, Payload, HexMark, Power, Point
<1>3. /\ norm' \in Seq(Nat) /\ map' \in Seq(Nat) /\ si' \in 0 .. Len(text')
      /\ Len(map') = Len(norm')
      /\ Small' => Chained' /\ si' = EndOf(Len(norm))'
  BY <1>1, <1>2, EmitInv DEF Keep
<1>4. TypeInv' /\ FlagInv' /\ SepInv' /\ ParseInv'
  BY <1>1, <1>3 DEF TypeInv, Reading, FlagInv, SepInv, ParseInv
<1>5. PlaceInv'
  BY <1>1, <1>3 DEF PlaceInv
<1>6. FirstInv'
  BY <1>1 DEF FirstInv, StartsWithDigit, Distinct
<1> QED
  BY <1>1, <1>4, <1>5, <1>6, NotDone DEF Inv

\* A word ends where its bytes do.
LEMMA TokenEndInv == ASSUME Inv, TokenEnd PROVE Inv'
<1>1. /\ pc = "token" /\ pc' = "end" /\ Reading
      /\ UNCHANGED <<number, locale, text, si, norm, map, inInteger, lastWasSep, sawDigit, outcome>>
      /\ TypeInv /\ FlagInv /\ PlaceInv /\ FirstInv
      /\ inInteger /\ ~lastWasSep /\ ~sawDigit
  BY DEF Inv, TokenEnd, input, scanning, FlagInv, Reading
<1>2. TypeInv' /\ FlagInv' /\ SepInv' /\ ParseInv'
  BY <1>1 DEF TypeInv, Reading, FlagInv, SepInv, ParseInv
<1>3. FirstInv'
  BY <1>1 DEF FirstInv, StartsWithDigit, Distinct
<1> QED
  BY <1>1, <1>2, <1>3, SamePlaces, NotDone DEF Inv

\* The separator's bytes are skipped.
LEMMA SeparatorInv == ASSUME Inv, Separator PROVE Inv'
<1>1. /\ pc = "scan" /\ pc' = pc /\ Reading /\ Len(norm) < NormCap
      /\ si' = si + Len(locale.sep) /\ lastWasSep' = TRUE /\ ~lastWasSep
      /\ inInteger /\ sawDigit /\ locale.sep # <<>>
      /\ si + Len(locale.sep) <= Len(text)
      /\ SubSeq(text, si + 1, si + Len(locale.sep)) = locale.sep
      /\ UNCHANGED <<number, locale, text, norm, map, inInteger, sawDigit, outcome>>
      /\ TypeInv /\ FlagInv /\ PlaceInv /\ FirstInv
  BY DEF Inv, Separator, Scanning, Room, AtSeparator, StartsWith, input, Reading
<1>2. /\ si > 0 /\ norm # <<>> /\ norm[Len(norm)] \in Digits
      /\ si \in Nat /\ Len(text) \in Nat /\ Len(locale.sep) \in Nat
  BY <1>1, LocaleAssumption DEF FlagInv, TypeInv
<1>3. TypeInv'
  BY <1>1, <1>2 DEF TypeInv, Reading
<1>4. FlagInv'
  BY <1>1, <1>2 DEF FlagInv
<1>5. PlaceInv'
  <2>1. Small' = Small /\ Chained' = Chained /\ EndOf(Len(norm))' = EndOf(Len(norm))
    BY <1>1 DEF Small, Chained, Gap, EndOf
  <2>2. Small => si = EndOf(Len(norm))
    BY <1>1, <1>2 DEF PlaceInv
  <2>3. Small => SubSeq(text, EndOf(Len(norm)) + 1, si') = locale.sep
    BY <1>1, <2>2
  <2> QED
    BY <1>1, <2>1, <2>3 DEF PlaceInv
<1>6. SepInv'
  BY <1>1, <1>2 DEF SepInv
<1>7. FirstInv' /\ ParseInv'
  BY <1>1, <1>2 DEF FirstInv, ParseInv, StartsWithDigit, Distinct
<1> QED
  BY <1>1, <1>3, <1>4, <1>5, <1>6, <1>7, NotDone DEF Inv

\* A separator that no digit follows is the reason for the refusal.
LEMMA Misfit ==
  ASSUME TypeInv, lastWasSep, SepInv, si = Len(text) \/ text[si + 1] \notin Digits,
         UNCHANGED <<text, locale>>
  PROVE  RefusesMisplacedOnly'
<1>1. /\ locale.sep # <<>> /\ si - Len(locale.sep) >= 1
      /\ SubSeq(text, si - Len(locale.sep) + 1, si) = locale.sep
      /\ si \in 0 .. Len(text) /\ Len(text) \in Nat
  <2>1. text \in Seq(Nat) /\ si \in 0 .. Len(text)
    BY DEF TypeInv
  <2>2. Len(text) \in Nat
    BY <2>1
  <2> QED
    BY <2>1, <2>2 DEF SepInv
<1>2. Len(locale.sep) \in Nat /\ Len(locale.sep) >= 1
  <2>1. locale.sep \in Seq(Nat)
    BY LocaleAssumption DEF TypeInv
  <2> QED
    BY <1>1, <2>1
<1> DEFINE k == si - Len(locale.sep) + 1
<1>3. k = si - Len(locale.sep) + 1
  OBVIOUS
<1> HIDE DEF k
<1>4. k \in 2 .. Len(text) /\ k + Len(locale.sep) = si + 1 /\ (k + Len(locale.sep)) - 1 = si
  BY <1>1, <1>2, <1>3
<1>5. SubSeq(text, k, (k + Len(locale.sep)) - 1) = locale.sep
  BY <1>1, <1>3, <1>4
<1>6. k + Len(locale.sep) <= Len(text) + 1
  BY <1>1, <1>4
<1>7. k + Len(locale.sep) > Len(text) \/ text[k + Len(locale.sep)] \notin Digits
  BY <1>1, <1>4
<1> QED
  BY <1>1, <1>4, <1>5, <1>6, <1>7 DEF RefusesMisplacedOnly

\* Neither a separator nor a decimal point begins with a digit.
LEMMA AtFirstByte ==
  ASSUME Distinct, More, TypeInv, AtSeparator \/ AtPoint
  PROVE  Here \notin Digits
<1>1. /\ locale.dp \in Seq(Nat) /\ locale.sep \in Seq(Nat) /\ text \in Seq(Nat)
      /\ si \in Nat /\ Len(text) \in Nat
  BY LocaleAssumption DEF TypeInv
<1>2. ASSUME NEW w \in Seq(Nat), w # <<>>, StartsWith(w)
      PROVE  Here = w[1]
  <2>1. Len(w) \in Nat /\ Len(w) >= 1
    BY <1>2
  <2>2. si + Len(w) <= Len(text) /\ SubSeq(text, si + 1, si + Len(w)) = w
    BY <1>2 DEF StartsWith
  <2>3. SubSeq(text, si + 1, si + Len(w))[1] = text[si + 1]
    BY <1>1, <2>1, <2>2
  <2> QED
    BY <2>2, <2>3 DEF Here
<1>3. CASE AtSeparator
  <2>1. locale.sep # <<>> /\ StartsWith(locale.sep) /\ locale.sep[1] \notin Digits
    BY <1>3 DEF AtSeparator, Distinct
  <2> QED
    BY <1>1, <1>2, <2>1
<1>4. CASE AtPoint
  <2>1. locale.dp # <<>> /\ StartsWith(locale.dp) /\ locale.dp[1] \notin Digits
    BY <1>4 DEF AtPoint, Distinct
  <2> QED
    BY <1>1, <1>2, <2>1
<1> QED
  BY <1>3, <1>4

\* Once the call has refused the text, only the reason matters.
LEMMA RefusedInv ==
  ASSUME Inv, Refuse, RefusesMisplacedOnly'
  PROVE  Inv'
<1>1. /\ pc' = "done" /\ outcome' = Refused
      /\ UNCHANGED <<number, locale, text, si, norm, map, inInteger, lastWasSep, sawDigit>>
      /\ TypeInv /\ FlagInv /\ SepInv /\ FirstInv
  BY DEF Inv, Refuse, input, scanning
<1>2. TypeInv' /\ FlagInv' /\ PlaceInv' /\ ParseInv'
  BY <1>1 DEF TypeInv, FlagInv, PlaceInv, ParseInv, Reading
<1>3. SepInv' /\ FirstInv'
  BY <1>1 DEF SepInv, FirstInv, StartsWithDigit, Distinct
<1>4. LengthIsConsumed'
  BY <1>1 DEF LengthIsConsumed, Accepted, Refused
<1> QED
  BY <1>2, <1>3, <1>4 DEF Inv

\* The scan refuses a separator that a separator, the point or the exponent follows.
LEMMA MisplacedInv == ASSUME Inv, Misplaced PROVE Inv'
<1>1. /\ pc = "scan" /\ More /\ lastWasSep /\ Refuse /\ TypeInv /\ SepInv
      /\ AtSeparator \/ AtPoint \/ Here = Exp
      /\ UNCHANGED <<text, locale>> /\ text' = text /\ locale' = locale
  BY DEF Inv, Misplaced, Scanning, AtExponent, Refuse, input
<1>2. CASE Distinct
  <2>1. Here \notin Digits
    <3>1. Exp \notin Digits
      BY DEF Exp, Digits
    <3> QED
      BY <1>1, <1>2, <3>1, AtFirstByte
  <2> QED
    BY <1>1, <2>1, Misfit, RefusedInv DEF Here
<1>3. CASE ~Distinct
  <2>1. RefusesMisplacedOnly'
    BY <1>1, <1>3 DEF RefusesMisplacedOnly, Distinct
  <2> QED
    BY <1>1, <2>1, RefusedInv
<1> QED
  BY <1>2, <1>3

\* At the first byte of a text that starts with a digit there is neither separator nor point.
LEMMA FirstByte ==
  ASSUME TypeInv, FlagInv, FirstInv, StartsWithDigit, pc = "scan", norm = <<>>
  PROVE  /\ More /\ Room /\ AtDigit /\ ~AtSeparator /\ ~AtPoint /\ ~AtExponent
<1>1. si = 0 /\ inInteger /\ ~sawDigit /\ Distinct /\ text \in Seq(Nat) /\ text # <<>>
  BY DEF FirstInv, FlagInv, StartsWithDigit, TypeInv
<1>2. More /\ Room
  BY <1>1, CapAssumption DEF More, Room
<1>3. Here \in Digits
  BY <1>1 DEF Here, StartsWithDigit
<1>4. ~AtSeparator /\ ~AtPoint
  BY <1>1, <1>2, <1>3, AtFirstByte
<1> QED
  BY <1>1, <1>2, <1>3, <1>4 DEF AtDigit, AtExponent

\* The locale's decimal point becomes one byte.
LEMMA DecimalPointInv == ASSUME Inv, DecimalPoint PROVE Inv'
<1>1. /\ pc = "scan" /\ pc' = pc /\ Reading /\ AtPoint /\ ~lastWasSep /\ inInteger' = FALSE
      /\ Emit(Point, Len(locale.dp)) /\ si + Len(locale.dp) <= Len(text)
      /\ UNCHANGED <<number, locale, text, lastWasSep, sawDigit, outcome>>
      /\ TypeInv /\ FlagInv /\ PlaceInv /\ FirstInv
  BY DEF Inv, DecimalPoint, Scanning, AtPoint, StartsWith, input, Reading
<1>2. Point \in Nat /\ Len(locale.dp) \in Nat
  BY <1>1, Bytes DEF Point
<1>3. /\ norm' \in Seq(Nat) /\ map' \in Seq(Nat) /\ si' \in 0 .. Len(text')
      /\ Len(map') = Len(norm') /\ norm' # <<>>
      /\ IF norm = <<>> THEN norm'[1] = Point ELSE norm'[1] = norm[1]
      /\ Small' => Chained' /\ si' = EndOf(Len(norm))'
  BY <1>1, <1>2, EmitInv
<1>4. TypeInv' /\ FlagInv' /\ SepInv' /\ ParseInv'
  BY <1>1, <1>3 DEF TypeInv, Reading, FlagInv, SepInv, ParseInv
<1>5. PlaceInv'
  BY <1>1, <1>3 DEF PlaceInv
<1>6. FirstInv'
  <2>1. StartsWithDigit' = StartsWithDigit
    BY <1>1 DEF StartsWithDigit, Distinct
  <2>2. StartsWithDigit => norm # <<>>
    BY <1>1, FirstByte
  <2> QED
    BY <1>1, <1>3, <2>1, <2>2 DEF FirstInv
<1> QED
  BY <1>1, <1>4, <1>5, <1>6, NotDone DEF Inv

\* A digit takes back the mark of the separator before it.
LEMMA DigitInv == ASSUME Inv, Digit PROVE Inv'
<1>1. /\ pc = "scan" /\ pc' = pc /\ Reading /\ More /\ Here \in Digits /\ Keep
      /\ lastWasSep' = FALSE /\ sawDigit' = TRUE
      /\ UNCHANGED <<number, locale, text, inInteger, outcome>>
      /\ TypeInv /\ FlagInv /\ PlaceInv /\ FirstInv
  BY DEF Inv, Digit, Scanning, AtDigit, input, Reading
<1>2. Here \in Nat /\ Here # Point /\ si \in Nat /\ si' = si + 1 /\ si + 1 <= Len(text)
  BY <1>1, Bytes DEF Digits, Point, Keep, Emit, TypeInv, More
<1>3. lastWasSep => norm # <<>> /\ norm[Len(norm)] \in Digits
  BY <1>1 DEF FlagInv
<1>4. /\ norm' \in Seq(Nat) /\ map' \in Seq(Nat) /\ si' \in 0 .. Len(text')
      /\ Len(map') = Len(norm') /\ norm' # <<>> /\ norm'[Len(norm')] = Here
      /\ IF norm = <<>> THEN norm'[1] = Here ELSE norm'[1] = norm[1]
      /\ Small' => Chained' /\ si' = EndOf(Len(norm))'
  BY <1>1, <1>2, <1>3, EmitInv DEF Keep
<1>5. TypeInv' /\ FlagInv' /\ SepInv' /\ ParseInv'
  <2>1. TypeInv'
    BY <1>1, <1>4 DEF TypeInv, Reading
  <2>2. FlagInv'
    BY <1>1, <1>2, <1>4 DEF FlagInv
  <2> QED
    BY <1>1, <2>1, <2>2 DEF SepInv, ParseInv
<1>6. PlaceInv'
  BY <1>1, <1>4 DEF PlaceInv
<1>7. FirstInv'
  BY <1>1, <1>4 DEF FirstInv, StartsWithDigit, Distinct
<1> QED
  BY <1>1, <1>5, <1>6, <1>7, NotDone DEF Inv

\* The exponent ends the integer part.
LEMMA ExponentInv == ASSUME Inv, Exponent PROVE Inv'
<1>1. /\ pc = "scan" /\ pc' = "expSign" /\ Reading /\ More /\ Here = Exp /\ Keep
      /\ AtExponent /\ ~(inInteger /\ lastWasSep) /\ inInteger' = FALSE
      /\ UNCHANGED <<number, locale, text, lastWasSep, sawDigit, outcome>>
      /\ TypeInv /\ FlagInv /\ PlaceInv /\ FirstInv
  BY DEF Inv, Exponent, Scanning, AtExponent, input, Reading
<1>2. Here \in Nat /\ Here # Point /\ si + 1 <= Len(text) /\ ~lastWasSep
  BY <1>1, Bytes DEF Exp, Point, FlagInv
<1>3. /\ norm' \in Seq(Nat) /\ map' \in Seq(Nat) /\ si' \in 0 .. Len(text')
      /\ Len(map') = Len(norm') /\ norm' # <<>>
      /\ IF norm = <<>> THEN norm'[1] = Here ELSE norm'[1] = norm[1]
      /\ Small' => Chained' /\ si' = EndOf(Len(norm))'
  BY <1>1, <1>2, EmitInv DEF Keep
<1>4. TypeInv' /\ FlagInv' /\ SepInv' /\ ParseInv'
  BY <1>1, <1>2, <1>3 DEF TypeInv, Reading, FlagInv, SepInv, ParseInv
<1>5. PlaceInv'
  BY <1>1, <1>2, <1>3 DEF PlaceInv
<1>6. FirstInv'
  <2>1. StartsWithDigit' = StartsWithDigit
    BY <1>1 DEF StartsWithDigit, Distinct
  <2>2. StartsWithDigit => norm # <<>>
    BY <1>1, FirstByte
  <2> QED
    BY <1>1, <1>3, <2>1, <2>2 DEF FirstInv
<1> QED
  BY <1>1, <1>4, <1>5, <1>6, NotDone DEF Inv

\* The sign of the exponent is kept.
LEMMA ExpSignInv == ASSUME Inv, ExpSign PROVE Inv'
<1>1. /\ pc = "expSign" /\ pc' = "expDigits" /\ Reading
      /\ UNCHANGED <<number, locale, text, inInteger, lastWasSep, sawDigit, outcome>>
      /\ TypeInv /\ FlagInv /\ PlaceInv /\ FirstInv /\ ~inInteger /\ ~lastWasSep
  BY DEF Inv, ExpSign, input, NothingSeen, FlagInv, Reading
<1>2. StartsWithDigit' = StartsWithDigit /\ (StartsWithDigit => norm # <<>>)
  BY <1>1 DEF FirstInv, StartsWithDigit, Distinct
<1>3. CASE More /\ Room /\ Here \in Signs
  <2>1. Keep /\ Here \in Nat /\ Here # Point /\ si + 1 <= Len(text)
    BY <1>1, <1>3, Bytes DEF ExpSign, Signs, Plus, Minus, Point
  <2>2. /\ norm' \in Seq(Nat) /\ map' \in Seq(Nat) /\ si' \in 0 .. Len(text')
        /\ Len(map') = Len(norm') /\ norm' # <<>>
        /\ IF norm = <<>> THEN norm'[1] = Here ELSE norm'[1] = norm[1]
        /\ Small' => Chained' /\ si' = EndOf(Len(norm))'
    BY <1>1, <2>1, EmitInv DEF Keep
  <2>3. TypeInv' /\ FlagInv' /\ SepInv' /\ ParseInv'
    BY <1>1, <2>2 DEF TypeInv, Reading, FlagInv, SepInv, ParseInv
  <2>4. PlaceInv'
    BY <1>1, <2>2 DEF PlaceInv
  <2>5. FirstInv'
    BY <1>1, <1>2, <2>2 DEF FirstInv
  <2> QED
    BY <1>1, <2>3, <2>4, <2>5, NotDone DEF Inv
<1>4. CASE ~(More /\ Room /\ Here \in Signs)
  <2>1. UNCHANGED <<si, norm, map>>
    BY <1>4 DEF ExpSign
  <2>2. TypeInv' /\ FlagInv' /\ SepInv' /\ ParseInv'
    BY <1>1, <2>1 DEF TypeInv, Reading, FlagInv, SepInv, ParseInv
  <2>3. FirstInv'
    BY <1>1, <1>2, <2>1 DEF FirstInv
  <2> QED
    BY <1>1, <2>1, <2>2, <2>3, SamePlaces, NotDone DEF Inv
<1> QED
  BY <1>3, <1>4

\* The digits of the exponent are kept.
LEMMA ExpDigitInv == ASSUME Inv, ExpDigit PROVE Inv'
<1>1. /\ pc = "expDigits" /\ pc' = pc /\ Reading /\ More /\ Here \in Digits /\ Keep
      /\ UNCHANGED <<number, locale, text, inInteger, lastWasSep, sawDigit, outcome>>
      /\ TypeInv /\ FlagInv /\ PlaceInv /\ FirstInv /\ ~inInteger /\ ~lastWasSep
  BY DEF Inv, ExpDigit, input, NothingSeen, FlagInv, Reading
<1>2. Here \in Nat /\ Here # Point /\ si + 1 <= Len(text)
  BY <1>1, Bytes DEF Digits, Point
<1>3. /\ norm' \in Seq(Nat) /\ map' \in Seq(Nat) /\ si' \in 0 .. Len(text')
      /\ Len(map') = Len(norm') /\ norm' # <<>>
      /\ IF norm = <<>> THEN norm'[1] = Here ELSE norm'[1] = norm[1]
      /\ Small' => Chained' /\ si' = EndOf(Len(norm))'
  BY <1>1, <1>2, EmitInv DEF Keep
<1>4. TypeInv' /\ FlagInv' /\ SepInv' /\ ParseInv'
  BY <1>1, <1>3 DEF TypeInv, Reading, FlagInv, SepInv, ParseInv
<1>5. PlaceInv'
  BY <1>1, <1>3 DEF PlaceInv
<1>6. FirstInv'
  BY <1>1, <1>3 DEF FirstInv, StartsWithDigit, Distinct
<1> QED
  BY <1>1, <1>4, <1>5, <1>6, NotDone DEF Inv

\* Where the scan ends behind a separator, no digit follows.
LEMMA ScanEndInv == ASSUME Inv, ScanEnd PROVE Inv'
<1>1. /\ pc \in {"scan", "expDigits"} /\ pc' = "end" /\ Reading
      /\ UNCHANGED <<number, locale, text, si, norm, map, inInteger, lastWasSep, sawDigit, outcome>>
      /\ TypeInv /\ FlagInv /\ PlaceInv /\ SepInv /\ FirstInv
  BY DEF Inv, ScanEnd, Scanning, input, scanning, Reading
<1>2. TypeInv' /\ FlagInv' /\ ParseInv'
  BY <1>1 DEF TypeInv, Reading, FlagInv, ParseInv
<1>3. SepInv'
  <2>1. ASSUME lastWasSep
        PROVE  si = Len(text) \/ text[si + 1] \notin Digits
    <3>1. pc = "scan" /\ Room
      BY <1>1, <2>1 DEF FlagInv, Room
    <3>2. CASE ~More
      BY <1>1, <3>2 DEF More, TypeInv
    <3>3. CASE More
      <4>1. ~AtSeparator /\ ~AtPoint /\ ~AtDigit
        BY <3>1, <3>3 DEF ScanEnd
      <4> QED
        BY <4>1 DEF AtDigit, Here
    <3> QED
      BY <3>2, <3>3
  <2> QED
    BY <1>1, <2>1 DEF SepInv
<1>4. FirstInv'
  <2>1. StartsWithDigit' = StartsWithDigit
    BY <1>1 DEF StartsWithDigit, Distinct
  <2>2. ASSUME StartsWithDigit, pc = "scan", norm = <<>>
        PROVE  FALSE
    BY <1>1, <2>2, FirstByte DEF ScanEnd
  <2> QED
    BY <1>1, <2>1, <2>2 DEF FirstInv
<1> QED
  BY <1>1, <1>2, <1>3, <1>4, SamePlaces, NotDone DEF Inv

\* The place after the last byte ends the map.
LEMMA NormEndInv == ASSUME Inv, NormEnd PROVE Inv'
<1>1. /\ pc = "end" /\ pc' = "parse" /\ Reading /\ norm # <<>>
      /\ map' = Append(map, si % PlaceMod) /\ ~(inInteger /\ lastWasSep)
      /\ UNCHANGED <<number, locale, text, si, norm, inInteger, lastWasSep, sawDigit, outcome>>
      /\ TypeInv /\ FlagInv /\ PlaceInv /\ SepInv /\ FirstInv
  BY DEF Inv, NormEnd, input, Reading
<1>2. ~lastWasSep /\ si \in Nat /\ map \in Seq(Nat) /\ Len(map) = Len(norm) /\ Len(norm) \in Nat
  BY <1>1 DEF FlagInv, TypeInv, PlaceInv
<1>3. /\ map' \in Seq(Nat) /\ Len(map') = Len(norm) + 1
      /\ \A i \in 1 .. Len(norm) : map'[i] = map[i]
      /\ map'[Len(norm) + 1] = si % PlaceMod
  <2>1. si % PlaceMod \in Nat
    BY <1>2, Kept
  <2> QED
    BY <1>1, <1>2, <2>1, AppendProperties
<1>4. TypeInv' /\ FlagInv' /\ SepInv' /\ PlaceInv'
  BY <1>1, <1>2, <1>3 DEF TypeInv, Reading, FlagInv, SepInv, PlaceInv
<1>5. FirstInv'
  BY <1>1 DEF FirstInv, StartsWithDigit, Distinct
<1>6. ASSUME Small'
      PROVE  Chained' /\ map'[Len(norm) + 1] = EndOf(Len(norm))'
  <2>1. Small /\ si < PlaceMod
    BY <1>1, <1>6, CapAssumption DEF Small, TypeInv
  <2>2. \A i \in 1 .. Len(norm) : EndOf(i)' = EndOf(i)
    BY <1>1, <1>2, <1>3 DEF EndOf
  <2>3. Len(norm) \in 1 .. Len(norm)
    BY <1>1, <1>2 DEF TypeInv
  <2>4. map'[Len(norm) + 1] = EndOf(Len(norm))'
    <3>1. si = EndOf(Len(norm)) /\ si % PlaceMod = si
      BY <1>1, <1>2, <2>1, Kept DEF PlaceInv
    <3> QED
      BY <1>1, <1>3, <2>2, <2>3, <3>1
  <2>5. ASSUME NEW j \in 1 .. Len(norm) - 1
        PROVE  map'[j + 1] = EndOf(j)' \/ Gap(j)'
    <3>1. map[j + 1] = EndOf(j) \/ Gap(j)
      BY <1>1, <2>1 DEF PlaceInv, Chained
    <3>2. j \in 1 .. Len(norm) /\ j + 1 \in 1 .. Len(norm)
      BY <1>2
    <3> QED
      BY <1>1, <1>3, <2>2, <3>1, <3>2 DEF Gap
  <2> QED
    BY <1>1, <2>4, <2>5 DEF Chained
<1>7. ParseInv'
  BY <1>1, <1>3, <1>6 DEF ParseInv
<1> QED
  BY <1>1, <1>4, <1>5, <1>7, NotDone DEF Inv

\* A separator at the end is refused.
LEMMA NormInvalidInv == ASSUME Inv, NormInvalid PROVE Inv'
<1>1. /\ pc = "end" /\ Refuse /\ TypeInv /\ SepInv /\ FirstInv
      /\ (inInteger /\ lastWasSep) \/ norm = <<>>
      /\ UNCHANGED <<text, locale>>
  BY DEF Inv, NormInvalid, Refuse, input
<1>2. CASE lastWasSep
  <2>1. si = Len(text) \/ text[si + 1] \notin Digits
    BY <1>1, <1>2 DEF SepInv
  <2> QED
    BY <1>1, <1>2, <2>1, Misfit, RefusedInv
<1>3. CASE norm = <<>>
  <2>1. ~StartsWithDigit
    BY <1>1, <1>3 DEF FirstInv
  <2>2. RefusesMisplacedOnly'
    BY <1>1, <2>1 DEF RefusesMisplacedOnly, StartsWithDigit, Distinct
  <2> QED
    BY <1>1, <2>2, RefusedInv
<1> QED
  BY <1>1, <1>2, <1>3

\* The parser's length is looked up in the map.
LEMMA ParseStepInv == ASSUME Inv, Parse PROVE Inv'
<1> DEFINE p == ParsedLen(norm)
<1>1. /\ pc = "parse" /\ pc' = "done"
      /\ outcome' = IF p = 0 THEN Refused
                    ELSE [status |-> "ok", numeral |-> SubSeq(norm, 1, p), length |-> map[p + 1]]
      /\ UNCHANGED <<number, locale, text, si, norm, map, inInteger, lastWasSep, sawDigit>>
      /\ TypeInv /\ FlagInv /\ SepInv /\ FirstInv /\ ParseInv
  BY DEF Inv, Parse, input, scanning
<1>2. norm \in Seq(Nat) /\ Len(norm) \in Nat
  BY <1>1 DEF TypeInv
<1>3. /\ p \in 0 .. Len(norm)
      /\ p = 0 => norm = <<>> \/ norm[1] \notin Digits
      /\ p \in 1 .. Len(norm) - 1 => ~(norm[p] \in Digits /\ norm[p + 1] \in Digits)
  BY <1>2, Parsed
<1> HIDE DEF p
<1>4. TypeInv' /\ FlagInv' /\ PlaceInv' /\ ParseInv'
  BY <1>1 DEF TypeInv, FlagInv, PlaceInv, ParseInv, Reading
<1>5. SepInv' /\ FirstInv'
  BY <1>1 DEF SepInv, FirstInv, StartsWithDigit, Distinct
<1>6. LengthIsConsumed'
  <2>1. SUFFICES ASSUME Accepted', Small'
                 PROVE  /\ outcome'.length = EndOf(Len(outcome.numeral))'
                        /\ \A j \in 1 .. Len(outcome'.numeral) - 1 :
                             map'[j + 1] = EndOf(j)' \/ Gap(j)'
    BY DEF LengthIsConsumed, Small, Gap
  <2>2. p # 0 /\ p \in 1 .. Len(norm)
    BY <1>1, <1>3, <2>1 DEF Accepted, Refused
  <2>3. Len(outcome'.numeral) = p /\ outcome'.length = map[p + 1]
    BY <1>1, <1>2, <2>2
  <2>4. Chained /\ map[Len(norm) + 1] = EndOf(Len(norm))
    BY <1>1, <2>1, <2>2 DEF ParseInv, Small
  <2>5. \A j \in 1 .. Len(norm) - 1 : map[j + 1] = EndOf(j) \/ Gap(j)
    BY <2>4 DEF Chained
  <2>6. map[p + 1] = EndOf(p)
    <3>1. CASE p = Len(norm)
      BY <2>4, <3>1
    <3>2. CASE p # Len(norm)
      <4>1. p \in 1 .. Len(norm) - 1
        BY <1>2, <2>2, <3>2
      <4>2. ~Gap(p)
        BY <1>3, <4>1 DEF Gap
      <4> QED
        BY <2>5, <4>1, <4>2
    <3> QED
      BY <3>1, <3>2
  <2>7. /\ \A j : EndOf(j)' = EndOf(j) /\ (Gap(j)' <=> Gap(j))
        /\ EndOf(Len(outcome.numeral))' = EndOf(Len(outcome'.numeral))
    BY <1>1 DEF EndOf, Gap
  <2>8. \A j \in 1 .. p - 1 : j \in 1 .. Len(norm) - 1
    BY <1>2, <2>2
  <2>9. \A j \in 1 .. p - 1 : map'[j + 1] = EndOf(j)' \/ Gap(j)'
    BY <1>1, <2>5, <2>7, <2>8
  <2> QED
    BY <2>3, <2>6, <2>7, <2>9
<1>7. RefusesMisplacedOnly'
  <2>1. p = 0 => ~StartsWithDigit
    BY <1>1, <1>3 DEF FirstInv
  <2>2. p # 0 => outcome'.status = "ok"
    BY <1>1
  <2>3. StartsWithDigit' = StartsWithDigit
    BY <1>1 DEF StartsWithDigit, Distinct
  <2> QED
    BY <2>1, <2>2, <2>3 DEF RefusesMisplacedOnly, StartsWithDigit
<1> QED
  BY <1>4, <1>5, <1>6, <1>7 DEF Inv

---------------------------------------------------------------------------
(* The theorems. *)

\* Every step of format-f64 and parse-f64, byte for byte, keeps the flags, the
\* places and the reason of a refusal in order.
THEOREM Invariance == Spec => []Inv
<1>1. Init => Inv
  BY InitInv
<1>2. Inv /\ [Next]_vars => Inv'
  <2> SUFFICES ASSUME Inv, [Next]_vars
               PROVE  Inv'
    OBVIOUS
  <2>1. CASE Next
    BY <2>1, FormatInv, DirectInv, OptionalSignInv, SpecialInv, TokenInv, TokenEndInv,
       SeparatorInv, MisplacedInv, DecimalPointInv, DigitInv, ExponentInv, ExpSignInv,
       ExpDigitInv, ScanEndInv, NormEndInv, NormInvalidInv, ParseStepInv DEF Next
  <2>2. CASE UNCHANGED vars
    <3>1. /\ UNCHANGED <<number, locale, text, pc, si, norm, map>>
          /\ UNCHANGED <<inInteger, lastWasSep, sawDigit, outcome>>
      BY <2>2 DEF vars, input, scanning
    <3>2. TypeInv' /\ FlagInv' /\ SepInv' /\ FirstInv'
      BY <3>1 DEF Inv, TypeInv, Reading, FlagInv, SepInv, FirstInv, StartsWithDigit, Distinct
    <3>3. PlaceInv' /\ ParseInv'
      BY <3>1 DEF Inv, PlaceInv, ParseInv, Reading, Small, Chained, Gap, EndOf
    <3>4. LengthIsConsumed' /\ RefusesMisplacedOnly'
      BY <3>1 DEF Inv, LengthIsConsumed, RefusesMisplacedOnly, Accepted, EndOf, Distinct
    <3> QED
      BY <3>2, <3>3, <3>4 DEF Inv
  <2> QED
    BY <2>1, <2>2
<1> QED
  BY <1>1, <1>2, PTL DEF Spec

\* The length parse-f64 reports ends behind the last byte of the numeral it read,
\* and what it skips before are single separators between two digits
\* (normalize_locale_input and its map), for every locale and every text.
THEOREM Places == Spec => []LengthIsConsumed
<1>1. Inv => LengthIsConsumed
  BY DEF Inv
<1> QED
  BY <1>1, Invariance, PTL

\* A text that starts with a digit is refused only where a separator follows a
\* digit and no digit the separator, whatever the size of the buffer.
THEOREM Refusals == Spec => []RefusesMisplacedOnly
<1>1. Inv => RefusesMisplacedOnly
  BY DEF Inv
<1> QED
  BY <1>1, Invariance, PTL
=============================================================================
