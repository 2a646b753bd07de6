----------------------------- MODULE WitLocale ------------------------------
(***************************************************************************)
(* Locales in the WIT layer (src/wit/floats_impl.c): format-f64 turns what *)
(* ryu64_to_printf printed into the text of a locale and pads it, and      *)
(* parse-f64 turns such a text back, byte by byte, into the C locale,      *)
(* keeping for each byte the place it came from.  A behaviour starts from  *)
(* a number to format and then parse, or from a text somebody typed.       *)
(*                                                                         *)
(* Bytes are the symbols of DecimalText, and x and p of the hexadecimal    *)
(* notation.  A name such as inf or nan is one byte.  The values are left  *)
(* out: the texts are what has to agree.                                   *)
(***************************************************************************)
EXTENDS DecimalText, SequencesExt

CONSTANTS
  Numbers,      \* what ryu64_to_printf may print, in the C locale
  Typed,        \* the texts somebody types
  Locales,      \* decimal point and thousands separator, as bytes
  Rules,        \* the ways of grouping digits
  Width,        \* the field width when one is asked for
  OutCap,       \* sizeof localized
  NormCap,      \* sizeof norm_buf
  PlaceMod      \* places are kept as uint16_t

\* tagged: the caller names the point as dot and the separator as none, in place of
\* giving bytes of its own.
ASSUME LocaleAssumption == \A l \in Locales :
  /\ l.dp \in Seq(Nat) /\ l.sep \in Seq(Nat)
  /\ l.tagged \in BOOLEAN /\ (l.tagged => l.dp = <<Point>> /\ l.sep = <<>>)
ASSUME CapAssumption == /\ Width \in Nat /\ OutCap \in Nat
                        /\ NormCap \in Nat \ {0} /\ PlaceMod \in Nat \ {0}

VARIABLES
  number,       \* what was formatted, <<>> for a typed text
  locale, text, padding,
  pc,
  si, norm, map, inInteger, lastWasSep, sawDigit,
  outcome       \* the parser's verdict, the numeral it read and parsed-length

input == <<number, locale, text, padding>>
scanning == <<si, norm, map, inInteger, lastWasSep, sawDigit>>
vars == <<input, pc, scanning, outcome>>

HexMark == 22   \* x or X
Power == 23     \* p or P
Signs == {Plus, Minus}
Words == {Inf, Nan}
Pending == [status |-> "pending", numeral |-> <<>>, length |-> 0]
Refused == [status |-> "invalid", numeral |-> <<>>, length |-> 0]

---------------------------------------------------------------------------
\* next_group_size: the size of the group-th group from the right, from 0 on.
NextGroupSize(rule, group) ==
  CASE rule.tag = "repeat" -> rule.size
    [] rule.tag = "first_then_repeat" -> IF group = 0 THEN rule.first ELSE rule.next
    [] rule.tag = "explicit" /\ group < Len(rule.groups) -> rule.groups[group + 1]
    [] OTHER -> IF rule.repeatLast /\ rule.groups # <<>> THEN Last(rule.groups) ELSE 0

\* The digits, counted from the right, that a separator stands before.
SepPositions(rule, digits) ==
  LET From[g \in 0 .. digits] ==      \* the digits in the first g groups
        IF g = 0 THEN 0 ELSE From[g - 1] + NextGroupSize(rule, g - 1)
      Grouped(g) == \A h \in 0 .. g - 1 : NextGroupSize(rule, h) > 0
  IN  {From[g] : g \in {h \in 1 .. digits : Grouped(h) /\ From[h] < digits}}

\* The first position of w that holds one of S, else the position after its end.
FirstOf(w, S) == LET at == {k \in 1 .. Len(w) : w[k] \in S}
                 IN  IF at = {} THEN Len(w) + 1 ELSE CHOOSE k \in at : \A l \in at : k <= l

\* What printf puts before a number may be a space.
SignLen(w) == IF w # <<>> /\ w[1] \in Signs \cup {Space} THEN 1 ELSE 0
IsHex(w) == LET s == SignLen(w)
            IN  s + 2 <= Len(w) /\ w[s + 1] = 0 /\ w[s + 2] = HexMark
PrefixLen(w) == SignLen(w) + IF IsHex(w) THEN 2 ELSE 0

\* The digits w, separated into groups.
Grouped(w, l, rule) ==
  LET seps == SepPositions(rule, Len(w))
  IN  FlattenSeq([k \in 1 .. Len(w) |->
                    <<w[k]>> \o IF Len(w) - k \in seps THEN l.sep ELSE <<>>])

\* What apply_locale would write with room for all of it.
Translated(w, l, rule) ==
  LET s == SignLen(w)
      p == PrefixLen(w)
      intEnd == FirstOf(w, {Point, Exp, Power})
      hasDot == intEnd <= Len(w) /\ w[intEnd] = Point
      rest == IF hasDot THEN l.dp \o SubSeq(w, intEnd + 1, Len(w)) ELSE SubSeq(w, intEnd, Len(w))
  IN  IF s < Len(w) /\ w[s + 1] \in Words THEN w
      ELSE SubSeq(w, 1, p) \o Grouped(SubSeq(w, p + 1, intEnd - 1), l, rule) \o rest

\* apply_locale: the buffer cuts off the rest.
ApplyLocale(w, l, rule) ==
  LET all == Translated(w, l, rule)
  IN  SubSeq(all, 1, IF Len(all) < OutCap THEN Len(all) ELSE OutCap)

Repeat(c, n) == [k \in 1 .. n |-> c]

\* A slip: the zeros go before the sign.
MutApplyWidth(w, flag) ==
  LET pad == Width - Len(w)
  IN  CASE flag = "none" \/ pad <= 0 -> w
        [] flag = "left_justify" /\ pad > 0 -> w \o Repeat(Space, pad)
        [] flag = "zero_pad" /\ pad > 0 -> Repeat(0, pad) \o w
        [] OTHER -> Repeat(Space, pad) \o w

\* apply_width, with the flags that say where the padding goes.
ApplyWidth(w, flag) ==
  LET pad == Width - Len(w)
      s == SignLen(w)
      word == s < Len(w) /\ w[s + 1] \in Words
  IN  CASE flag = "none" \/ pad <= 0 -> w
        [] flag = "left_justify" /\ pad > 0 -> w \o Repeat(Space, pad)
        [] flag = "zero_pad" /\ pad > 0 /\ ~word ->
             SubSeq(w, 1, s) \o Repeat(0, pad) \o SubSeq(w, s + 1, Len(w))
        [] OTHER -> Repeat(Space, pad) \o w

Flags == {"none", "left_justify", "zero_pad", "spaces"}
Formatted == {ApplyWidth(ApplyLocale(w, l, rule), flag) :
                w \in Numbers, l \in Locales, rule \in Rules, flag \in Flags}

ASSUME TextAssumption == Typed \cup Formatted \subseteq Seq(Nat)

---------------------------------------------------------------------------
Init == /\ locale \in Locales
        /\ \/ pc = "format" /\ number \in Numbers /\ text = <<>>
           \/ pc = "start" /\ number = <<>> /\ text \in Typed
        /\ padding = "none"
        /\ si = 0 /\ norm = <<>> /\ map = <<>>
        /\ inInteger = TRUE /\ lastWasSep = FALSE /\ sawDigit = FALSE
        /\ outcome = Pending

\* format-f64, then parse-f64 of what it answered.
Format == /\ pc = "format"
          /\ \E rule \in Rules, flag \in Flags :
               /\ text' = ApplyWidth(ApplyLocale(number, locale, rule), flag)
               /\ padding' = flag
          /\ pc' = "start"
          /\ UNCHANGED <<number, locale, scanning, outcome>>

More == si < Len(text)
Here == text[si + 1]
Room == Len(norm) < NormCap
StartsWith(w) == si + Len(w) <= Len(text) /\ SubSeq(text, si + 1, si + Len(w)) = w

\* The next n bytes of the text become the byte c.
Emit(c, n) == norm' = Append(norm, c) /\ map' = Append(map, si % PlaceMod) /\ si' = si + n
Keep == Emit(Here, 1)
NothingSeen == UNCHANGED <<inInteger, lastWasSep, sawDigit>>
Refuse == pc' = "done" /\ outcome' = Refused /\ UNCHANGED <<input, scanning>>

\* The C locale is parsed as it stands; a locale with the same bytes of its own is not.
IsCLocale == locale.tagged
Direct == /\ pc = "start" /\ IsCLocale
          /\ norm' = text /\ map' = [k \in 1 .. Len(text) + 1 |-> k - 1]
          /\ pc' = "parse"
          /\ UNCHANGED <<input, si, inInteger, lastWasSep, sawDigit, outcome>>

OptionalSign == /\ pc = "start" /\ ~IsCLocale
                /\ IF More /\ Here \in Signs THEN Keep ELSE UNCHANGED <<si, norm, map>>
                /\ pc' = "special"
                /\ NothingSeen
                /\ UNCHANGED <<input, outcome>>

Special == /\ pc = "special"
           /\ pc' = IF More /\ Here \in Words THEN "token" ELSE "scan"
           /\ UNCHANGED <<input, scanning, outcome>>

TokenBytes == Digits \cup Words \cup {Exp, Payload, HexMark, Power}
Token == /\ pc = "token" /\ More /\ Room /\ Here \in TokenBytes
         /\ Keep
         /\ NothingSeen
         /\ UNCHANGED <<input, pc, outcome>>
TokenEnd == /\ pc = "token" /\ ~(More /\ Room /\ Here \in TokenBytes)
            /\ pc' = "end"
            /\ UNCHANGED <<input, scanning, outcome>>

---------------------------------------------------------------------------
\* The main loop: the alternatives in the order they are tried.
Scanning == pc = "scan" /\ More /\ Room
AtSeparator == inInteger /\ sawDigit /\ locale.sep # <<>> /\ StartsWith(locale.sep)
AtPoint == ~AtSeparator /\ inInteger /\ locale.dp # <<>> /\ StartsWith(locale.dp)
AtDigit == ~AtSeparator /\ ~AtPoint /\ Here \in Digits
AtExponent == ~AtSeparator /\ ~AtPoint /\ sawDigit /\ Here = Exp

Separator == /\ Scanning /\ AtSeparator /\ ~lastWasSep
             /\ lastWasSep' = TRUE
             /\ si' = si + Len(locale.sep)
             /\ UNCHANGED <<input, pc, norm, map, inInteger, sawDigit, outcome>>

\* Two separators in a row, or one before the point or the exponent.
Misplaced == /\ Scanning
             /\ lastWasSep
             /\ AtSeparator \/ AtPoint \/ (AtExponent /\ inInteger)
             /\ Refuse

DecimalPoint == /\ Scanning /\ AtPoint /\ ~lastWasSep
                /\ Emit(Point, Len(locale.dp))
                /\ inInteger' = FALSE
                /\ UNCHANGED <<input, pc, lastWasSep, sawDigit, outcome>>

\* A slip: the mark of the last separator is not taken back.
MutDigit == /\ Scanning /\ AtDigit
            /\ Keep
            /\ sawDigit' = TRUE
            /\ UNCHANGED <<input, pc, inInteger, lastWasSep, outcome>>

Digit == /\ Scanning /\ AtDigit
         /\ Keep
         /\ lastWasSep' = FALSE /\ sawDigit' = TRUE
         /\ UNCHANGED <<input, pc, inInteger, outcome>>

Exponent == /\ Scanning /\ AtExponent /\ ~(inInteger /\ lastWasSep)
            /\ Keep
            /\ inInteger' = FALSE
            /\ pc' = "expSign"
            /\ UNCHANGED <<input, lastWasSep, sawDigit, outcome>>

ExpSign == /\ pc = "expSign"
           /\ IF More /\ Room /\ Here \in Signs THEN Keep ELSE UNCHANGED <<si, norm, map>>
           /\ pc' = "expDigits"
           /\ NothingSeen
           /\ UNCHANGED <<input, outcome>>

ExpDigit == /\ pc = "expDigits" /\ More /\ Room /\ Here \in Digits
            /\ Keep
            /\ NothingSeen
            /\ UNCHANGED <<input, pc, outcome>>

ScanEnd == /\ \/ pc = "scan" /\ ~(More /\ Room)
              \/ Scanning /\ ~AtSeparator /\ ~AtPoint /\ ~AtDigit /\ ~AtExponent
              \/ pc = "expDigits" /\ ~(More /\ Room /\ Here \in Digits)
           /\ pc' = "end"
           /\ UNCHANGED <<input, scanning, outcome>>

\* A slip: the sentinel is the place of the last byte kept.
MutEnd == /\ pc = "end" /\ ~(inInteger /\ lastWasSep) /\ norm # <<>>
          /\ map' = Append(map, Last(map))
          /\ pc' = "parse"
          /\ UNCHANGED <<input, si, norm, inInteger, lastWasSep, sawDigit, outcome>>

\* The place after the last byte ends the map.
NormEnd == /\ pc = "end" /\ ~(inInteger /\ lastWasSep) /\ norm # <<>>
           /\ map' = Append(map, si % PlaceMod)
           /\ pc' = "parse"
           /\ UNCHANGED <<input, si, norm, inInteger, lastWasSep, sawDigit, outcome>>

NormInvalid == /\ pc = "end" /\ ((inInteger /\ lastWasSep) \/ norm = <<>>)
               /\ Refuse

---------------------------------------------------------------------------
\* What ryu64_from_decimal_full makes of a text: the longest prefix of it that
\* is a word or a numeral, 0 if there is none.
IsWord(w) == \E k \in 0 .. Len(w) - 1 :
               /\ AllIn(w, 1, k, {Space} \cup Signs)
               /\ \A l \in 1 .. k : w[l] \in Signs => l = k
               /\ k + 1 = Len(w) /\ w[k + 1] \in Words
ParsedLen(w) == LET lengths == {k \in 1 .. Len(w) : \/ IsNumeral(SubSeq(w, 1, k))
                                                    \/ IsWord(SubSeq(w, 1, k))}
                IN  IF lengths = {} THEN 0
                    ELSE CHOOSE k \in lengths : \A l \in lengths : l <= k

Parse == /\ pc = "parse"
         /\ LET k == ParsedLen(norm)
            IN  outcome' = IF k = 0 THEN Refused
                           ELSE [status |-> "ok",
                                 numeral |-> SubSeq(norm, 1, k),
                                 length |-> map[k + 1]]
         /\ pc' = "done"
         /\ UNCHANGED <<input, scanning>>

Next == \/ Format \/ Direct \/ OptionalSign \/ Special \/ Token \/ TokenEnd
        \/ Separator \/ Misplaced \/ DecimalPoint \/ Digit \/ Exponent \/ ExpSign \/ ExpDigit
        \/ ScanEnd \/ NormEnd \/ NormInvalid \/ Parse

Spec == Init /\ [][Next]_vars

---------------------------------------------------------------------------
Accepted == pc = "done" /\ outcome.status = "ok"

\* No byte sequence of the locale can be taken for another one, or for a digit.
Distinct == /\ locale.dp # <<>> /\ locale.dp[1] \notin Digits
            /\ locale.sep # <<>> => locale.sep[1] \notin Digits
            /\ \/ locale.sep = <<>>
               \/ ~IsPrefix(locale.dp, locale.sep) /\ ~IsPrefix(locale.sep, locale.dp)

\* What parse-f64 knows of a number: a hexadecimal one ends for it before the x.
Decimal(w) == IF IsHex(w) THEN SubSeq(w, 1, FirstOf(w, {HexMark}) - 1) ELSE w

Trimmed(w) == SubSeq(w, FirstOf(w, (0 .. Power) \ {Space}), Len(w))

\* The same numeral, spaces before it apart, zeros added between the sign and the digits.
SameButZeros(a, b) ==
  LET s == SignLen(b)
      zeros == Len(a) - Len(b)
  IN  /\ zeros >= 0
      /\ SubSeq(a, 1, s) = SubSeq(b, 1, s)
      /\ AllIn(a, s + 1, s + zeros, {0})
      /\ SubSeq(a, s + zeros + 1, Len(a)) = SubSeq(b, s + 1, Len(b))

(***************************************************************************)
(* parse-f64 reads back what format-f64 wrote for the same locale:         *)
(* "thousands separators are stripped and the locale decimal point is      *)
(* normalized" (wit/floats.wit, on parse-f64).  It reads to the last byte  *)
(* before the padding, or before the x, and whatever the sign style and    *)
(* the flags.  Where a space stands first, a sign or padding, the C locale *)
(* skips it and every other one refuses the text.  The buffers and the map *)
(* must have room for the text.                                            *)
(***************************************************************************)
ParsesWhatItFormats ==
  (/\ pc = "done" /\ number # <<>> /\ Distinct
   /\ Len(text) < OutCap /\ Len(text) <= NormCap /\ Len(text) < PlaceMod) =>
    \/ /\ text[1] = Space /\ ~IsCLocale
       /\ outcome = Refused
    \/ /\ text[1] # Space \/ IsCLocale
       /\ outcome.status = "ok"
       /\ SameButZeros(Trimmed(outcome.numeral), Trimmed(Decimal(number)))
       /\ LET rest == SubSeq(text, outcome.length + 1, Len(text))
          IN  IF IsHex(number) THEN rest[1] = HexMark ELSE AllIn(rest, 1, Len(rest), {Space})

\* Where the byte k of norm ends in the text.
EndOf(k) == map[k] + IF norm[k] = Point THEN Len(locale.dp) ELSE 1

(***************************************************************************)
(* "parsed-length reflects bytes consumed from the original input"         *)
(* (wit/floats.wit): it ends behind the last byte of the numeral, and all  *)
(* that is skipped before it are single separators between two digits.     *)
(* (Places beyond PlaceMod wrap around.)                                   *)
(***************************************************************************)
LengthIsConsumed ==
  Accepted /\ Len(text) < PlaceMod =>
    LET k == Len(outcome.numeral)
    IN  /\ outcome.length = EndOf(k)
        /\ \A j \in 1 .. k - 1 :
             \/ map[j + 1] = EndOf(j)
             \/ /\ norm[j] \in Digits /\ norm[j + 1] \in Digits
                /\ SubSeq(text, EndOf(j) + 1, map[j + 1]) = locale.sep

(***************************************************************************)
(* A text that starts with digits is refused for one reason only: after a  *)
(* digit it has a separator that no digit follows.                         *)
(***************************************************************************)
RefusesMisplacedOnly ==
  pc = "done" /\ outcome.status = "invalid" /\ Distinct /\ text # <<>> /\ text[1] \in Digits =>
    /\ locale.sep # <<>>
    /\ \E k \in 2 .. Len(text) :
         LET after == k + Len(locale.sep)
         IN  /\ after <= Len(text) + 1 /\ SubSeq(text, k, after - 1) = locale.sep
             /\ after > Len(text) \/ text[after] \notin Digits

(***************************************************************************)
(* "Returns the normalized length, or 0 on error (invalid separator        *)
(* placement, buffer overflow)" (wit/floats_impl.c, on                     *)
(* normalize_locale_input): no numeral is cut short by the buffer.         *)
(***************************************************************************)
OverflowRefused ==
  Accepted => ~(Len(norm) = NormCap /\ ~IsCLocale /\ More /\ Here \in Digits)
=============================================================================
