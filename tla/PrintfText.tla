----------------------------- MODULE PrintfText -----------------------------
(***************************************************************************)
(* The second half of every ryu64_to_printf call: laying the rounded       *)
(* number out as text in the caller's buffer (ryu_emit_scientific_from_    *)
(* rounded and the end of ryu_printf_a in src/src/ryu64_printf.c,          *)
(* ryu_emit_fixed_from_scaled, ryu_trim_trailing_fraction_zeros and        *)
(* ryu_write_sign in src/src/ryu64_bigint.c).  The emitting functions keep *)
(* nothing but the text, so one action stands for a call of one of them.   *)
(***************************************************************************)
EXTENDS PrintfHex, Layout

CONSTANT Layouts    \* what else the caller asks for

Signs == {"minus_only", "always_sign", "space_sign"}

\* wanted: out_len is no null pointer.
ASSUME LayoutAssumption ==
  Layouts \subseteq [sign : Signs, alternate : BOOLEAN, cap : Nat \ {0}, wanted : BOOLEAN]

\* The exponents of numbers in decimal, and those of the format.
ASSUME ExpWidthAssumption ==
  \A e \in {2 * MaxDigits, -EMin, EMax} : e < ExpBase ^ MaxExpWidth

VARIABLE out    \* the answer of the call: what is in the buffer, and out_len

None == [status |-> "none", text |-> <<>>]

---------------------------------------------------------------------------
(* The pieces of a text *)

Sign(l) == Signed(negative, l.sign)

ExpSign == IF exp10 < 0 THEN Minus ELSE Plus
ExpWidth == Width(Abs(exp10))
ExpText == Spelled(Abs(exp10), ExpBase, ExpWidth)
Digs == Spelled(rounded, 10, DecimalLen(rounded))

\* ryu_append_exponent: at least two digits.
Exponent == <<Piece(5, <<Exp, ExpSign>> \o If(ExpWidth = 1, <<0>>)),
              Piece(ExpWidth + 1, ExpText)>>

\* ryu_emit_scientific_from_rounded, with frac digits behind the point.
Scientifically(frac, l) ==
  LET pointed == frac > 0 \/ l.alternate
      tail == SubSeq(Digs, 2, IF Len(Digs) - 1 > frac THEN frac + 1 ELSE Len(Digs))
  IN  <<Piece(3, <<Digs[1]>> \o If(pointed, <<Point>>))>>
      \o If(pointed, <<Piece(Len(tail) + frac + 9, tail \o Zeros(frac - Len(tail)))>>)
      \o Exponent \o Terminator

\* A slip: the room of the point that # asks for is forgotten.
MutFixed(frac, l) ==
  LET int == Len(Digs) - frac
  IN  <<CASE frac = 0 -> Piece(Len(Digs) + 1, Digs \o If(l.alternate, <<Point>>))
          [] frac > 0 /\ int <= 0 -> Piece(frac + 3, <<0, Point>> \o Zeros(-int) \o Digs)
          [] OTHER -> Piece(Len(Digs) + 2, SubSeq(Digs, 1, int) \o <<Point>>
                                             \o SubSeq(Digs, int + 1, Len(Digs)))>>

\* ryu_emit_fixed_from_scaled
Fixed(frac, l) ==
  LET int == Len(Digs) - frac
  IN  <<CASE frac = 0 -> Piece(Len(Digs) + 2, Digs \o If(l.alternate, <<Point>>))
          [] frac > 0 /\ int <= 0 -> Piece(frac + 3, <<0, Point>> \o Zeros(-int) \o Digs)
          [] OTHER -> Piece(Len(Digs) + 2, SubSeq(Digs, 1, int) \o <<Point>>
                                             \o SubSeq(Digs, int + 1, Len(Digs)))>>

\* The end of ryu_printf_a, Emit output.
Hex(l) ==
  LET frac == Lettered(Spelled(rounded, Sixteen, Kept))
      zeros == places - Kept
  IN  <<Piece(3, <<0, X>>), Piece(1, <<rounded \div Sixteen ^ Kept>>)>>
      \o If(places > 0 \/ l.alternate, <<Piece(1, <<Point>>)>>)
      \o If(places > 0, <<Piece(Kept + 1, frac)>>)
      \o If(zeros > 0, <<Piece(zeros + 1, Zeros(zeros))>>)
      \o <<Piece(1, <<Exp>>), Piece(1, <<ExpSign>>), Piece(ExpWidth + 1, ExpText)>>
      \o Terminator

\* How %f, %e, %g and %a lay a rounded number out.
Body(l) == CASE kind = "a" -> Hex(l)
             [] kind # "a" /\ (kind = "f" \/ ~Scientific) -> Fixed(places, l)
             [] OTHER -> Scientifically(SigDigits - 1, l)

\* nan goes without a sign.
Pieces(l) == CASE bits = InfBits -> Word(Sign(l), Inf)
               [] bits = NanBits -> Word(<<>>, Nan)
               [] OTHER -> Sign(l) \o Body(l)

---------------------------------------------------------------------------
(* ryu_trim_trailing_fraction_zeros *)

\* A slip: a point left without digits stays.
MutTrimmed(text) ==
  LET e == EndOfDigits(text)
      point == Before(text, Point) + 1
      last == CHOOSE k \in point .. e : /\ \A i \in k + 1 .. e : text[i] = 0
                                        /\ k > point => text[k] # 0
  IN  IF Has(text, Point)
        THEN SubSeq(text, 1, last) \o SubSeq(text, e + 1, Len(text))
        ELSE text

\* The zeros behind the point go, and the point if nothing else is behind it.
Trimmed(text) ==
  LET e == EndOfDigits(text)
      point == Before(text, Point) + 1
      last == CHOOSE k \in point .. e : /\ \A i \in k + 1 .. e : text[i] = 0
                                        /\ k > point => text[k] # 0
  IN  IF Has(text, Point)
        THEN SubSeq(text, 1, IF last = point THEN point - 1 ELSE last)
               \o SubSeq(text, e + 1, Len(text))
        ELSE text

\* The length is read from out_len, also where the caller has given none.
Finished(written, l) ==
  IF written.status = "OK" /\ bits \in FiniteBits /\ kind = "g" /\ ~l.alternate
    THEN IF l.wanted THEN [written EXCEPT !.text = Trimmed(@)]
                     ELSE [written EXCEPT !.status = "CRASH"]
    ELSE written

TInit == Init /\ out = None
Compute == (Next \/ Hexadecimal) /\ UNCHANGED out
LayOut == /\ pc = "done" /\ status = "OK" /\ out = None
          /\ \E l \in Layouts : LET text == Finished(Written(Pieces(l), l.cap), l)
                               IN  out' = [status |-> text.status, text |-> text.text, layout |-> l]
          /\ UNCHANGED vars
TNext == Compute \/ LayOut
TSpec == TInit /\ [][TNext]_<<vars, out>>

---------------------------------------------------------------------------
(* Why the text is right: what is known of the number when it is laid out, *)
(* and that nothing is written but its text.                               *)

\* %e and %g: zero, or a number of the significant digits.
Significand == IF digits = 0 THEN rounded = 0 /\ exp10 = 0
               ELSE /\ 10 ^ (SigDigits - 1) <= rounded /\ rounded < 10 ^ SigDigits
                    /\ exp10 \in -MaxDigits .. MaxDigits
ShapeInv ==
  /\ pc = "shrink" => 10 ^ (SigDigits - 1) <= rounded
  /\ pc = "emit" => Significand
  /\ Printed =>
       /\ Accepted
       /\ CASE kind = "f" -> places = Effective /\ rounded < 10 ^ MaxDigits
            [] kind = "a" -> /\ rounded = HexRounded.leading * Sixteen ^ Kept + HexRounded.frac
                             /\ exp10 = HexExp10 /\ places = Shown
            [] OTHER -> Significand /\ places = SigDigits - 1 - exp10

OutInv ==
  out # None =>
    /\ pc = "done" /\ status = "OK" /\ out.layout \in Layouts
    /\ LET w == Finished(Written(Pieces(out.layout), out.layout.cap), out.layout)
       IN  out.status = w.status /\ out.text = w.text

---------------------------------------------------------------------------
LaidOut == out.status = "OK" /\ bits \in FiniteBits
Said == ReadAs(out.text, ExpBase)

SignAsked == SignText(negative, out.layout.sign)

\* What the notation says of the digits: how many, and which zeros not; of %#g that
\* nothing is trimmed behind the last of the significant digits.
DigitsAsAsked ==
  LET shown == Len(Said.int) + Len(Said.frac)
      wasted == Said.frac # <<>> /\ Said.frac[Len(Said.frac)] = 0
  IN  CASE kind = "f" -> Len(Said.frac) = Effective
        [] kind = "e" -> Len(Said.int) = 1 /\ Len(Said.frac) = Effective
        [] kind = "g" /\ ~out.layout.alternate -> ~wasted
        [] OTHER -> /\ Said.int = <<0>> \/ shown = SigDigits
                    /\ Said.power - Len(Said.frac) + places = 0

(***************************************************************************)
(* The text of %f, %e or %g, read by its point and its exponent, is the    *)
(* number as it was rounded, with the sign and the digits asked for, no    *)
(* needless zeros before it, at least two digits of exponent, and a point  *)
(* just where digits follow or # asks for it: whichever of the notations   *)
(* was chosen and wherever the digits had to be filled up, cut or trimmed. *)
(***************************************************************************)
TextSaysTheNumber ==
  LaidOut /\ kind # "a" =>
    LET value == ValueOf(Said.int \o Said.frac, 10)
        apart == Said.power - Len(Said.frac) + places
    IN  /\ IF apart >= 0 THEN value * 10 ^ apart = rounded ELSE value = rounded * 10 ^ (-apart)
        /\ Said.sign = SignAsked /\ DigitsAsAsked
        /\ Len(Said.int) > 1 => Said.int[1] # 0
        /\ Said.exp # <<>> => Len(Said.exp) = 2 \/ (Len(Said.exp) > 2 /\ Said.exp[1] # 0)
        /\ Said.pointed <=> (Said.frac # <<>> \/ out.layout.alternate)

\* Half to even, or the mode's direction, of n / 2^drop.
RoundedBits(n, drop) ==
  LET down == n \div 2 ^ drop
      rest == n % 2 ^ drop
      up == CASE mode = "TOWARD_ZERO" -> FALSE
              [] mode = "TOWARD_POS" -> ~negative /\ rest # 0
              [] mode = "TOWARD_NEG" -> negative /\ rest # 0
              [] OTHER -> 2 * rest > 2 ^ drop \/ (2 * rest = 2 ^ drop /\ down % 2 = 1)
  IN  IF up THEN down + 1 ELSE down

(***************************************************************************)
(* The text of %a is the number rounded once, in the mode asked for, to    *)
(* the hexadecimal digits asked for, also when a carry reaches the digit   *)
(* before the point and below the normal numbers; without a precision it   *)
(* is the number itself, in as few digits as that takes (C11 7.21.6.1, to  *)
(* which the code refers).                                                 *)
(***************************************************************************)
HexSaysTheNumber ==
  LaidOut /\ kind = "a" =>
    LET shown == Len(Said.frac)
        drop == Prec - 1 - HexBits * shown
        unit == IF bits = 0 THEN 0 ELSE Said.power - EMin
        written == ValueOf(Unlettered(Said.int \o Said.frac), Sixteen) * 2 ^ unit
    IN  /\ IF drop >= 0
             THEN written = RoundedBits(Units(bits), drop + unit) * 2 ^ unit
             ELSE written = Units(bits) * 2 ^ (-drop)
        /\ Said.power \in EMin .. EMax /\ Said.sign = SignAsked
        /\ IF precision >= 0 THEN shown = precision
             ELSE /\ written * 2 ^ drop = Units(bits)
                  /\ shown > 0 => Said.frac[shown] # 0
        /\ Said.pointed <=> (shown > 0 \/ out.layout.alternate)

(***************************************************************************)
(* Every byte is written inside the buffer, the terminating zero included, *)
(* whatever the piece at which the room gives out, and no buffer of more   *)
(* than twice the length of a text is refused, although the tests are      *)
(* generous.                                                               *)
(***************************************************************************)
StaysInBuffer ==
  out # None =>
    /\ Len(out.text) <= out.layout.cap
    /\ out.status = "OK" => Len(out.text) < out.layout.cap
    /\ out.status = "BUFFER_TOO_SMALL" => out.layout.cap <= 2 * Len(Whole(Pieces(out.layout)))
=============================================================================
