---------------------------- MODULE ShortestText ----------------------------
(***************************************************************************)
(* How ryu64_to_shortest writes its digits out: both notations are laid    *)
(* out in buffers of their own, and the shorter one is copied to the       *)
(* caller's (ryu_format_significand_exponent, ryu_write_special and        *)
(* ryu_copy_literal_signed in src/src/ryu64_bigint.c).  The search does    *)
(* not look at the sign or the buffer, so they are chosen here.            *)
(***************************************************************************)
EXTENDS Shortest, Layout

CONSTANTS
  PlainCap, SciCap,     \* the sizes of plain and sci: RYU_LOCAL_BUF_CAP and 128
  Caps                  \* those of the caller

\* The buffers have room for every answer: an interval with no multiple of the next power
\* of ten in it is narrow, so sig is not much above ten times the significand's.
ASSUME CapAssumption ==
  /\ PlainCap \in Nat /\ SciCap \in Nat /\ Caps \subseteq Nat \ {0}
  /\ 2 * MaxDigits + 4 <= PlainCap /\ SciCap - 10 \in 1 .. MaxDigits
  /\ 10 * 2 ^ Prec < 10 ^ (SciCap - 10) /\ MaxSig < 10 ^ (SciCap - 10)
  /\ 2 * MaxDigits < ExpBase ^ MaxExpWidth

VARIABLE out    \* the answer: what is in the buffer, and what was asked for

Nothing == [status |-> "none", text |-> <<>>]

---------------------------------------------------------------------------
Sign(negative) == Signed(negative, "minus_only")
Digs == Spelled(sig, 10, DecimalLen(sig))

PlainBody ==
  LET split == Len(Digs) + k
  IN  CASE k >= 0 -> Piece(Len(Digs) + k + 1, Digs \o Zeros(k))
        [] k < 0 /\ split > 0
             -> Piece(Len(Digs) + 2, SubSeq(Digs, 1, split) \o <<Point>> \o SubSeq(Digs, split + 1, Len(Digs)))
        [] OTHER -> Piece(3 - split + Len(Digs), <<0, Point>> \o Zeros(-split) \o Digs)
Plain(negative) == Written(Sign(negative) \o <<PlainBody>>, PlainCap)

\* The room for the exponent is reserved with that for the digits.
SciText ==
  LET e == k + Len(Digs) - 1
      tail == If(Len(Digs) > 1, <<Point>>) \o Tail(Digs)
      exponent == <<Exp>> \o If(e < 0, <<Minus>>) \o Spelled(Abs(e), ExpBase, Width(Abs(e)))
  IN  <<Digs[1]>> \o tail \o exponent
Sci(negative) == Written(Sign(negative) \o <<Piece(Len(Digs) + 9, SciText)>>, SciCap)

\* A slip: the scientific notation wins ties.
MutShorter(plain, sci) == IF Len(sci.text) <= Len(plain.text) THEN sci ELSE plain
\* What is longer is dropped.
Shorter(plain, sci) == IF Len(sci.text) < Len(plain.text) THEN sci ELSE plain

Refusal == [status |-> "BUFFER_TOO_SMALL", text |-> <<>>]

\* The copy and its terminating zero fit, or nothing is written.
Copied(chosen, cap) == IF Len(chosen.text) + 1 <= cap THEN chosen ELSE Refusal

Formatted(negative, cap) ==
  LET plain == Plain(negative)
      sci == Sci(negative)
  IN  IF plain.status = "OK" /\ sci.status = "OK" THEN Copied(Shorter(plain, sci), cap)
      ELSE Refusal

Answer(negative, cap) ==
  CASE bits = 0 -> Copied([status |-> "OK", text |-> If(negative, <<Minus>>) \o <<0>>], cap)
    [] bits = InfBits -> Written(Word(Sign(negative), Inf), cap)
    [] bits = NanBits -> Written(Word(Sign(negative), Nan), cap)
    [] OTHER -> Formatted(negative, cap)

Out(answer, negative, cap) ==
  [status |-> answer.status, text |-> answer.text, negative |-> negative, cap |-> cap]

TInit == Init /\ out = Nothing
Search == Next /\ UNCHANGED out
WriteOut == /\ pc = "done" /\ out = Nothing
            /\ \E negative \in BOOLEAN, cap \in Caps :
                 out' = Out(Answer(negative, cap), negative, cap)
            /\ UNCHANGED vars
TNext == Search \/ WriteOut
TSpec == TInit /\ [][TNext]_<<vars, out>> /\ WF_<<vars, out>>(Search)

---------------------------------------------------------------------------
\* The length of the number without its sign, in either notation.
PlainLen == LET n == DecimalLen(sig)
            IN  CASE k >= 0 -> n + k
                  [] k < 0 /\ n + k > 0 -> n + 1
                  [] OTHER -> 2 - k
SciLen == LET n == DecimalLen(sig)
              e == k + n - 1
          IN  n + (IF n > 1 THEN 1 ELSE 0) + 1 + (IF e < 0 THEN 1 ELSE 0) + Width(Abs(e))
LenAsked == IF PlainLen <= SciLen THEN PlainLen ELSE SciLen

(***************************************************************************)
(* The text reads back as the number it was made from, sign included, by   *)
(* its point and its exponent and rounding to nearest; it is in the        *)
(* shorter notation, the plain one if both are as long, without needless   *)
(* zeros; and it is refused only if the caller's buffer has no room.       *)
(***************************************************************************)
TextReadsBack ==
  out # Nothing /\ bits \notin Literals =>
    LET said == ReadAs(out.text, ExpBase)
        sign == IF out.negative THEN <<Minus>> ELSE <<>>
    IN  IF Len(sign) + LenAsked + 1 > out.cap
        THEN out.status = "BUFFER_TOO_SMALL" /\ out.text = <<>>
        ELSE /\ out.status = "OK" /\ Len(out.text) = Len(sign) + LenAsked
             /\ said.sign = sign
             /\ Nearest(ValueOf(said.int \o said.frac, 10), said.power - Len(said.frac)) = bits
             /\ said.exp = <<>> <=> PlainLen <= SciLen
             /\ Len(said.int) > 1 => said.int[1] # 0
             /\ said.pointed <=> said.frac # <<>>
=============================================================================
