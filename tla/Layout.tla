------------------------------- MODULE Layout -------------------------------
(***************************************************************************)
(* What the functions that write numbers share: signs, words, and how      *)
(* exponents are written.                                                  *)
(***************************************************************************)
EXTENDS Texts

CONSTANTS
  ExpBase,      \* the base exponents are written in    (10)
  MaxExpWidth   \* more digits than any exponent has    (31)

ASSUME ExpBaseAssumption == /\ ExpBase \in 2 .. 10 /\ MaxExpWidth \in Nat
                            /\ PowersUpTo(ExpBase, MaxExpWidth)

LetterA == 21       \* hexadecimal digits above 9 are letters
Lettered(w) == [i \in 1 .. Len(w) |-> IF w[i] > 9 THEN LetterA + w[i] - 10 ELSE w[i]]
Unlettered(w) == [i \in 1 .. Len(w) |-> IF w[i] >= LetterA THEN 10 + w[i] - LetterA ELSE w[i]]

\* The length of an exponent.
Width(e) == CHOOSE k \in 1 .. MaxExpWidth : e < ExpBase ^ k /\ (k > 1 => ExpBase ^ (k - 1) <= e)
Abs(n) == IF n < 0 THEN -n ELSE n

Zeros(n) == [i \in 1 .. n |-> 0]
If(condition, symbols) == IF condition THEN symbols ELSE <<>>

\* ryu_write_sign
Signed(negative, style) ==
  CASE negative -> <<Piece(1, <<Minus>>)>>
    [] ~negative /\ style = "always_sign" -> <<Piece(1, <<Plus>>)>>
    [] ~negative /\ style = "space_sign" -> <<Piece(1, <<Space>>)>>
    [] OTHER -> <<>>

\* ryu_write_special: three letters.
Word(sign, symbol) == sign \o <<Piece(4, <<symbol, symbol, symbol>>)>>

\* The sign of a text of this sign and style.
SignText(negative, style) == CASE negative -> <<Minus>>
                               [] ~negative /\ style = "always_sign" -> <<Plus>>
                               [] ~negative /\ style = "space_sign" -> <<Space>>
                               [] OTHER -> <<>>
=============================================================================
