------------------------------- MODULE Texts --------------------------------
(***************************************************************************)
(* The digits of a number and the number of some digits, in any base;      *)
(* texts put together from pieces; and what a text says, for the           *)
(* properties.                                                             *)
(***************************************************************************)
EXTENDS Powers, DecimalText

X == 20             \* x or X; for p or P stands Exp

\* The last n digits of x in base b.
Spelled(x, b, n) == [i \in 1 .. n |-> (x \div b ^ (n - i)) % b]

\* What the digits w are worth in base b.
ValueOf(w, b) == LET v[i \in 0 .. Len(w)] == IF i = 0 THEN 0 ELSE v[i - 1] * b + w[i]
                 IN  v[Len(w)]

Has(w, c) == \E i \in 1 .. Len(w) : w[i] = c
\* How many symbols of w come before the first c.
Before(w, c) == CHOOSE n \in 0 .. Len(w) - 1 : w[n + 1] = c /\ \A i \in 1 .. n : w[i] # c

---------------------------------------------------------------------------
\* Before each piece the code asks whether the buffer has room, by a test of its own for
\* every piece, which may ask for more than the piece is long; the terminating zero is not
\* part of the text.
Piece(room, text) == [room |-> room, text |-> text]
Terminator == <<Piece(1, <<>>)>>

\* The piece goes in if it has room, and nothing does behind one that has been refused.
Put(w, p, cap) == IF w.status = "OK" /\ Len(w.text) + p.room <= cap
                    THEN [status |-> "OK", text |-> w.text \o p.text]
                    ELSE [status |-> "BUFFER_TOO_SMALL", text |-> w.text]
Written(pieces, cap) ==
  LET w[i \in 0 .. Len(pieces)] == IF i = 0 THEN [status |-> "OK", text |-> <<>>]
                                   ELSE Put(w[i - 1], pieces[i], cap)
  IN  w[Len(pieces)]

\* All of the text, as in a buffer with room for it.
Whole(pieces) == LET w[i \in 0 .. Len(pieces)] == IF i = 0 THEN <<>> ELSE w[i - 1] \o pieces[i].text
                 IN  w[Len(pieces)]

---------------------------------------------------------------------------
(* Reading a text by where its point and its exponent stand.               *)

EndOfDigits(text) == IF Has(text, Exp) THEN Before(text, Exp) ELSE Len(text)

\* Exponents are in base b.
ReadAs(text, b) ==
  LET sign == IF text[1] \in Digits THEN 0 ELSE 1
      from == IF Has(text, X) THEN sign + 3 ELSE sign + 1
      e == EndOfDigits(text)
      expSign == IF e + 2 <= Len(text) /\ text[e + 2] \notin Digits THEN 1 ELSE 0
      exp == SubSeq(text, e + 2 + expSign, Len(text))
      point == IF Has(text, Point) THEN Before(text, Point) + 1 ELSE e + 1
  IN  [sign |-> SubSeq(text, 1, sign),
       int  |-> SubSeq(text, from, point - 1),
       frac |-> SubSeq(text, point + 1, e),
       exp  |-> exp,
       power |-> ValueOf(exp, b) * (IF expSign = 1 /\ text[e + 2] = Minus THEN -1 ELSE 1),
       pointed |-> Has(text, Point)]
=============================================================================
