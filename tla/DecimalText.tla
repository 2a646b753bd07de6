---------------------------- MODULE DecimalText -----------------------------
(***************************************************************************)
(* The symbols the texts of the other modules are made of, and what a      *)
(* decimal numeral is: the grammar, not the way the library reads it.      *)
(***************************************************************************)
EXTENDS Integers, Sequences

\* Symbols: 0 .. 9 are the digits.
Digits == 0 .. 9
Space == 10
Plus == 11
Minus == 12
Point == 13
Exp == 14       \* e or E
Inf == 15       \* inf or infinity
Nan == 16
Payload == 17   \* ( [0-9A-Za-z_]* )
Other == 18     \* anything else
End == 19       \* i == n

\* The symbols of w at positions a .. b all belong to S.
AllIn(w, a, b, S) == \A k \in a .. b : w[k] \in S

\* A sign, if any, stands at position k: what follows starts at one of these.
AfterSign(w, k) == {k} \cup (IF k <= Len(w) /\ w[k] \in {Plus, Minus} THEN {k + 1} ELSE {})

\* w from position k on: e, a sign perhaps, and at least one digit.
IsExponent(w, k) == /\ k < Len(w) /\ w[k] = Exp
                    /\ \E d \in AfterSign(w, k + 1) :
                         d <= Len(w) /\ AllIn(w, d, Len(w), Digits)

\* Spaces, a sign perhaps, digits with a point perhaps, an exponent perhaps.
IsNumeral(w) ==
  \E a \in 1 .. Len(w) :
    /\ AllIn(w, 1, a - 1, {Space})
    /\ \E b \in AfterSign(w, a), e \in 1 .. Len(w) + 1 :
         /\ e = Len(w) + 1 \/ IsExponent(w, e)
         /\ AllIn(w, b, e - 1, Digits \cup {Point})
         /\ \E k \in b .. e - 1 : w[k] \in Digits
         /\ \A k \in b .. e - 1 : w[k] = Point => AllIn(w, k + 1, e - 1, Digits)
=============================================================================
