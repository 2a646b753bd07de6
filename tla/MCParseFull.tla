---------------------------- MODULE MCParseFull -----------------------------
(***************************************************************************)
(* ParseFull for TLC: a format with 3-bit significands, one decimal limb   *)
(* of 4 digits, words of 8 bits.  Of the digits 1, 2, 5 and 6 the texts    *)
(* make numbers of the format (1/8, 1.25, 5, 6, 12), midpoints between an  *)
(* even and an odd one in either order (1/16, 1.125, 1.625, 5.5, 11, 15,   *)
(* 22) and texts just beside them.                                         *)
(***************************************************************************)
EXTENDS ParseFull

NumberSymbols == {0, 1, 2, 5, 6, Minus, Point, Exp, Inf, Nan, End}
MinusOne == -1
MinusTwo == -2
MinusThree == -3

(***************************************************************************)
(* What follows a number is of no interest here, and neither is its sign,  *)
(* which no conversion looks at: DecimalLex.cfg explores both.             *)
(***************************************************************************)
Plain == ~negative /\ (outcome = "number" => Here = End)
=============================================================================
