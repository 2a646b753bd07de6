--------------------------- MODULE MCPrintfRound ----------------------------
(***************************************************************************)
(* PrintfText for TLC: every number of a format with 5-bit significands    *)
(* and magnitudes from 1/64 to 62, inf and nan; bigint limbs of two        *)
(* decimal digits, hexadecimal digits of two bits, exponents written in    *)
(* base 2, so that they have up to three digits as those of binary64; and  *)
(* buffers from one byte to more than the longest text needs.              *)
(***************************************************************************)
EXTENDS PrintfText

MinusTwo == -2
MinusOne == -1
AskedFor == {-2, -1, 0, 1, 2, 3, 5, 6, 7}
SmallLayouts ==
  {[sign |-> f.sign, alternate |-> f.alternate, cap |-> c, wanted |-> f.wanted] :
     f \in {[sign |-> "minus_only", alternate |-> FALSE, wanted |-> TRUE],
            [sign |-> "always_sign", alternate |-> TRUE, wanted |-> FALSE],
            [sign |-> "always_sign", alternate |-> FALSE, wanted |-> TRUE],
            [sign |-> "space_sign", alternate |-> FALSE, wanted |-> FALSE]},
     c \in {1, 3, 4, 7, 9, 10, 25}}
=============================================================================
