--------------------------- MODULE MCLongDivision ---------------------------
(***************************************************************************)
(* RatioSearch and LongDivision for TLC.  Three fraction bits and numbers  *)
(* of up to two limbs of base 12 give exact quotients, ties, carries into  *)
(* the next binade, shifts and doublings that do not fit, and ratios as    *)
(* large as the limbs allow.                                               *)
(***************************************************************************)
EXTENDS RatioSearch

SmallNumbers == 1 .. SigMax
=============================================================================
