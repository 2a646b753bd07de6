----------------------------- MODULE MCShortest -----------------------------
(***************************************************************************)
(* ShortestText for TLC: every number of a format with 4-bit significands  *)
(* and magnitudes from 1/64 to 15360, exponents in base 4, of one digit    *)
(* and of two, and buffers from one byte to more than the longest text.    *)
(***************************************************************************)
EXTENDS ShortestText

MinusThree == -3
SmallCaps == 1 .. 10
=============================================================================
