---------------------------- MODULE MCDecimalLex ----------------------------
(***************************************************************************)
(* DecimalLex and ParseTiny for TLC, held against the grammar of           *)
(* DecimalText.                                                            *)
(***************************************************************************)
EXTENDS ParseTiny

MinusSeven == -7
AllSymbols == {0, 1, 9} \cup (Symbols \ Digits)
=============================================================================
