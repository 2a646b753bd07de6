--------------------------- MODULE MCBigintLimbs ---------------------------
(***************************************************************************)
(* BigintCalls for TLC: three limbs of two binary digits, where the code   *)
(* has 512 of nine decimal ones; every number, every pair of numbers.      *)
(***************************************************************************)
EXTENDS BigintCalls

FullLimbs == [k \in Index |-> Base - 1]
AllWords == 0 .. Word - 1
AllDigits == 0 .. Radix - 1
AllOperands ==
  {x \in [limb : Arrays, len : 1 .. MaxLimbs] :
     Proper(x.limb, x.len) /\ \A k \in x.len .. MaxLimbs - 1 : x.limb[k] = Base - 1}

\* Powers of three up to the second, powers of two up to the third, and ten is two.
PowerTables == {<<3, 9>>, <<2, 4, 8>>}
Pow10Table == <<2>>
=============================================================================
