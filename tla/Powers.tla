------------------------------- MODULE Powers -------------------------------
(***************************************************************************)
(* What the power of a number is: the two equations that define it, up to  *)
(* an exponent.  Modules that are proved about assume them of the powers   *)
(* they compute with, since the provers know no definition of ^.           *)
(***************************************************************************)
EXTENDS Integers

PowersUpTo(b, most) == b ^ 0 = 1 /\ \A k \in 0 .. most - 1 : b ^ (k + 1) = b * b ^ k
=============================================================================
