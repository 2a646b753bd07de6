------------------------- MODULE MCPow5AnchorCache -------------------------
(***************************************************************************)
(* An instance of Pow5AnchorCache for TLC.  MaxExp = 5 and Stride = 2 give *)
(* anchors 5^0, 5^2, 5^4; Chunk = 1 makes every anchor take two products.  *)
(***************************************************************************)
EXTENDS Pow5AnchorCache

\* Between two anchors, the last exponent served, and one too large.
AskedFor == {3, 5, 6}
=============================================================================
