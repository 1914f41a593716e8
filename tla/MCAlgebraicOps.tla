--------------------------- MODULE MCAlgebraicOps ---------------------------
(* Two nibbles per value.  The digits 0, 1, 8 and 15 make digit sums of   *)
(* exactly 16 (8 + 8, 15 + 1), sums above it, complements that overlap   *)
(* the other operand, and operands whose digits order differently.        *)
EXTENDS AlgebraicOps

MCDigits == {0, 1, 8, 15}
=============================================================================
