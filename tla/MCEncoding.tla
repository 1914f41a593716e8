----------------------------- MODULE MCEncoding -----------------------------
(* Up to three encodings: Booleans, algebraics of one and two digits, and  *)
(* enums of one, two, three and four literals (the sizes where            *)
(* range_repr_bits crosses a power of two).                                *)
EXTENDS Encoding

MCLiteralSets == {<<"A">>, <<"A", "B">>, <<"A", "B", "C">>, <<"A", "B", "C", "D">>}
=============================================================================
