---------------------------- MODULE MCBECompiler ----------------------------
(* Formulas over two Boolean variables and a define that reads the next   *)
(* frame, compiled by two calls of process starting at frames 0 and 1,   *)
(* so that the second call meets encodings the first one made.            *)
EXTENDS BECompiler

S(x) == [op |-> "sym", name |-> x]
Op1(o, a) == [op |-> o, args |-> <<a>>]
Op2(o, a, b) == [op |-> o, args |-> <<a, b>>]
Ite(c, t, e) == Op2("ite", Op2("cond", c, t), e)

MCVars == {"a", "b"}
MCDefines == [d |-> Op2("xor", Op1("next", S("a")), S("b"))]

MCBodies == {
    Ite(S("a"), Op2("gt", S("b"), Op1("next", S("a"))), Op2("implies", S("d"), S("a"))),
    Op2("or", Op2("and", S("a"), Op1("not", Op1("next", S("b")))),
              Op2("lt", Op1("next", S("d")), S("b"))),
    Op2("xnor", Op2("ge", S("a"), S("b")), Op2("iff", Op2("le", S("b"), S("a")),
                                                 Op2("ne", S("d"), S("a")))),
    Op2("eq", Op1("next", Ite(S("b"), S("a"), S("d"))), Op2("xor", S("a"), S("b")))}
=============================================================================
