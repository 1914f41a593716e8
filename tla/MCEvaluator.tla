---------------------------- MODULE MCEvaluator ----------------------------
(* Expressions over three variables and a define, evaluated at frames 0   *)
(* and 1 over two witnesses of three frames (0 .. 2).  x and y are one-   *)
(* digit (4-bit) algebraic variables, b is Boolean, value_t has 8 bits.  *)
(* At frame 1 every prev and every next of the bodies reads a value of    *)
(* the first witness; at frame 0 a prev reads frame -1, which no witness  *)
(* has, and the second witness lacks x at frame 1.                        *)
EXTENDS Evaluator, TLC

N(v) == [op |-> "num", val |-> v]
S(x) == [op |-> "sym", name |-> x]
Op1(o, a) == [op |-> o, args |-> <<a>>]
Op2(o, a, b) == [op |-> o, args |-> <<a, b>>]
Ite(c, t, e) == Op2("ite", Op2("cond", c, t), e)

MCVars == {"x", "y", "b"}
MCDefines == [d |-> Op2("add", S("x"), Op1("next", S("x")))]

W1 == (<<"x", 0>> :> 9 @@ <<"y", 0>> :> 12 @@ <<"b", 0>> :> 1
       @@ <<"x", 1>> :> 6 @@ <<"y", 1>> :> 2 @@ <<"b", 1>> :> 0
       @@ <<"x", 2>> :> 7 @@ <<"y", 2>> :> 15 @@ <<"b", 2>> :> 1)
W2 == [k \in DOMAIN W1 \ {<<"x", 1>>} |-> W1[k]]
MCWitnesses == {W1, W2}
MCTimes == {0, 1}

MCBodies == {
    Ite(S("b"), Op2("add", S("x"), Op1("next", S("y"))), Op2("sub", S("x"), S("y"))),
    Op2("eq", S("d"), Op2("add", Op1("prev", S("y")), N(7))),
    Op2("sub", Op2("div", S("y"), N(2)), Op2("mod", S("y"), N(2))),
    Op2("or", Op2("and", S("b"), Op1("not", Op1("next", S("b")))),
              Op2("implies", Op2("gt", S("x"), S("y")), Op2("le", S("y"), N(0)))),
    Op2("xnor", Op2("xor", Op2("ge", S("x"), N(5)), Op2("lt", S("x"), S("y"))),
                Op2("iff", Op2("ne", S("y"), N(2)), S("b"))),
    Op2("lshift", N(1), Op2("div", S("x"), N(2))),
    Op2("eq", Op2("add", S("x"), S("y")), N(5))}

(* The expressions that multiply, and shift right.                        *)
MCMulBodies == {Op2("mul", S("x"), N(2))}
MCShiftBodies == {Op2("rshift", S("x"), N(1))}
=============================================================================
