---------------------------- MODULE AlgebraicOps ----------------------------
(***************************************************************************)
(* The algebraic paths of the BECompiler post-order hooks                  *)
(* (src/src/model/compiler.cc): an algebraic value is a vector of Width    *)
(* digits in base f_enc.base() (16: each digit is a nibble).  A hook pops  *)
(* rhs[Width..1] and lhs[Width..1], runs a digit loop for i = Width down  *)
(* to 1 and pushes the digits it computes (or one DD for a relational).   *)
(* Width is the least significant digit: the adder's carry starts there.  *)
(*                                                                         *)
(* ADD operations are pointwise, so a hook is modelled by what it computes *)
(* at one assignment of the variables: each DD is the digit it evaluates  *)
(* to there.  BWTimes, BWOr, BWXor, BWXnor and BWCmpl are the bitwise     *)
(* operations on a digit, LT and LEQ are 0/1 comparisons, + and * on ADDs *)
(* are arithmetic.                                                         *)
(***************************************************************************)
EXTENDS Integers, Sequences, FiniteSets, Bitwise

CONSTANTS
    Width,      \* the digits of an algebraic value (f_enc.width())
    Base,       \* f_enc.base()
    Digits,     \* the digit values the inputs range over
    Ops         \* the operators compiled

ASSUME AlgebraicOpsAssumption ==
    /\ Width \in Nat \ {0}
    /\ \E b \in 1 .. 8 : Base = 2 ^ b
    /\ Digits \subseteq 0 .. Base - 1

VARIABLES
    op,         \* the operator of the node
    lhs,        \* the digits of the left operand, lhs[1] most significant
    rhs,        \* the digits of the right operand
    pushed,     \* what the hook pushed on f_add_stack, in push order
    pc          \* "walk", then "done" after the post-order hook

vars == <<op, lhs, rhs, pushed, pc>>

-----------------------------------------------------------------------------
Bool(b) == IF b THEN 1 ELSE 0
BWCmpl(a) == (Base - 1) - a

(* The digit loop `for (i = width; (i); -- i) push(f(lhs[i], rhs[i]))`.  *)
DigitLoop(f(_, _)) == [j \in 1 .. Width |-> f(lhs[Width - j + 1], rhs[Width - j + 1])]

(* walk_add_postorder: positional sum from the least significant digit,   *)
(* carry = base.LT(tmp), i.e. base < tmp.                                 *)
AlgAdd ==
    LET carry[i \in 1 .. Width] ==
            IF i = Width THEN 0
            ELSE Bool(Base < lhs[i + 1] + rhs[i + 1] + carry[i + 1])
        tmp(i) == lhs[i] + rhs[i] + carry[i]
    IN [j \in 1 .. Width |-> tmp(Width - j + 1) % Base]

AlgAnd == DigitLoop(LAMBDA a, b : a & b)
AlgOr == DigitLoop(LAMBDA a, b : a & b)
AlgXor == DigitLoop(LAMBDA a, b : a ^^ b)
AlgXnor == DigitLoop(LAMBDA a, b : BWCmpl(a ^^ b))
AlgImplies == DigitLoop(LAMBDA a, b : BWCmpl(a) ^^ b)

(* The product of the digit equalities, complemented for ne.              *)
DigitsEqual == \A i \in 1 .. Width : lhs[i] = rhs[i]

(* Mutant: eq adds the digit equalities, as the relationals do.           *)
AlgEqSum == <<Cardinality({i \in 1 .. Width : lhs[i] = rhs[i]})>>

AlgEq == <<Bool(DigitsEqual)>>
AlgNe == <<1 - Bool(DigitsEqual)>>

(* gt, ge, lt, le: tmp starts at zero and adds the digit comparison of    *)
(* every digit.                                                            *)
DigitSum(f(_, _)) ==
    LET s[i \in 0 .. Width] == IF i = 0 THEN 0 ELSE s[i - 1] + f(lhs[i], rhs[i])
    IN <<s[Width]>>
AlgGt == DigitSum(LAMBDA a, b : Bool(b < a))
AlgGe == DigitSum(LAMBDA a, b : Bool(b <= a))
AlgLt == DigitSum(LAMBDA a, b : Bool(a < b))
AlgLe == DigitSum(LAMBDA a, b : Bool(a <= b))

Hook(o) ==
    CASE o = "add"     -> AlgAdd
      [] o = "and"     -> AlgAnd
      [] o = "or"      -> AlgOr
      [] o = "xor"     -> AlgXor
      [] o = "xnor"    -> AlgXnor
      [] o = "implies" -> AlgImplies
      [] o = "eq"      -> AlgEq
      [] o = "ne"      -> AlgNe
      [] o = "gt"      -> AlgGt
      [] o = "ge"      -> AlgGe
      [] o = "lt"      -> AlgLt
      [] o = "le"      -> AlgLe

-----------------------------------------------------------------------------
Init ==
    /\ op \in Ops
    /\ lhs \in [1 .. Width -> Digits]
    /\ rhs \in [1 .. Width -> Digits]
    /\ pushed = <<>>
    /\ pc = "walk"

(* The post-order hook of the node, on operands already on the stack.     *)
PostOrder ==
    /\ pc = "walk"
    /\ pushed' = Hook(op)
    /\ pc' = "done"
    /\ UNCHANGED <<op, lhs, rhs>>

Next == PostOrder

Spec == Init /\ [][Next]_vars

-----------------------------------------------------------------------------
(* The integer a digit vector stands for, and the digits of an integer.   *)
Value(v) == LET s[i \in 0 .. Len(v)] == IF i = 0 THEN 0 ELSE s[i - 1] * Base + v[i]
            IN s[Len(v)]
Modulus == Base ^ Width
Ones == Modulus - 1

(* What the operator means on the integers lhs and rhs stand for:         *)
(* arithmetic modulo Base^Width, bitwise logic, 0/1 relations.            *)
Ref(o, a, b) ==
    CASE o = "add"     -> (a + b) % Modulus
      [] o = "and"     -> a & b
      [] o = "or"      -> a | b
      [] o = "xor"     -> a ^^ b
      [] o = "xnor"    -> Ones - (a ^^ b)
      [] o = "implies" -> (Ones - a) | b
      [] o = "eq"      -> Bool(a = b)
      [] o = "ne"      -> Bool(a # b)
      [] o = "gt"      -> Bool(a > b)
      [] o = "ge"      -> Bool(a >= b)
      [] o = "lt"      -> Bool(a < b)
      [] o = "le"      -> Bool(a <= b)

(* The DDs a hook pushed, read as the digits its loop computed: the last *)
(* pushed is digit 1.                                                      *)
Result == Value([i \in 1 .. Len(pushed) |-> pushed[Len(pushed) - i + 1]])

(* The algebraic hook of every operator computes, digit by digit, the     *)
(* value the operator has on the integers its operands encode: the carry  *)
(* of the adder, the per-digit bitwise operations and the combination of  *)
(* per-digit comparisons into one truth value are all right               *)
(* (walk_<op>_postorder, is_binary_algebraic branch).                     *)
OpCorrect ==
    pc = "done" => Result = Ref(op, Value(lhs), Value(rhs))
=============================================================================
