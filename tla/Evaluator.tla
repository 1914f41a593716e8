----------------------------- MODULE Evaluator -----------------------------
(***************************************************************************)
(* The expression evaluator (Evaluator in src/src/expr/expr_eval.cc): the  *)
(* walker visits an expression in pre-order, in-order and post-order,     *)
(* keeping a stack of values (POP_VALUE / PUSH_VALUE) and a stack of time *)
(* frames; `next` and `prev` shift the time frame of their operand and    *)
(* variables are read from a witness at the current frame.  value_t is a  *)
(* two's-complement integer of ValueBits bits, a machine word; the        *)
(* variables are encoded in Width bits (AlgebraicEncoding), and witness   *)
(* values are the unsigned numbers AlgebraicEncoding::expr rebuilds.      *)
(*                                                                         *)
(* An expression is a record: [op |-> "num", val |-> n], [op |-> "sym",   *)
(* name |-> x] or [op |-> o, args |-> <<...>>].  A conditional c ? t : e  *)
(* is ite(cond(c, t), e), as the parser builds it.                        *)
(***************************************************************************)
EXTENDS Integers, Sequences, Bitwise

CONSTANTS
    ValueBits,   \* the bits of value_t
    Width,       \* the bits of an encoded variable (4 per digit)
    Vars,        \* the variables of the model
    Defines,     \* Defines[d]: the body of define d
    Bodies,      \* the expressions evaluated
    Witnesses,   \* witnesses: partial maps from <<variable, time>> to values
    Times        \* the time frames an evaluation may start at

ASSUME WidthAssumption == Width \in Nat \ {0} /\ ValueBits \in Nat \ {0}

VARIABLES
    body,        \* the expression being evaluated
    time0,       \* the time frame it is evaluated at
    witness,     \* the witness the variables are read from
    work,        \* the walker's pending visits, next first
    values,      \* f_expr_stack (the value stack), top last
    times,       \* f_time_stack, top last
    pc           \* "walk", "done" or "fail" (an assertion failed)

vars == <<body, time0, witness, work, values, times, pc>>

-----------------------------------------------------------------------------
(* value_t arithmetic: results wrap to ValueBits bits, two's complement   *)
(* (signed overflow is undefined in C; this is what the build produces).  *)
Wrap(x) == LET m == x % (2 ^ ValueBits)
           IN IF m >= 2 ^ (ValueBits - 1) THEN m - 2 ^ ValueBits ELSE m
Unsigned(x) == x % (2 ^ ValueBits)

(* AlgebraicEncoding::expr rebuilds a value from its nibbles, most        *)
(* significant first, as an unsigned number of Width bits: the value a     *)
(* Width-bit encoded word holds after arithmetic that drops the carry out. *)
EncValue(x) == x % (2 ^ Width)

(* C division and remainder truncate toward zero.                         *)
CDiv(a, b) == LET q == (IF a < 0 THEN -a ELSE a) \div (IF b < 0 THEN -b ELSE b)
              IN IF (a < 0) = (b < 0) THEN q ELSE -q
CMod(a, b) == a - b * CDiv(a, b)

(* C's ! on a value_t.                                                     *)
CNot(x) == IF x = 0 THEN 1 ELSE 0

BitAnd(a, b) == Wrap(Unsigned(a) & Unsigned(b))
BitOr(a, b) == Wrap(Unsigned(a) | Unsigned(b))
BitXor(a, b) == Wrap(Unsigned(a) ^^ Unsigned(b))

Bool(b) == IF b THEN 1 ELSE 0

(* The post-order hooks of the binary operators (walk_<op>_postorder):    *)
(* rhs is popped first, then lhs.                                          *)
WalkAdd(lhs, rhs) == Wrap(lhs + rhs)
(* Mutant: the operands are popped in the wrong order.                    *)
WalkSubSwapped(lhs, rhs) == Wrap(rhs - lhs)
WalkSub(lhs, rhs) == Wrap(lhs - rhs)
WalkDiv(lhs, rhs) == Wrap(CDiv(lhs, rhs))
WalkMul(lhs, rhs) == Wrap(CDiv(lhs, rhs))
WalkMod(lhs, rhs) == CMod(lhs, rhs)
WalkAnd(lhs, rhs) == BitAnd(lhs, rhs)
WalkOr(lhs, rhs) == BitOr(lhs, rhs)
WalkXor(lhs, rhs) == BitXor(lhs, rhs)
WalkXnor(lhs, rhs) == BitAnd(BitOr(CNot(lhs), rhs), BitOr(CNot(rhs), lhs))
WalkImplies(lhs, rhs) == BitOr(CNot(lhs), rhs)
WalkLShift(lhs, rhs) == Wrap(lhs * 2 ^ rhs)
WalkRShift(lhs, rhs) == Wrap(lhs * 2 ^ rhs)
WalkEq(lhs, rhs) == Bool(lhs = rhs)
WalkNe(lhs, rhs) == Bool(lhs # rhs)
WalkGt(lhs, rhs) == Bool(lhs > rhs)
WalkGe(lhs, rhs) == Bool(lhs >= rhs)
WalkLt(lhs, rhs) == Bool(lhs < rhs)
WalkLe(lhs, rhs) == Bool(lhs <= rhs)

(* The post-order hook of binary operator op applied to the popped values. *)
ApplyBinary(op, lhs, rhs) ==
    CASE op = "add"     -> WalkAdd(lhs, rhs)
      [] op = "sub"     -> WalkSub(lhs, rhs)
      [] op = "div"     -> WalkDiv(lhs, rhs)
      [] op = "mul"     -> WalkMul(lhs, rhs)
      [] op = "mod"     -> WalkMod(lhs, rhs)
      [] op = "and"     -> WalkAnd(lhs, rhs)
      [] op = "or"      -> WalkOr(lhs, rhs)
      [] op = "xor"     -> WalkXor(lhs, rhs)
      [] op = "xnor"    -> WalkXnor(lhs, rhs)
      [] op = "iff"     -> WalkXnor(lhs, rhs)
      [] op = "implies" -> WalkImplies(lhs, rhs)
      [] op = "lshift"  -> WalkLShift(lhs, rhs)
      [] op = "rshift"  -> WalkRShift(lhs, rhs)
      [] op = "eq"      -> WalkEq(lhs, rhs)
      [] op = "ne"      -> WalkNe(lhs, rhs)
      [] op = "gt"      -> WalkGt(lhs, rhs)
      [] op = "ge"      -> WalkGe(lhs, rhs)
      [] op = "lt"      -> WalkLt(lhs, rhs)
      [] op = "le"      -> WalkLe(lhs, rhs)

BinaryOps == {"add", "sub", "div", "mul", "mod", "and", "or", "xor", "xnor",
              "iff", "implies", "lshift", "rshift", "eq", "ne", "gt", "ge",
              "lt", "le"}

Pre(e) == [kind |-> "pre", e |-> e]
Post(e) == [kind |-> "post", e |-> e]
Top(s) == s[Len(s)]
Pop(s, n) == SubSeq(s, 1, Len(s) - n)

-----------------------------------------------------------------------------
(* Evaluator::process: clear the stacks, push the time frame and walk the  *)
(* body.                                                                   *)
Init ==
    /\ body \in Bodies
    /\ time0 \in Times
    /\ witness \in Witnesses
    /\ work = <<Pre(body)>>
    /\ values = <<>>
    /\ times = <<time0>>
    /\ pc = "walk"

(* The pre-order hook of an operator node: cache_miss (the value cache is *)
(* never filled, so it always misses), then the operands are walked in    *)
(* order and the node's post-order hook runs; `next` and `prev` push the  *)
(* shifted time frame (walk_next_preorder, walk_prev_preorder).           *)
WalkPreorder ==
    /\ pc = "walk"
    /\ work # <<>>
    /\ Head(work).kind = "pre"
    /\ LET e == Head(work).e
       IN /\ e.op \notin {"num", "sym"}
          /\ work' = [i \in 1 .. Len(e.args) |-> Pre(e.args[i])]
                     \o <<Post(e)>> \o Tail(work)
          /\ times' = CASE e.op = "next" -> Append(times, Top(times) + 1)
                        [] e.op = "prev" -> Append(times, Top(times) - 1)
                        [] OTHER         -> times
    /\ UNCHANGED <<body, time0, witness, values, pc>>

(* Evaluator::walk_leaf: a numeric constant is pushed; a variable is read *)
(* from the witness at the current time frame, and a missing value fails  *)
(* an assertion; a define is walked in place (re-entrant invocation).     *)
WalkLeaf ==
    /\ pc = "walk"
    /\ work # <<>>
    /\ Head(work).kind = "pre"
    /\ LET e == Head(work).e
           key == <<e.name, Top(times)>>
       IN \/ /\ e.op = "num"
             /\ values' = Append(values, e.val)
             /\ work' = Tail(work)
             /\ UNCHANGED pc
          \/ /\ e.op = "sym"
             /\ e.name \in Vars
             /\ key \in DOMAIN witness
             /\ values' = Append(values, witness[key])
             /\ work' = Tail(work)
             /\ UNCHANGED pc
          \/ /\ e.op = "sym"
             /\ e.name \in Vars
             /\ key \notin DOMAIN witness
             /\ pc' = "fail"
             /\ UNCHANGED <<work, values>>
          \/ /\ e.op = "sym"
             /\ e.name \in DOMAIN Defines
             /\ work' = <<Pre(Defines[e.name])>> \o Tail(work)
             /\ UNCHANGED <<values, pc>>
    /\ UNCHANGED <<body, time0, witness, times>>

(* The post-order hooks.                                                  *)
WalkPostorder ==
    /\ pc = "walk"
    /\ work # <<>>
    /\ Head(work).kind = "post"
    /\ LET e == Head(work).e
           n == Len(values)
       IN \/ /\ e.op \in BinaryOps
             /\ values' = Append(Pop(values, 2),
                                 ApplyBinary(e.op, values[n - 1], values[n]))
             /\ UNCHANGED times
          \/ /\ e.op = "not"
             /\ values' = Append(Pop(values, 1), CNot(values[n]))
             /\ UNCHANGED times
          \/ /\ e.op = "ite"
             /\ values' = Append(Pop(values, 3),
                                 IF values[n - 2] # 0 THEN values[n - 1]
                                 ELSE values[n])
             /\ UNCHANGED times
          \/ /\ e.op = "cond"
             /\ UNCHANGED <<values, times>>
          \/ /\ e.op \in {"next", "prev"}
             /\ times' = Pop(times, 1)
             /\ UNCHANGED values
    /\ work' = Tail(work)
    /\ UNCHANGED <<body, time0, witness, pc>>

(* The sanity assertions of Evaluator::process: exactly one value and one *)
(* time frame are left.                                                   *)
Finish ==
    /\ pc = "walk"
    /\ work = <<>>
    /\ pc' = IF Len(values) = 1 /\ Len(times) = 1 THEN "done" ELSE "fail"
    /\ UNCHANGED <<body, time0, witness, work, values, times>>

Next == WalkPreorder \/ WalkLeaf \/ WalkPostorder \/ Finish

Spec == Init /\ [][Next]_vars /\ WF_vars(Next)

-----------------------------------------------------------------------------
(***************************************************************************)
(* Reference semantics: what an expression means at time t over witness w *)
(* (spec: "computing literal values for operators"), with the logical     *)
(* operators on Booleans 0 and 1.                                         *)
(***************************************************************************)
RECURSIVE RefIn(_, _, _, _)
RefIn(e, t, w, enc) ==
    LET a(i) == RefIn(e.args[i], t, w, enc)
        Fit(x) == IF enc THEN EncValue(x) ELSE Wrap(x)
    IN CASE e.op = "num"     -> e.val
         [] e.op = "sym"     -> IF e.name \in Vars THEN w[<<e.name, t>>]
                                ELSE RefIn(Defines[e.name], t, w, enc)
         [] e.op = "next"    -> RefIn(e.args[1], t + 1, w, enc)
         [] e.op = "prev"    -> RefIn(e.args[1], t - 1, w, enc)
         [] e.op = "not"     -> 1 - a(1)
         [] e.op = "ite"     -> IF RefIn(e.args[1].args[1], t, w, enc) = 1
                                THEN RefIn(e.args[1].args[2], t, w, enc) ELSE a(2)
         [] e.op = "add"     -> Fit(a(1) + a(2))
         [] e.op = "sub"     -> Fit(a(1) - a(2))
         [] e.op = "mul"     -> Fit(a(1) * a(2))
         [] e.op = "div"     -> Fit(CDiv(a(1), a(2)))
         [] e.op = "mod"     -> CMod(a(1), a(2))
         [] e.op = "lshift"  -> Fit(a(1) * 2 ^ a(2))
         [] e.op = "rshift"  -> a(1) \div 2 ^ a(2)
         [] e.op = "and"     -> Bool(a(1) = 1 /\ a(2) = 1)
         [] e.op = "or"      -> Bool(a(1) = 1 \/ a(2) = 1)
         [] e.op = "xor"     -> Bool(a(1) # a(2))
         [] e.op \in {"xnor", "iff"} -> Bool(a(1) = a(2))
         [] e.op = "implies" -> Bool(a(1) = 1 => a(2) = 1)
         [] e.op = "eq"      -> Bool(a(1) = a(2))
         [] e.op = "ne"      -> Bool(a(1) # a(2))
         [] e.op = "gt"      -> Bool(a(1) > a(2))
         [] e.op = "ge"      -> Bool(a(1) >= a(2))
         [] e.op = "lt"      -> Bool(a(1) < a(2))
         [] e.op = "le"      -> Bool(a(1) <= a(2))

Ref(e, t, w) == RefIn(e, t, w, FALSE)
EncRef(e, t, w) == RefIn(e, t, w, TRUE)

(* The witness entries an evaluation of e at time t reads.                *)
RECURSIVE Reads(_, _)
Reads(e, t) ==
    CASE e.op = "num" -> {}
      [] e.op = "sym" -> IF e.name \in Vars THEN {<<e.name, t>>}
                         ELSE Reads(Defines[e.name], t)
      [] e.op = "next" -> Reads(e.args[1], t + 1)
      [] e.op = "prev" -> Reads(e.args[1], t - 1)
      [] OTHER -> UNION {Reads(e.args[i], t) : i \in DOMAIN e.args}

(* Evaluating a formula over a witness that has every value it reads      *)
(* (WitnessMgr::eval, used to check witnesses and by the `eval` command)  *)
(* passes the sanity assertions of Evaluator::process and yields the      *)
(* value of the formula: the value and time stacks are popped in the      *)
(* order the walker pushed them, `next` and `prev` shift only the frames  *)
(* of their operand, and defines are evaluated in place.                  *)
EvalCorrect ==
    pc # "walk" /\ Reads(body, time0) \subseteq DOMAIN witness =>
        /\ pc = "done"
        /\ values = <<Ref(body, time0, witness)>>

(* Spec P5: a witness the solver returned satisfies the formula it was    *)
(* found for, so evaluating that formula over it (WitnessMgr::eval, the   *)
(* `eval` command) yields the value the encoded formula has, whose        *)
(* arithmetic wraps at the variables' Width bits; walk_add_postorder and  *)
(* the other arithmetic hooks compute in the wider value_t instead.       *)
EvalMatchesEncoding ==
    pc = "done" => values = <<EncRef(body, time0, witness)>>

=============================================================================
