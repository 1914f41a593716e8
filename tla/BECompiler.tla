----------------------------- MODULE BECompiler -----------------------------
(***************************************************************************)
(* The Boolean compiler's walker (BECompiler in src/src/model/compiler.cc) *)
(* on formulas over Boolean variables: process(ctx, body, time) walks the  *)
(* body, keeping a stack of ADDs (f_add_stack) and a stack of time frames *)
(* (f_time_stack); each variable at each time frame gets a Boolean        *)
(* encoding, made on first use and kept in f_encodings for every later    *)
(* call of process.                                                        *)
(*                                                                         *)
(* ADD operations are pointwise, so an ADD is modelled by its value (0 or *)
(* 1) under one assignment of the encoding bits: a bit's value is chosen  *)
(* when make_encoding creates it.                                          *)
(*                                                                         *)
(* The compiler's memo (f_map) is never filled: nothing in compiler.cc     *)
(* inserts into it and post_hook is empty, so cache_miss always misses.    *)
(* An expression is [op |-> "sym", name |-> x] or [op |-> o, args |->     *)
(* <<...>>]; c ? t : e is ite(cond(c, t), e), as the parser builds it.     *)
(***************************************************************************)
EXTENDS Naturals, Sequences, TLC

CONSTANTS
    Vars,        \* the Boolean variables of the model
    Defines,     \* Defines[d]: the body of define d
    Bodies,      \* the formulas process is called on
    Times,       \* the time frames a call may start at
    MaxCalls,    \* bound on the calls of process
    Assertions   \* TRUE when the build keeps assert (no NDEBUG)

ASSUME MaxCallsAssumption == MaxCalls \in Nat \ {0}
ASSUME AssertionsAssumption == Assertions \in BOOLEAN

VARIABLES
    body,        \* the formula of the current call
    time0,       \* the time frame of the current call
    calls,       \* the calls of process made so far
    work,        \* the walker's pending visits, next first
    adds,        \* f_add_stack, top last (ADD values under the assignment)
    times,       \* f_time_stack, top last
    types,       \* f_type_stack, top last
    encodings,   \* f_encodings: <<variable, time>> -> its encoding's bit
    bitval,      \* the assignment: bit -> 0 or 1
    pc,          \* "walk", "done" or "fail" (an assertion failed)
    returned     \* the ADDs process returned to its caller, with their call

vars == <<body, time0, calls, work, adds, times, types, encodings, bitval, pc,
          returned>>

Pre(e) == [kind |-> "pre", e |-> e]
Post(e) == [kind |-> "post", e |-> e]
Top(s) == s[Len(s)]
Pop(s, n) == SubSeq(s, 1, Len(s) - n)

-----------------------------------------------------------------------------
(* The ADD operations the post-order hooks call, on 0-1 ADDs.             *)
Cmpl(a) == 1 - a
Bool(b) == IF b THEN 1 ELSE 0

(* The Boolean branches of the post-order hooks of the logical operators  *)
(* (is_binary_boolean); rhs is popped first, then lhs.                    *)
WalkAnd(lhs, rhs) == lhs * rhs
WalkOr(lhs, rhs) == Bool(lhs = 1 \/ rhs = 1)
WalkXor(lhs, rhs) == Bool(lhs # rhs)
WalkXnor(lhs, rhs) == Bool(lhs = rhs)
WalkImplies(lhs, rhs) == Bool(Cmpl(lhs) = 1 \/ rhs = 1)

(* The monolithic branches of the equality and relational hooks           *)
(* (is_binary_monolithic: a Boolean is monolithic).                        *)
WalkEq(lhs, rhs) == Bool(lhs = rhs)
WalkNe(lhs, rhs) == Cmpl(Bool(lhs = rhs))
(* Mutant: gt compares lhs.LT(rhs), its operands the wrong way round.      *)
WalkGtSwapped(lhs, rhs) == Bool(lhs < rhs)
WalkGt(lhs, rhs) == Bool(rhs < lhs)
WalkGe(lhs, rhs) == Bool(rhs <= lhs)
WalkLt(lhs, rhs) == Bool(lhs < rhs)
WalkLe(lhs, rhs) == Bool(lhs <= rhs)

(* The Boolean branches of the not and ite hooks (is_unary_boolean,       *)
(* is_ite_boolean); ite pops rhs, lhs, then the condition c.              *)
WalkNot(top) == Cmpl(top)
WalkIte(c, lhs, rhs) == IF c = 1 THEN lhs ELSE rhs

(* The post-order hook of binary operator op (iff is xnor).               *)
ApplyBinary(op, lhs, rhs) ==
    CASE op = "and"     -> WalkAnd(lhs, rhs)
      [] op = "or"      -> WalkOr(lhs, rhs)
      [] op = "xor"     -> WalkXor(lhs, rhs)
      [] op \in {"xnor", "iff"} -> WalkXnor(lhs, rhs)
      [] op = "implies" -> WalkImplies(lhs, rhs)
      [] op = "eq"      -> WalkEq(lhs, rhs)
      [] op = "ne"      -> WalkNe(lhs, rhs)
      [] op = "gt"      -> WalkGt(lhs, rhs)
      [] op = "ge"      -> WalkGe(lhs, rhs)
      [] op = "lt"      -> WalkLt(lhs, rhs)
      [] op = "le"      -> WalkLe(lhs, rhs)

BinaryOps == {"and", "or", "xor", "xnor", "iff", "implies",
              "eq", "ne", "gt", "ge", "lt", "le"}

-----------------------------------------------------------------------------
(* BECompiler::process: clear the four stacks, push the context and the   *)
(* time frame, and walk the body.  f_encodings is not cleared.  The       *)
(* context stack holds the one context all the way (dot is commented      *)
(* out), so it is left out.                                                *)
StartProcess(e, t) ==
    /\ body' = e
    /\ time0' = t
    /\ calls' = calls + 1
    /\ work' = <<Pre(e)>>
    /\ adds' = <<>>
    /\ times' = <<t>>
    /\ types' = <<>>
    /\ pc' = "walk"

Init ==
    /\ body \in Bodies
    /\ time0 \in Times
    /\ calls = 1
    /\ work = <<Pre(body)>>
    /\ adds = <<>>
    /\ times = <<time0>>
    /\ types = <<>>
    /\ encodings = <<>>
    /\ bitval = <<>>
    /\ pc = "walk"
    /\ returned = {}

(* Mutant: process also clears f_encodings with the four stacks.           *)
ProcessClearing ==
    /\ pc = "done"
    /\ calls < MaxCalls
    /\ \E e \in Bodies, t \in Times : StartProcess(e, t)
    /\ encodings' = <<>>
    /\ UNCHANGED <<bitval, returned>>

(* A later call of process on the same compiler, once the previous one    *)
(* has returned.                                                           *)
Process ==
    /\ pc = "done"
    /\ calls < MaxCalls
    /\ \E e \in Bodies, t \in Times : StartProcess(e, t)
    /\ UNCHANGED <<encodings, bitval, returned>>

(* The pre-order hook of an operator node: cache_miss (always a miss),    *)
(* then the operands are walked in order and the node's post-order hook   *)
(* runs; walk_next_preorder pushes the next time frame.                    *)
WalkPreorder ==
    /\ pc = "walk"
    /\ work # <<>>
    /\ Head(work).kind = "pre"
    /\ LET e == Head(work).e
       IN /\ e.op # "sym"
          /\ work' = [i \in 1 .. Len(e.args) |-> Pre(e.args[i])]
                     \o <<Post(e)>> \o Tail(work)
          /\ times' = IF e.op = "next" THEN Append(times, 1 + Top(times))
                      ELSE times
    /\ UNCHANGED <<body, time0, calls, adds, types, encodings, bitval, pc, returned>>

(* BECompiler::walk_leaf on a variable: the encoding of <<ctx, expr,      *)
(* time>> is taken from f_encodings or made (one fresh bit, of either     *)
(* value) and registered, and its dds()[0] is pushed; on a define, the    *)
(* define's body is compiled in place.  Constant leaves call              *)
(* push_const_value_algebraic and push_const_value_boolean, which are not *)
(* defined under src/, so the formulas have none.                          *)
WalkLeaf ==
    /\ pc = "walk"
    /\ work # <<>>
    /\ Head(work).kind = "pre"
    /\ LET e == Head(work).e
           key == <<e.name, Top(times)>>
           new == Len(bitval) + 1
       IN /\ e.op = "sym"
          /\ \/ /\ e.name \in Vars
                /\ key \in DOMAIN encodings
                /\ adds' = Append(adds, bitval[encodings[key]])
                /\ work' = Tail(work)
                /\ UNCHANGED <<encodings, bitval>>
             \/ /\ e.name \in Vars
                /\ key \notin DOMAIN encodings
                /\ \E v \in {0, 1} :
                      /\ bitval' = Append(bitval, v)
                      /\ adds' = Append(adds, v)
                /\ encodings' = (key :> new) @@ encodings
                /\ work' = Tail(work)
             \/ /\ e.name \in DOMAIN Defines
                /\ work' = <<Pre(Defines[e.name])>> \o Tail(work)
                /\ UNCHANGED <<adds, encodings, bitval>>
    /\ UNCHANGED <<body, time0, calls, times, types, pc, returned>>

(* The post-order hooks: binary operators through ApplyBinary, not        *)
(* (Cmpl), ite (c.Ite(lhs, rhs), the condition popped last), cond (a nop, *)
(* ite does the work) and next (pops the time frame).                      *)
WalkPostorder ==
    /\ pc = "walk"
    /\ work # <<>>
    /\ Head(work).kind = "post"
    /\ LET e == Head(work).e
           n == Len(adds)
       IN \/ /\ e.op \in BinaryOps
             /\ adds' = Append(Pop(adds, 2), ApplyBinary(e.op, adds[n - 1], adds[n]))
             /\ UNCHANGED times
          \/ /\ e.op = "not"
             /\ adds' = Append(Pop(adds, 1), WalkNot(adds[n]))
             /\ UNCHANGED times
          \/ /\ e.op = "ite"
             /\ adds' = Append(Pop(adds, 3),
                               WalkIte(adds[n - 2], adds[n - 1], adds[n]))
             /\ UNCHANGED times
          \/ /\ e.op = "cond"
             /\ UNCHANGED <<adds, times>>
          \/ /\ e.op = "next"
             /\ times' = Pop(times, 1)
             /\ UNCHANGED adds
    /\ work' = Tail(work)
    /\ UNCHANGED <<body, time0, calls, types, encodings, bitval, pc, returned>>

(* The sanity assertions of BECompiler::process, then the top ADD         *)
(* (f_add_stack.back()) is returned.  In a build with NDEBUG they are not  *)
(* evaluated.                                                              *)
Finish ==
    /\ pc = "walk"
    /\ work = <<>>
    /\ LET sane == Len(adds) = 1 /\ Len(types) = 1 /\ Len(times) = 1
           res == [body |-> body, time |-> time0, add |-> Top(adds)]
       IN /\ pc' = IF Assertions /\ ~sane THEN "fail" ELSE "done"
          /\ returned' = IF pc' = "done" /\ adds # <<>> THEN returned \cup {res}
                         ELSE returned
    /\ UNCHANGED <<body, time0, calls, work, adds, times, types, encodings, bitval>>

Next == Process \/ WalkPreorder \/ WalkLeaf \/ WalkPostorder \/ Finish

Spec == Init /\ [][Next]_vars /\ WF_vars(Next)

-----------------------------------------------------------------------------
(* Reference semantics: the truth of a formula at time t, reading each    *)
(* variable through the bit f_encodings gives it.                          *)
RECURSIVE Ref(_, _)
Ref(e, t) ==
    LET a(i) == Ref(e.args[i], t)
    IN CASE e.op = "sym"  -> IF e.name \in Vars
                             THEN bitval[encodings[<<e.name, t>>]]
                             ELSE Ref(Defines[e.name], t)
         [] e.op = "next" -> Ref(e.args[1], t + 1)
         [] e.op = "not"  -> 1 - a(1)
         [] e.op = "ite"  -> IF Ref(e.args[1].args[1], t) = 1
                             THEN Ref(e.args[1].args[2], t) ELSE a(2)
         [] e.op = "and"  -> Bool(a(1) = 1 /\ a(2) = 1)
         [] e.op = "or"   -> Bool(a(1) = 1 \/ a(2) = 1)
         [] e.op = "xor"  -> Bool(a(1) # a(2))
         [] e.op \in {"xnor", "iff", "eq"} -> Bool(a(1) = a(2))
         [] e.op = "implies" -> Bool(a(1) = 1 => a(2) = 1)
         [] e.op = "ne"   -> Bool(a(1) # a(2))
         [] e.op = "gt"   -> Bool(a(1) > a(2))
         [] e.op = "ge"   -> Bool(a(1) >= a(2))
         [] e.op = "lt"   -> Bool(a(1) < a(2))
         [] e.op = "le"   -> Bool(a(1) <= a(2))

(* The <<variable, time>> keys whose encodings a formula at time t reads. *)
RECURSIVE Reads(_, _)
Reads(e, t) ==
    CASE e.op = "sym"  -> IF e.name \in Vars THEN {<<e.name, t>>}
                          ELSE Reads(Defines[e.name], t)
      [] e.op = "next" -> Reads(e.args[1], t + 1)
      [] OTHER         -> UNION {Reads(e.args[i], t) : i \in DOMAIN e.args}

(* Type correctness.                                                      *)
TypeOK ==
    /\ calls \in 1 .. MaxCalls
    /\ adds \in Seq({0, 1})
    /\ types = <<>>
    /\ pc \in {"walk", "done", "fail"}

(* Compiling a formula (BECompiler::process, used for the reach target    *)
(* and its constraints) leaves exactly one ADD, the formula's truth at    *)
(* the call's time frame, and only that call's frame on the time stack:   *)
(* the ADDs are popped in the order the walker pushed them, next shifts   *)
(* only the frames of its operand, defines are compiled in place, and a   *)
(* variable read again, in the same or a later call, gets the encoding    *)
(* it got first.                                                          *)
CompileCorrect ==
    (pc # "fail" /\ work = <<>>) =>
        /\ adds = <<Ref(body, time0)>>
        /\ times = <<time0>>

(* BECompiler::process returns: its sanity assertions hold after the walk *)
(* (one ADD, one type, one context and one time frame left).               *)
ProcessSane == pc # "fail"

(* Spec 3 (lifecycles): an encoding is made on first use of a variable at *)
(* a time frame and lives as long as the encoding manager.  So every ADD  *)
(* process returned, in this call or an earlier one, still denotes its    *)
(* formula under the encodings now registered: a later call reading the   *)
(* same variable at the same frame shares its bits (walk_leaf,            *)
(* compiler.cc:926-951, and process not clearing f_encodings, 55-85).    *)
EncodingsShared ==
    \A r \in returned :
        /\ Reads(r.body, r.time) \subseteq DOMAIN encodings
        /\ r.add = Ref(r.body, r.time)
=============================================================================
