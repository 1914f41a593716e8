----------------------------- MODULE Compiler ------------------------------
(***************************************************************************)
(* The side tables of the expression compiler (Compiler, in               *)
(* src/src/model/compiler/internals.cc): the walker pushes DDs on          *)
(* f_add_stack, registers a MicroDescriptor for every algebraic operator   *)
(* and a MuxDescriptor for every digit of an algebraic ITE, memoizes each  *)
(* node's result with post_node_hook and replays it with cache_miss, and   *)
(* finally post_process_muxes emits the MUX activation clauses.           *)
(*                                                                         *)
(* An expression is a DAG of nodes: Kind[n] is "bool" (a Boolean          *)
(* variable, one DD), "alg" (an algebraic variable, Width DDs), "op" (an  *)
(* algebraic binary operator) or "ite" (Args[n] = <<c, t, e>>, c Boolean, *)
(* t and e algebraic).  A DD is <<"var", n, i>> (digit i of variable n)  *)
(* or <<"auto", j>> (the j-th fresh DD, make_auto_dd).  The context and    *)
(* the time frame are those of the one process call, so a cache key is a  *)
(* node.                                                                   *)
(***************************************************************************)
EXTENDS Integers, Sequences, FiniteSets

CONSTANTS
    Width,      \* the digits of an algebraic value
    Nodes,      \* the expression nodes
    Kind,       \* Kind[n]: "bool", "alg", "op" or "ite"
    Args,       \* Args[n]: the operands of n, a sequence of nodes
    Bodies      \* the expressions compiled

ASSUME WidthAssumption == Width \in Nat \ {0}

(* The compiled expressions are type checked: an algebraic binary operator *)
(* has two algebraic operands (is_binary_algebraic), and an algebraic ITE  *)
(* a Boolean condition and two algebraic branches (spec 4.5.5).            *)
ASSUME KindAssumption ==
    /\ Kind \in [Nodes -> {"bool", "alg", "op", "ite"}]
    /\ Bodies \subseteq Nodes
ASSUME ArgsAssumption ==
    \A n \in Nodes :
        /\ Kind[n] = "op" =>
              \E x, y \in Nodes : /\ Args[n] = <<x, y>>
                                  /\ Kind[x] # "bool" /\ Kind[y] # "bool"
        /\ Kind[n] = "ite" =>
              \E c, x, y \in Nodes : /\ Args[n] = <<c, x, y>>
                                     /\ Kind[c] = "bool"
                                     /\ Kind[x] # "bool" /\ Kind[y] # "bool"

VARIABLES
    body,       \* the toplevel expression of this process call
    work,       \* the walker's pending visits, next first
    adds,       \* f_add_stack, top last
    micros,     \* f_micro_descriptors
    muxmap,     \* f_mux_map: toplevel expression -> its MuxDescriptors
    cache,      \* f_cache: node -> [dds, micros, muxmap]
    auto,       \* the fresh DDs made so far (f_temp_auto_index)
    acts,       \* the activation clauses act <-> aux pushed at the end
    pc          \* "walk" or "done"

vars == <<body, work, adds, micros, muxmap, cache, auto, acts, pc>>

-----------------------------------------------------------------------------
BVars == {n \in Nodes : Kind[n] = "bool"}
DigitsOf(n) == IF Kind[n] = "bool" THEN 1 ELSE Width

(* An assignment of the Boolean variables, and the set of assignments     *)
(* under which a condition DD is true.                                     *)
Assign == [BVars -> BOOLEAN]
Sem(dd) == {s \in Assign : s[dd[2]]}

Pre(n) == [kind |-> "pre", n |-> n]
Post(n) == [kind |-> "post", n |-> n]
Top(s, w) == [i \in 1 .. w |-> s[Len(s) - i + 1]]
Pop(s, w) == SubSeq(s, 1, Len(s) - w)
Reversed(v) == [i \in 1 .. Len(v) |-> v[Len(v) - i + 1]]

(* make_auto_ddvect: w fresh DDs after the first `from` ones.              *)
AutoVect(from, w) == [i \in 1 .. w |-> <<"auto", from + i>>]

(* A map with the entries of m2 added for the keys m1 lacks: the          *)
(* std::map::insert of cache_miss, which never overwrites a key.          *)
MapInsert(m1, m2) ==
    [t \in DOMAIN m1 \cup DOMAIN m2 |-> IF t \in DOMAIN m1 THEN m1[t] ELSE m2[t]]

(* Mutant: the entry of a toplevel without one is never created, so its  *)
(* first descriptor is lost.                                               *)
RegisterMuxNoCreate(m, t, ds) ==
    IF t \in DOMAIN m THEN [m EXCEPT ![t] = @ \o ds] ELSE m

(* register_muxdescriptor for each descriptor of ds: create the entry of  *)
(* toplevel t if it does not exist, then append.                           *)
RegisterMux(m, t, ds) ==
    IF t \in DOMAIN m THEN [m EXCEPT ![t] = @ \o ds]
    ELSE [u \in DOMAIN m \cup {t} |-> IF u = t THEN ds ELSE m[u]]

(* post_node_hook: memoize the top DigitsOf(n) DDs together with the     *)
(* whole of the current microcode and MUX tables.                          *)
PostNodeHook(n, a, mi, mx) ==
    cache' = [k \in DOMAIN cache \cup {n} |->
                IF k = n THEN [dds |-> Top(a, DigitsOf(n)),
                               micros |-> mi, muxmap |-> mx]
                ELSE cache[k]]

(* cache_miss on a hit: push the cached DDs reversed, append the cached   *)
(* microcode descriptors and insert the cached MUX entries.               *)
CacheHit(n) ==
    LET u == cache[n]
    IN /\ adds' = adds \o Reversed(u.dds)
       /\ micros' = micros \o u.micros
       /\ muxmap' = MapInsert(muxmap, u.muxmap)

-----------------------------------------------------------------------------
Init ==
    /\ body \in Bodies
    /\ work = <<Pre(body)>>
    /\ adds = <<>>
    /\ micros = <<>>
    /\ muxmap = [t \in {} |-> <<>>]
    /\ cache = [k \in {} |-> <<>>]
    /\ auto = 0
    /\ acts = [t \in {} |-> <<>>]
    /\ pc = "walk"

(* The pre-order hook of any node whose key is cached: the subtree is     *)
(* skipped.                                                                *)
Hit ==
    /\ pc = "walk"
    /\ work # <<>>
    /\ Head(work).kind = "pre"
    /\ Head(work).n \in DOMAIN cache
    /\ CacheHit(Head(work).n)
    /\ work' = Tail(work)
    /\ UNCHANGED <<body, cache, auto, acts, pc>>

(* A leaf that misses: push_dds pushes its encoding's DDs reversed, then  *)
(* post_node_hook memoizes them.                                           *)
Leaf ==
    /\ pc = "walk"
    /\ work # <<>>
    /\ Head(work).kind = "pre"
    /\ LET n == Head(work).n
           a == adds \o Reversed([i \in 1 .. DigitsOf(n) |-> <<"var", n, i>>])
       IN /\ n \notin DOMAIN cache
          /\ Kind[n] \in {"bool", "alg"}
          /\ adds' = a
          /\ PostNodeHook(n, a, micros, muxmap)
    /\ work' = Tail(work)
    /\ UNCHANGED <<body, micros, muxmap, auto, acts, pc>>

(* An operator that misses: its operands are walked, then its post-order  *)
(* hook.                                                                   *)
Expand ==
    /\ pc = "walk"
    /\ work # <<>>
    /\ Head(work).kind = "pre"
    /\ LET n == Head(work).n
       IN /\ n \notin DOMAIN cache
          /\ Kind[n] \in {"op", "ite"}
          /\ work' = [i \in 1 .. Len(Args[n]) |-> Pre(Args[n][i])]
                     \o <<Post(n)>> \o Tail(work)
    /\ UNCHANGED <<body, adds, micros, muxmap, cache, auto, acts, pc>>

(* An algebraic binary operator: pop y and x (Width digits each), make    *)
(* the result z of fresh DDs, register_microdescriptor, push z reversed,  *)
(* post_node_hook.                                                         *)
Operator ==
    /\ pc = "walk"
    /\ work # <<>>
    /\ Head(work).kind = "post"
    /\ LET n == Head(work).n
           y == Top(adds, Width)
           x == Top(Pop(adds, Width), Width)
           z == AutoVect(auto, Width)
           a == Pop(adds, 2 * Width) \o Reversed(z)
           mi == Append(micros, [z |-> z, x |-> x, y |-> y])
       IN /\ Kind[n] = "op"
          /\ adds' = a
          /\ micros' = mi
          /\ auto' = auto + Width
          /\ PostNodeHook(n, a, mi, muxmap)
    /\ work' = Tail(work)
    /\ UNCHANGED <<body, muxmap, acts, pc>>

(* An algebraic ITE: pop the else and then vectors and the condition,     *)
(* make the result z, and for each digit register a MUX descriptor with a *)
(* fresh aux under the toplevel expression; push z, post_node_hook.       *)
Ite ==
    /\ pc = "walk"
    /\ work # <<>>
    /\ Head(work).kind = "post"
    /\ LET n == Head(work).n
           y == Top(adds, Width)
           x == Top(Pop(adds, Width), Width)
           c == adds[Len(adds) - 2 * Width]
           z == AutoVect(auto, Width)
           ds == [i \in 1 .. Width |->
                    [z |-> z, cnd |-> c, aux |-> <<"auto", auto + Width + i>>,
                     x |-> x, y |-> y]]
           a == Pop(adds, 2 * Width + 1) \o Reversed(z)
           mx == RegisterMux(muxmap, body, ds)
       IN /\ Kind[n] = "ite"
          /\ adds' = a
          /\ muxmap' = mx
          /\ auto' = auto + 2 * Width
          /\ PostNodeHook(n, a, micros, mx)
    /\ work' = Tail(work)
    /\ UNCHANGED <<body, micros, acts, pc>>

(* post_process_muxes: for each toplevel, walk its descriptors in reverse *)
(* insertion order with prev = 0, pushing act <-> aux for                 *)
(* act = !prev & cnd, and then setting prev = act.                         *)
ActivationsCode(ds) ==
    LET act[i \in 1 .. Len(ds)] ==
            (Assign \ (IF i = Len(ds) THEN {} ELSE act[i + 1]))
                \cap Sem(ds[i].cnd)
    IN [i \in 1 .. Len(ds) |-> [aux |-> ds[i].aux, act |-> act[i]]]

PostProcessMuxes ==
    /\ pc = "walk"
    /\ work = <<>>
    /\ acts' = [t \in DOMAIN muxmap |-> ActivationsCode(muxmap[t])]
    /\ pc' = "done"
    /\ UNCHANGED <<body, work, adds, micros, muxmap, cache, auto>>

Next == Hit \/ Leaf \/ Expand \/ Operator \/ Ite \/ PostProcessMuxes

Spec == Init /\ [][Next]_vars /\ WF_vars(Next)

-----------------------------------------------------------------------------
SeqRange(s) == {s[i] : i \in DOMAIN s}
Muxes == UNION {SeqRange(muxmap[t]) : t \in DOMAIN muxmap}

(* The fresh DDs the side tables define (the results of microcode and of  *)
(* MUXes, and the MUX aux bits) and the DDs the formula and the side      *)
(* tables use.                                                             *)
DefinedDDs == (UNION {SeqRange(m.z) : m \in SeqRange(micros)})
              \cup (UNION {SeqRange(d.z) \cup {d.aux} : d \in Muxes})
UsedDDs == SeqRange(adds)
           \cup (UNION {SeqRange(m.x) \cup SeqRange(m.y) : m \in SeqRange(micros)})
           \cup (UNION {SeqRange(d.x) \cup SeqRange(d.y) \cup {d.cnd} : d \in Muxes})

(* Every fresh DD that the compiled formula or a descriptor refers to is  *)
(* the result of a registered MicroDescriptor or MuxDescriptor, through   *)
(* misses and cache hits alike: otherwise the SAT engine would treat the  *)
(* result of an operator or an ITE (cache_miss, post_node_hook,            *)
(* register_muxdescriptor) as an unconstrained variable.                   *)
NoDanglingDDs == \A dd \in UsedDDs : dd[1] = "auto" => dd \in DefinedDDs

(* The MUX activation clauses of each toplevel are mutually exclusive:    *)
(* under no assignment of the conditions are two aux bits of one chain    *)
(* set (spec 4.5.5, post_process_muxes).                                  *)
MuxExclusive ==
    pc = "done" =>
        \A t \in DOMAIN acts, s \in Assign :
            Cardinality({i \in DOMAIN acts[t] : s \in acts[t][i].act}) <= 1

(* What compiling node n from scratch registers: one MicroDescriptor per  *)
(* operator occurrence and Width MuxDescriptors per ITE occurrence.       *)
ColdMicros[n \in Nodes] ==
    (IF Kind[n] = "op" THEN 1 ELSE 0)
    + (IF Kind[n] \in {"op", "ite"}
       THEN LET a == Args[n]
            IN ColdMicros[a[1]] + ColdMicros[a[2]]
               + (IF Len(a) = 3 THEN ColdMicros[a[3]] ELSE 0)
       ELSE 0)
ColdMuxes[n \in Nodes] ==
    (IF Kind[n] = "ite" THEN Width ELSE 0)
    + (IF Kind[n] \in {"op", "ite"}
       THEN LET a == Args[n]
            IN ColdMuxes[a[1]] + ColdMuxes[a[2]]
               + (IF Len(a) = 3 THEN ColdMuxes[a[3]] ELSE 0)
       ELSE 0)
MuxCount(m) == Cardinality(UNION {{<<t, i>> : i \in 1 .. Len(m[t])} : t \in DOMAIN m})

(* A cache entry for node n holds, up to the identity of fresh DDs, what  *)
(* compiling n from scratch would register (spec invariant I5): as many   *)
(* microcode and MUX descriptors as the subtree of n has operators and    *)
(* ITE digits (post_node_hook).                                            *)
CacheReproduces ==
    \A n \in DOMAIN cache :
        /\ Len(cache[n].micros) = ColdMicros[n]
        /\ MuxCount(cache[n].muxmap) = ColdMuxes[n]
=============================================================================
