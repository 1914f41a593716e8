--------------------------- MODULE CompilerProofs ---------------------------
(***************************************************************************)
(* The side tables of the compiler never refer to an undefined fresh DD   *)
(* (NoDanglingDDs), for every width and every type-checked expression     *)
(* DAG.  The proof needs two facts besides the invariant itself:          *)
(*  - the add stack is deep enough whenever a post-order hook pops it: a  *)
(*    height function gives the stack height each pending visit will find *)
(*    (StackHeights), one local equation per visit, so that no sum over   *)
(*    the work list is needed;                                             *)
(*  - every cache entry is as clean as the tables (CacheClean), since a   *)
(*    cache hit replays it.                                                *)
(***************************************************************************)
EXTENDS Compiler, SequenceTheorems, TLAPS

USE WidthAssumption

-----------------------------------------------------------------------------
(* Types.                                                                  *)
DD == ({"var"} \X Nodes \X Nat) \cup ({"auto"} \X Nat)
MicroRec == [z : Seq(DD), x : Seq(DD), y : Seq(DD)]
MuxRec == [z : Seq(DD), cnd : DD, aux : DD, x : Seq(DD), y : Seq(DD)]
IsMuxMap(m) == m \in [DOMAIN m -> Seq(MuxRec)] /\ DOMAIN m \subseteq Nodes
CacheRec(u) ==
    u.dds \in Seq(DD) /\ u.micros \in Seq(MicroRec) /\ IsMuxMap(u.muxmap)
Item == [kind : {"pre", "post"}, n : Nodes]

TypeOK ==
    /\ body \in Nodes
    /\ work \in Seq(Item)
    /\ adds \in Seq(DD)
    /\ micros \in Seq(MicroRec)
    /\ IsMuxMap(muxmap)
    /\ DOMAIN cache \subseteq Nodes
    /\ \A n \in DOMAIN cache : CacheRec(cache[n]) /\ Len(cache[n].dds) = DigitsOf(n)
    /\ auto \in Nat
    /\ pc \in {"walk", "done"}

-----------------------------------------------------------------------------
(* The DDs that sets of microcode and MUX descriptors define, and that    *)
(* they and a set A of stack entries use.                                  *)
MuxesOf(mx) == UNION {SeqRange(mx[t]) : t \in DOMAIN mx}
DefS(MI, MX) == (UNION {SeqRange(m.z) : m \in MI})
                \cup (UNION {SeqRange(d.z) \cup {d.aux} : d \in MX})
UseS(A, MI, MX) ==
    A \cup (UNION {SeqRange(m.x) \cup SeqRange(m.y) : m \in MI})
      \cup (UNION {SeqRange(d.x) \cup SeqRange(d.y) \cup {d.cnd} : d \in MX})
Autos(S) == {dd \in S : dd[1] = "auto"}

(* A cache entry refers only to fresh DDs of D, the ones the current       *)
(* tables define, and defines no other.                                    *)
CleanEntry(u, D) ==
    LET MI == SeqRange(u.micros)
        MX == MuxesOf(u.muxmap)
    IN  /\ Autos(UseS(SeqRange(u.dds), MI, MX)) \subseteq D
        /\ DefS(MI, MX) \subseteq D
CacheClean == \A n \in DOMAIN cache : CleanEntry(cache[n], DefinedDDs)

-----------------------------------------------------------------------------
(* The DDs a post-order hook pops, and the net change of the stack height *)
(* a pending visit makes once it is over: a pre-order visit of n leaves   *)
(* the DigitsOf(n) DDs of n, a post-order visit pops its operands and     *)
(* pushes its Width result DDs.                                           *)
ArgDigits(n) == IF Kind[n] = "op" THEN 2 * Width ELSE 2 * Width + 1
Effect(it) == IF it.kind = "pre" THEN DigitsOf(it.n)
              ELSE DigitsOf(it.n) - ArgDigits(it.n)

(* h[p] is the height of the add stack a when the p-th visit of the work *)
(* list w is reached; every post-order visit is of an operator or an ITE  *)
(* and finds its operands on the stack.                                    *)
LocalHeights(h, w) ==
    \A p \in 1 .. Len(w) :
        /\ h[p + 1] = h[p] + Effect(w[p])
        /\ w[p].kind = "post" =>
              /\ Kind[w[p].n] \in {"op", "ite"}
              /\ h[p] >= ArgDigits(w[p].n)
HeightsOf(h, w, a) ==
    /\ h \in [1 .. Len(w) + 1 -> Int]
    /\ h[1] = Len(a)
    /\ LocalHeights(h, w)
StackHeights == \E h \in [1 .. Len(work) + 1 -> Int] : HeightsOf(h, work, adds)

IInv == TypeOK /\ StackHeights /\ CacheClean /\ NoDanglingDDs

-----------------------------------------------------------------------------
(***************************************************************************)
(* Lemmas about the stack operators.                                       *)
(***************************************************************************)
LEMMA ConcatRange ==
    ASSUME NEW S, NEW s \in Seq(S), NEW t \in Seq(S)
    PROVE  /\ s \o t \in Seq(S)
           /\ Len(s \o t) = Len(s) + Len(t)
           /\ SeqRange(s \o t) = SeqRange(s) \cup SeqRange(t)
<1>1. SeqRange(s \o t) = Range(s \o t) /\ SeqRange(s) = Range(s)
      /\ SeqRange(t) = Range(t)
      BY DEF SeqRange, Range
<1>. QED
     BY <1>1, ConcatProperties, RangeConcatenation

LEMMA AppendRange ==
    ASSUME NEW S, NEW s \in Seq(S), NEW x \in S
    PROVE  /\ Append(s, x) \in Seq(S)
           /\ Len(Append(s, x)) = Len(s) + 1
           /\ SeqRange(Append(s, x)) = SeqRange(s) \cup {x}
<1>1. /\ Append(s, x) \in Seq(S)
      /\ Len(Append(s, x)) = Len(s) + 1
      /\ \A i \in 1 .. Len(s) : Append(s, x)[i] = s[i]
      /\ Append(s, x)[Len(s) + 1] = x
      BY AppendProperties
<1>. QED
     BY <1>1 DEF SeqRange

(* The top w entries of a stack of at least w entries, the stack without  *)
(* them, and a reversed vector.                                            *)
LEMMA TopRange ==
    ASSUME NEW S, NEW s \in Seq(S), NEW w \in 0 .. Len(s)
    PROVE  /\ Top(s, w) \in Seq(S)
           /\ Len(Top(s, w)) = w
           /\ SeqRange(Top(s, w)) \subseteq SeqRange(s)
BY DEF Top, SeqRange

LEMMA PopRange ==
    ASSUME NEW S, NEW s \in Seq(S), NEW w \in 0 .. Len(s)
    PROVE  /\ Pop(s, w) \in Seq(S)
           /\ Len(Pop(s, w)) = Len(s) - w
           /\ SeqRange(Pop(s, w)) \subseteq SeqRange(s)
<1>1. /\ Pop(s, w) \in Seq(S)
      /\ Len(Pop(s, w)) = Len(s) - w
      /\ \A i \in 1 .. Len(s) - w : Pop(s, w)[i] = s[i]
      BY SubSeqProperties DEF Pop
<1>. QED
     BY <1>1 DEF SeqRange

LEMMA ReversedRange ==
    ASSUME NEW S, NEW v \in Seq(S)
    PROVE  /\ Reversed(v) \in Seq(S)
           /\ Len(Reversed(v)) = Len(v)
           /\ SeqRange(Reversed(v)) = SeqRange(v)
<1>1. Reversed(v) \in Seq(S) /\ Len(Reversed(v)) = Len(v)
      BY DEF Reversed
<1>2. SeqRange(Reversed(v)) \subseteq SeqRange(v)
      BY DEF Reversed, SeqRange
<1>3. SeqRange(v) \subseteq SeqRange(Reversed(v))
  <2>. SUFFICES ASSUME NEW i \in 1 .. Len(v) PROVE v[i] \in SeqRange(Reversed(v))
       BY DEF SeqRange
  <2>1. Len(v) - i + 1 \in 1 .. Len(v) /\ Reversed(v)[Len(v) - i + 1] = v[i]
        BY DEF Reversed
  <2>. QED
       BY <2>1, <1>1 DEF SeqRange
<1>. QED
     BY <1>1, <1>2, <1>3

(***************************************************************************)
(* Lemmas about the side tables.                                           *)
(***************************************************************************)
LEMMA TablesAre ==
    /\ DefinedDDs = DefS(SeqRange(micros), MuxesOf(muxmap))
    /\ UsedDDs = UseS(SeqRange(adds), SeqRange(micros), MuxesOf(muxmap))
BY DEF DefinedDDs, UsedDDs, Muxes, MuxesOf, DefS, UseS

LEMMA DefUseUnion ==
    ASSUME NEW A1, NEW A2, NEW MI1, NEW MI2, NEW MX1, NEW MX2
    PROVE  /\ DefS(MI1 \cup MI2, MX1 \cup MX2) = DefS(MI1, MX1) \cup DefS(MI2, MX2)
           /\ UseS(A1 \cup A2, MI1 \cup MI2, MX1 \cup MX2)
                 = UseS(A1, MI1, MX1) \cup UseS(A2, MI2, MX2)
BY DEF DefS, UseS

LEMMA DefUseMono ==
    ASSUME NEW A1, NEW A2, NEW MI1, NEW MI2, NEW MX1, NEW MX2,
           A1 \subseteq A2, MI1 \subseteq MI2, MX1 \subseteq MX2
    PROVE  /\ DefS(MI1, MX1) \subseteq DefS(MI2, MX2)
           /\ UseS(A1, MI1, MX1) \subseteq UseS(A2, MI2, MX2)
BY DEF DefS, UseS

(* register_microdescriptor adds the uses and the results of one         *)
(* descriptor to the tables.                                               *)
LEMMA DefMicro ==
    ASSUME NEW MI, NEW MX, NEW m
    PROVE  DefS(MI \cup {m}, MX) = DefS(MI, MX) \cup SeqRange(m.z)
<1>1. UNION {SeqRange(k.z) : k \in MI \cup {m}}
         = (UNION {SeqRange(k.z) : k \in MI}) \cup SeqRange(m.z)
      OBVIOUS
<1>. QED
     BY <1>1 DEF DefS

LEMMA UseMicro ==
    ASSUME NEW A, NEW MI, NEW MX, NEW m
    PROVE  UseS(A, MI \cup {m}, MX)
              = UseS(A, MI, MX) \cup SeqRange(m.x) \cup SeqRange(m.y)
<1>1. UNION {SeqRange(k.x) \cup SeqRange(k.y) : k \in MI \cup {m}}
         = (UNION {SeqRange(k.x) \cup SeqRange(k.y) : k \in MI})
           \cup SeqRange(m.x) \cup SeqRange(m.y)
      OBVIOUS
<1>. QED
     BY <1>1 DEF UseS

(* register_muxdescriptor adds the uses and the results of the            *)
(* descriptors D to the tables.                                            *)
LEMMA DefMux ==
    ASSUME NEW MI, NEW MX, NEW D
    PROVE  DefS(MI, MX \cup D)
              = DefS(MI, MX) \cup (UNION {SeqRange(d.z) \cup {d.aux} : d \in D})
BY DEF DefS

LEMMA UseMux ==
    ASSUME NEW A, NEW MI, NEW MX, NEW D
    PROVE  UseS(A, MI, MX \cup D)
              = UseS(A, MI, MX)
                \cup (UNION {SeqRange(d.x) \cup SeqRange(d.y) \cup {d.cnd} : d \in D})
BY DEF UseS

(* Pushing the DDs B on the stack adds them to the uses.                   *)
LEMMA UsePush ==
    ASSUME NEW A, NEW B, NEW MI, NEW MX
    PROVE  UseS(A \cup B, MI, MX) = UseS(A, MI, MX) \cup B
BY DEF UseS

(* register_muxdescriptor adds exactly the descriptors ds.                *)
LEMMA RegisterMuxes ==
    ASSUME NEW m, IsMuxMap(m), NEW t \in Nodes, NEW ds \in Seq(MuxRec)
    PROVE  /\ IsMuxMap(RegisterMux(m, t, ds))
           /\ MuxesOf(RegisterMux(m, t, ds)) = MuxesOf(m) \cup SeqRange(ds)
<1> DEFINE R == RegisterMux(m, t, ds)
<1>0. m \in [DOMAIN m -> Seq(MuxRec)]
      BY DEF IsMuxMap
<1>1. /\ R = [u \in DOMAIN m \cup {t} |-> R[u]]
      /\ DOMAIN R = DOMAIN m \cup {t}
      /\ \A u \in DOMAIN m \ {t} : R[u] = m[u]
  <2>1. CASE t \in DOMAIN m
    <3>1. DOMAIN m \cup {t} = DOMAIN m
          BY <2>1
    <3>2. R = [m EXCEPT ![t] = m[t] \o ds]
          BY <2>1 DEF RegisterMux
    <3>. HIDE DEF R
    <3>. QED
         BY <1>0, <3>1, <3>2
  <2>2. CASE t \notin DOMAIN m
        BY <2>2 DEF RegisterMux
  <2>. QED
       BY <2>1, <2>2
<1>2. R[t] = IF t \in DOMAIN m THEN m[t] \o ds ELSE ds
      BY <1>0 DEF RegisterMux
<1> HIDE DEF R
<1>3. /\ R[t] \in Seq(MuxRec)
      /\ SeqRange(R[t]) = (IF t \in DOMAIN m THEN SeqRange(m[t]) ELSE {}) \cup SeqRange(ds)
  <2>1. CASE t \in DOMAIN m
    <3>1. m[t] \in Seq(MuxRec)
          BY <1>0, <2>1
    <3>2. /\ m[t] \o ds \in Seq(MuxRec)
          /\ SeqRange(m[t] \o ds) = SeqRange(m[t]) \cup SeqRange(ds)
          BY <3>1, ConcatRange
    <3>. QED
         BY <1>2, <2>1, <3>2
  <2>2. CASE t \notin DOMAIN m
        BY <1>2, <2>2
  <2>. QED
       BY <2>1, <2>2
<1>4. IsMuxMap(R)
      BY <1>0, <1>1, <1>3 DEF IsMuxMap
<1>5. ASSUME NEW u \in DOMAIN m \cup {t}
      PROVE  SeqRange(R[u]) \subseteq MuxesOf(m) \cup SeqRange(ds)
  <2>1. CASE u = t
        BY <1>3, <2>1 DEF MuxesOf
  <2>2. CASE u # t
        BY <1>1, <2>2 DEF MuxesOf
  <2>. QED
       BY <2>1, <2>2
<1>6. MuxesOf(R) \subseteq MuxesOf(m) \cup SeqRange(ds)
  <2>. SUFFICES ASSUME NEW d \in MuxesOf(R) PROVE d \in MuxesOf(m) \cup SeqRange(ds)
       OBVIOUS
  <2>1. PICK u \in DOMAIN R : d \in SeqRange(R[u])
        BY DEF MuxesOf
  <2>. QED
       BY <1>1, <1>5, <2>1
<1>7. MuxesOf(m) \cup SeqRange(ds) \subseteq MuxesOf(R)
  <2>1. SeqRange(ds) \subseteq MuxesOf(R)
        BY <1>1, <1>3 DEF MuxesOf
  <2>2. ASSUME NEW u \in DOMAIN m PROVE SeqRange(m[u]) \subseteq MuxesOf(R)
    <3>1. CASE u = t
          BY <1>1, <1>3, <3>1 DEF MuxesOf
    <3>2. CASE u # t
          BY <1>1, <3>2 DEF MuxesOf
    <3>. QED
         BY <3>1, <3>2
  <2>. QED
       BY <2>1, <2>2 DEF MuxesOf
<1>. QED
     BY <1>4, <1>6, <1>7 DEF R

(* The insert of cache_miss keeps every descriptor and adds only cached   *)
(* ones.                                                                   *)
LEMMA InsertMuxes ==
    ASSUME NEW m1, NEW m2, IsMuxMap(m1), IsMuxMap(m2)
    PROVE  /\ IsMuxMap(MapInsert(m1, m2))
           /\ MuxesOf(m1) \subseteq MuxesOf(MapInsert(m1, m2))
           /\ MuxesOf(MapInsert(m1, m2)) \subseteq MuxesOf(m1) \cup MuxesOf(m2)
BY DEF IsMuxMap, MuxesOf, MapInsert

(***************************************************************************)
(* Lemmas about the stack heights.                                         *)
(***************************************************************************)
LEMMA DigitsNat ==
    ASSUME NEW n \in Nodes
    PROVE  /\ DigitsOf(n) \in Nat \ {0}
           /\ Kind[n] # "bool" => DigitsOf(n) = Width
BY DEF DigitsOf

(* Replacing the next visit by the visits u, whose heights g start at    *)
(* the new stack height and end where the replaced visit ended, keeps the *)
(* heights consistent.  A visit that is over (u empty), and the expansion *)
(* of an operator into its operands and its post-order visit, are the two *)
(* uses.                                                                   *)
LEMMA SpliceHeights ==
    ASSUME NEW w \in Seq(Item), w # <<>>, NEW a, NEW h, HeightsOf(h, w, a),
           NEW u \in Seq(Item), NEW g \in [1 .. Len(u) + 1 -> Int], NEW a2,
           g[1] = Len(a2), g[Len(u) + 1] = h[2], LocalHeights(g, u)
    PROVE  \E h2 \in [1 .. Len(u \o Tail(w)) + 1 -> Int] :
              HeightsOf(h2, u \o Tail(w), a2)
<1>1. /\ Tail(w) \in Seq(Item)
      /\ Len(Tail(w)) = Len(w) - 1
      /\ \A i \in 1 .. Len(w) - 1 : Tail(w)[i] = w[i + 1]
      BY HeadTailProperties
<1> DEFINE v == u \o Tail(w)
<1>2. /\ v \in Seq(Item)
      /\ Len(v) = Len(u) + Len(w) - 1
      /\ \A p \in 1 .. Len(v) : v[p] = IF p <= Len(u) THEN u[p] ELSE w[p - Len(u) + 1]
      BY <1>1, ConcatProperties
<1> DEFINE h2 == [p \in 1 .. Len(v) + 1 |-> IF p <= Len(u) THEN g[p] ELSE h[p - Len(u) + 1]]
<1>3. /\ h2 \in [1 .. Len(v) + 1 -> Int]
      /\ \A p \in 1 .. Len(u) + 1 : h2[p] = g[p]
      /\ \A p \in Len(u) + 1 .. Len(v) + 1 : h2[p] = h[p - Len(u) + 1]
  <2>1. h \in [1 .. Len(w) + 1 -> Int] /\ Len(u) \in Nat /\ Len(w) \in Nat
        BY DEF HeightsOf
  <2>2. \A p \in 1 .. Len(v) + 1 : p > Len(u) => p - Len(u) + 1 \in 1 .. Len(w) + 1
        BY <1>2, <2>1
  <2>3. h2 \in [1 .. Len(v) + 1 -> Int]
        BY <2>1, <2>2
  <2>4. \A p \in 1 .. Len(u) + 1 : h2[p] = g[p]
        BY <1>2, <2>1
  <2>5. \A p \in Len(u) + 1 .. Len(v) + 1 : h2[p] = h[p - Len(u) + 1]
        BY <1>2, <2>1
  <2>. QED
       BY <2>3, <2>4, <2>5
<1> HIDE DEF v, h2
<1>4. ASSUME NEW p \in 1 .. Len(v)
      PROVE  /\ h2[p + 1] = h2[p] + Effect(v[p])
             /\ v[p].kind = "post" =>
                   /\ Kind[v[p].n] \in {"op", "ite"}
                   /\ h2[p] >= ArgDigits(v[p].n)
  <2>1. CASE p <= Len(u)
        BY <1>2, <1>3, <2>1 DEF LocalHeights
  <2>2. CASE p > Len(u)
    <3>1. p - Len(u) + 1 \in 1 .. Len(w) /\ v[p] = w[p - Len(u) + 1]
          BY <1>2, <2>2
    <3>0. Len(u) \in Nat /\ Len(v) \in Nat
          BY <1>2
    <3>2. p \in Len(u) + 1 .. Len(v) + 1 /\ p + 1 \in Len(u) + 1 .. Len(v) + 1
          BY <3>0, <2>2
    <3>3. h2[p] = h[p - Len(u) + 1] /\ h2[p + 1] = h[p - Len(u) + 1 + 1]
          BY <3>2, <1>3
    <3>. QED
         BY <3>1, <3>3 DEF HeightsOf, LocalHeights
  <2>. QED
       BY <2>1, <2>2
<1>5. HeightsOf(h2, v, a2)
      BY <1>3, <1>4 DEF HeightsOf, LocalHeights
<1>. QED
     BY <1>3, <1>5 DEF v

(* The pre-order visit of an operator or an ITE n is replaced by the      *)
(* visits of its operands and its post-order visit.                       *)
PreArgs(n) == [i \in 1 .. Len(Args[n]) |-> Pre(Args[n][i])]

LEMMA ExpandHeights ==
    ASSUME NEW w \in Seq(Item), w # <<>>, NEW a \in Seq(DD), NEW h,
           HeightsOf(h, w, a), Head(w).kind = "pre",
           NEW n \in Nodes, n = Head(w).n, Kind[n] \in {"op", "ite"}
    PROVE  /\ PreArgs(n) \o <<Post(n)>> \in Seq(Item)
           /\ \E h2 \in [1 .. Len(PreArgs(n) \o <<Post(n)>> \o Tail(w)) + 1 -> Int] :
                 HeightsOf(h2, PreArgs(n) \o <<Post(n)>> \o Tail(w), a)
<1>1. h[2] = h[1] + Width /\ h[1] = Len(a) /\ h[1] \in Nat
  <2>1. w[1] = Head(w) /\ 1 \in 1 .. Len(w)
        BY HeadTailProperties
  <2>2. h[2] = h[1] + Effect(w[1]) /\ h[1] = Len(a)
        BY <2>1 DEF HeightsOf, LocalHeights
  <2>3. Effect(w[1]) = Width
        BY <2>1, DigitsNat DEF Effect
  <2>. QED
       BY <2>2, <2>3
<1>2. CASE Kind[n] = "op"
  <2>1. PICK x, y \in Nodes : Args[n] = <<x, y>> /\ Kind[x] # "bool" /\ Kind[y] # "bool"
        BY <1>2, ArgsAssumption
  <2> DEFINE u == PreArgs(n) \o <<Post(n)>>
             g == <<h[1], h[1] + Width, h[1] + 2 * Width, h[1] + Width>>
  <2>2. /\ u \in Seq(Item) /\ Len(u) = 3
        /\ u[1] = Pre(x) /\ u[2] = Pre(y) /\ u[3] = Post(n)
    <3>1. PreArgs(n) = <<Pre(x), Pre(y)>>
          BY <2>1 DEF PreArgs
    <3>2. <<Pre(x), Pre(y)>> \in Seq(Item) /\ <<Post(n)>> \in Seq(Item)
          BY DEF Item, Pre, Post
    <3> DEFINE q == <<Pre(x), Pre(y)>> \o <<Post(n)>>
    <3>3. /\ q \in Seq(Item)
          /\ Len(q) = 2 + 1
          /\ \A i \in 1 .. 2 + 1 : q[i] =
                IF i <= 2 THEN <<Pre(x), Pre(y)>>[i] ELSE <<Post(n)>>[i - 2]
          BY <3>2, ConcatProperties DEF q
    <3>4. /\ <<Pre(x), Pre(y)>>[1] = Pre(x) /\ <<Pre(x), Pre(y)>>[2] = Pre(y)
          /\ <<Post(n)>>[1] = Post(n)
          OBVIOUS
    <3>5. PreArgs(n) \o <<Post(n)>> = q
          BY <3>1 DEF q
    <3> HIDE DEF q
    <3>6. q[1] = Pre(x) /\ q[2] = Pre(y) /\ q[3] = Post(n)
          BY <3>3, <3>4
    <3>7. u = q
          BY <3>5
    <3>8. u \in Seq(Item)
          BY <3>3, <3>7
    <3>10. Len(q) = 3
           BY <3>3
    <3>9. Len(u) = 3
          BY <3>7, <3>10
    <3>. QED
         BY <3>6, <3>7, <3>8, <3>9
  <2>3. g \in [1 .. Len(u) + 1 -> Int]
        BY <1>1, <2>2
  <2>4. /\ DigitsOf(x) = Width /\ DigitsOf(y) = Width /\ DigitsOf(n) = Width
        /\ ArgDigits(n) = 2 * Width
        BY <1>2, <2>1, DigitsNat DEF ArgDigits
  <2>6. /\ g[1] = h[1] /\ g[2] = h[1] + Width /\ g[3] = h[1] + 2 * Width
        /\ g[4] = h[1] + Width
        OBVIOUS
  <2>7. /\ u[1].kind = "pre" /\ u[2].kind = "pre" /\ u[3].kind = "post"
        /\ u[3].n = n
        /\ Effect(u[1]) = Width /\ Effect(u[2]) = Width
        /\ Effect(u[3]) = Width - 2 * Width
        BY <2>2, <2>4 DEF Effect, Pre, Post
  <2> HIDE DEF u, g
  <2>5. LocalHeights(g, u)
    <3>. SUFFICES ASSUME NEW p \in 1 .. 3
                  PROVE  /\ g[p + 1] = g[p] + Effect(u[p])
                         /\ u[p].kind = "post" =>
                               /\ Kind[u[p].n] \in {"op", "ite"}
                               /\ g[p] >= ArgDigits(u[p].n)
         BY <2>2 DEF LocalHeights
    <3>1. CASE p = 1
      <4>1. g[2] = g[1] + Effect(u[1]) /\ u[1].kind = "pre"
            BY <1>1, <2>6, <2>7
      <4>. QED
           BY <3>1, <4>1
    <3>2. CASE p = 2
      <4>1. g[3] = g[2] + Effect(u[2]) /\ u[2].kind = "pre"
            BY <1>1, <2>6, <2>7
      <4>. QED
           BY <3>2, <4>1
    <3>3. CASE p = 3
      <4>1. g[4] = g[3] + Effect(u[3])
            BY <1>1, <2>6, <2>7
      <4>2. u[3].kind = "post" /\ u[3].n = n /\ Kind[n] \in {"op", "ite"}
            BY <1>2, <2>7
      <4>3. g[3] >= ArgDigits(n)
            BY <1>1, <2>4, <2>6
      <4>. QED
           BY <3>3, <4>1, <4>2, <4>3
    <3>. QED
         BY <3>1, <3>2, <3>3
  <2>8. g[1] = Len(a) /\ g[Len(u) + 1] = h[2]
        BY <1>1, <2>2, <2>6
  <2>9. \E h2 \in [1 .. Len(u \o Tail(w)) + 1 -> Int] : HeightsOf(h2, u \o Tail(w), a)
        BY <2>2, <2>3, <2>5, <2>8, SpliceHeights
  <2>. QED
       BY <2>2, <2>9 DEF u
<1>3. CASE Kind[n] = "ite"
  <2>1. PICK c, x, y \in Nodes : /\ Args[n] = <<c, x, y>> /\ Kind[c] = "bool"
                                 /\ Kind[x] # "bool" /\ Kind[y] # "bool"
        BY <1>3, ArgsAssumption
  <2> DEFINE u == PreArgs(n) \o <<Post(n)>>
             g == <<h[1], h[1] + 1, h[1] + 1 + Width, h[1] + 1 + 2 * Width, h[1] + Width>>
  <2>2. /\ u \in Seq(Item) /\ Len(u) = 4
        /\ u[1] = Pre(c) /\ u[2] = Pre(x) /\ u[3] = Pre(y) /\ u[4] = Post(n)
    <3>1. PreArgs(n) = <<Pre(c), Pre(x), Pre(y)>>
          BY <2>1 DEF PreArgs
    <3>2. <<Pre(c), Pre(x), Pre(y)>> \in Seq(Item) /\ <<Post(n)>> \in Seq(Item)
          BY DEF Item, Pre, Post
    <3> DEFINE q == <<Pre(c), Pre(x), Pre(y)>> \o <<Post(n)>>
    <3>3. /\ q \in Seq(Item)
          /\ Len(q) = 3 + 1
          /\ \A i \in 1 .. 3 + 1 : q[i] =
                IF i <= 3 THEN <<Pre(c), Pre(x), Pre(y)>>[i] ELSE <<Post(n)>>[i - 3]
          BY <3>2, ConcatProperties DEF q
    <3>4. /\ <<Pre(c), Pre(x), Pre(y)>>[1] = Pre(c) /\ <<Pre(c), Pre(x), Pre(y)>>[2] = Pre(x)
          /\ <<Pre(c), Pre(x), Pre(y)>>[3] = Pre(y) /\ <<Post(n)>>[1] = Post(n)
          OBVIOUS
    <3>5. PreArgs(n) \o <<Post(n)>> = q
          BY <3>1 DEF q
    <3> HIDE DEF q
    <3>6. q[1] = Pre(c) /\ q[2] = Pre(x) /\ q[3] = Pre(y) /\ q[4] = Post(n)
          BY <3>3, <3>4
    <3>7. u = q
          BY <3>5
    <3>8. u \in Seq(Item)
          BY <3>3, <3>7
    <3>10. Len(q) = 4
           BY <3>3
    <3>9. Len(u) = 4
          BY <3>7, <3>10
    <3>. QED
         BY <3>6, <3>7, <3>8, <3>9, Zenon
  <2>3. g \in [1 .. Len(u) + 1 -> Int]
        BY <1>1, <2>2
  <2>4. /\ DigitsOf(c) = 1 /\ DigitsOf(x) = Width /\ DigitsOf(y) = Width
        /\ DigitsOf(n) = Width /\ ArgDigits(n) = 2 * Width + 1
        BY <1>3, <2>1, DigitsNat DEF ArgDigits, DigitsOf
  <2>6. /\ g[1] = h[1] /\ g[2] = h[1] + 1 /\ g[3] = h[1] + 1 + Width
        /\ g[4] = h[1] + 1 + 2 * Width /\ g[5] = h[1] + Width
        OBVIOUS
  <2>7. /\ u[1].kind = "pre" /\ u[2].kind = "pre" /\ u[3].kind = "pre"
        /\ u[4].kind = "post" /\ u[4].n = n
        /\ Effect(u[1]) = 1 /\ Effect(u[2]) = Width /\ Effect(u[3]) = Width
        /\ Effect(u[4]) = Width - (2 * Width + 1)
        BY <2>2, <2>4 DEF Effect, Pre, Post
  <2> HIDE DEF u, g
  <2>5. LocalHeights(g, u)
    <3>. SUFFICES ASSUME NEW p \in 1 .. 4
                  PROVE  /\ g[p + 1] = g[p] + Effect(u[p])
                         /\ u[p].kind = "post" =>
                               /\ Kind[u[p].n] \in {"op", "ite"}
                               /\ g[p] >= ArgDigits(u[p].n)
         BY <2>2 DEF LocalHeights
    <3>1. CASE p = 1
      <4>1. g[2] = g[1] + Effect(u[1]) /\ u[1].kind = "pre"
            BY <1>1, <2>6, <2>7
      <4>. QED
           BY <3>1, <4>1
    <3>2. CASE p = 2
      <4>1. g[3] = g[2] + Effect(u[2]) /\ u[2].kind = "pre"
            BY <1>1, <2>6, <2>7
      <4>. QED
           BY <3>2, <4>1
    <3>3. CASE p = 3
      <4>1. g[4] = g[3] + Effect(u[3]) /\ u[3].kind = "pre"
            BY <1>1, <2>6, <2>7
      <4>. QED
           BY <3>3, <4>1
    <3>4. CASE p = 4
      <4>1. g[5] = g[4] + Effect(u[4])
            BY <1>1, <2>6, <2>7
      <4>2. u[4].kind = "post" /\ u[4].n = n /\ Kind[n] \in {"op", "ite"}
            BY <1>3, <2>7
      <4>3. g[4] >= ArgDigits(n)
            BY <1>1, <2>4, <2>6
      <4>. QED
           BY <3>4, <4>1, <4>2, <4>3
    <3>. QED
         BY <3>1, <3>2, <3>3, <3>4
  <2>8. g[1] = Len(a) /\ g[Len(u) + 1] = h[2]
        BY <1>1, <2>2, <2>6
  <2>9. \E h2 \in [1 .. Len(u \o Tail(w)) + 1 -> Int] : HeightsOf(h2, u \o Tail(w), a)
        BY <2>2, <2>3, <2>5, <2>8, SpliceHeights
  <2>. QED
       BY <2>2, <2>9 DEF u
<1>. QED
     BY <1>2, <1>3
(* A visit that is over: the heights of the rest of the work list are     *)
(* the old ones shifted, once the stack has the height the visit left.    *)
LEMMA PopHeights ==
    ASSUME NEW w \in Seq(Item), w # <<>>, NEW a, NEW h, HeightsOf(h, w, a),
           NEW a2, Len(a2) = h[2]
    PROVE  \E h2 \in [1 .. Len(Tail(w)) + 1 -> Int] : HeightsOf(h2, Tail(w), a2)
<1>1. /\ Tail(w) \in Seq(Item)
      /\ Len(Tail(w)) = Len(w) - 1
      /\ \A i \in 1 .. Len(w) - 1 : Tail(w)[i] = w[i + 1]
      BY HeadTailProperties
<1> DEFINE h2 == [p \in 1 .. Len(w) |-> h[p + 1]]
<1>2. h2 \in [1 .. Len(Tail(w)) + 1 -> Int]
      BY <1>1 DEF HeightsOf
<1>3. LocalHeights(h2, Tail(w))
      BY <1>1 DEF HeightsOf, LocalHeights
<1>4. h2[1] = Len(a2)
      BY <1>1
<1> HIDE DEF h2
<1>. QED
     BY <1>2, <1>3, <1>4 DEF HeightsOf

(***************************************************************************)
(* Lemmas about the cache.                                                 *)
(***************************************************************************)
(* A clean entry stays clean when the tables grow.                         *)
LEMMA CleanMono ==
    ASSUME NEW u, NEW D, NEW D2, D \subseteq D2, CleanEntry(u, D)
    PROVE  CleanEntry(u, D2)
BY DEF CleanEntry

(* The entry post_node_hook memoizes is clean when the tables it copies   *)
(* and the stack it takes the top of are.                                  *)
LEMMA HookClean ==
    ASSUME NEW a \in Seq(DD), NEW k \in 0 .. Len(a), NEW mi, NEW mx, NEW D,
           Autos(UseS(SeqRange(a), SeqRange(mi), MuxesOf(mx))) \subseteq D,
           DefS(SeqRange(mi), MuxesOf(mx)) \subseteq D
    PROVE  CleanEntry([dds |-> Top(a, k), micros |-> mi, muxmap |-> mx], D)
<1>1. SeqRange(Top(a, k)) \subseteq SeqRange(a)
      BY TopRange
<1>2. UseS(SeqRange(Top(a, k)), SeqRange(mi), MuxesOf(mx))
         \subseteq UseS(SeqRange(a), SeqRange(mi), MuxesOf(mx))
      BY <1>1, DefUseMono
<1>. QED
     BY <1>2 DEF CleanEntry, Autos

(* Entry k of cache c is well typed, holds the DDs of k, and is clean.     *)
GoodEntry(c, k, D) ==
    CacheRec(c[k]) /\ Len(c[k].dds) = DigitsOf(k) /\ CleanEntry(c[k], D)

(* The cache c with entry e for node n, as post_node_hook writes it.       *)
CacheAdd(c, n, e) == [k \in DOMAIN c \cup {n} |-> IF k = n THEN e ELSE c[k]]

(* post_node_hook adds one well-typed, clean entry to a cache whose        *)
(* entries are.                                                            *)
LEMMA HookCache ==
    ASSUME NEW c, NEW n \in Nodes, NEW e, NEW D, NEW D2, D \subseteq D2,
           DOMAIN c \subseteq Nodes,
           \A k \in DOMAIN c : GoodEntry(c, k, D),
           CacheRec(e), Len(e.dds) = DigitsOf(n), CleanEntry(e, D2)
    PROVE  /\ DOMAIN CacheAdd(c, n, e) \subseteq Nodes
           /\ \A k \in DOMAIN CacheAdd(c, n, e) : GoodEntry(CacheAdd(c, n, e), k, D2)
<1>1. \A k \in DOMAIN c : CleanEntry(c[k], D2)
      BY CleanMono DEF GoodEntry
<1>. QED
     BY <1>1 DEF GoodEntry, CacheAdd
(***************************************************************************)
(* The invariant is preserved by each step of the walker.                  *)
(***************************************************************************)
(* The next visit is of a node, and a post-order visit is of an operator  *)
(* or an ITE whose operands are on the stack.                              *)
LEMMA HeadHeights ==
    ASSUME TypeOK, NEW h, HeightsOf(h, work, adds), work # <<>>
    PROVE  /\ Head(work) \in Item
           /\ h[1] = Len(adds) /\ h[2] = h[1] + Effect(Head(work))
           /\ Head(work).kind = "post" =>
                 /\ Kind[Head(work).n] \in {"op", "ite"}
                 /\ h[1] >= ArgDigits(Head(work).n)
<1>1. work[1] = Head(work) /\ 1 \in 1 .. Len(work)
      BY HeadTailProperties DEF TypeOK
<1>. QED
     BY <1>1 DEF TypeOK, HeightsOf, LocalHeights
(* An algebraic binary operator pops its operands and pushes fresh result *)
(* DDs that the MicroDescriptor it registers defines.                      *)
LEMMA OperatorStep ==
    ASSUME IInv, Operator
    PROVE  IInv' /\ DefinedDDs \subseteq DefinedDDs'
<1>0. TypeOK /\ CacheClean /\ NoDanglingDDs
      BY DEF IInv
<1>1. PICK h \in [1 .. Len(work) + 1 -> Int] : HeightsOf(h, work, adds)
      BY DEF IInv, StackHeights
<1> DEFINE n == Head(work).n
           y == Top(adds, Width)
           x == Top(Pop(adds, Width), Width)
           z == AutoVect(auto, Width)
           r == Pop(adds, 2 * Width)
           a == r \o Reversed(z)
           rec == [z |-> z, x |-> x, y |-> y]
           mi == Append(micros, rec)
           e == [dds |-> Top(a, DigitsOf(n)), micros |-> mi, muxmap |-> muxmap]
<1>2. /\ work # <<>> /\ Head(work).kind = "post" /\ Kind[n] = "op"
      /\ adds' = a /\ micros' = mi /\ auto' = auto + Width
      /\ cache' = [k \in DOMAIN cache \cup {n} |-> IF k = n THEN e ELSE cache[k]]
      /\ work' = Tail(work)
      /\ UNCHANGED <<body, muxmap, acts, pc>>
      BY DEF Operator, PostNodeHook
<1>3. /\ n \in Nodes /\ DigitsOf(n) = Width
      /\ Len(adds) \in Nat /\ Len(adds) >= 2 * Width
      /\ h[2] = Len(adds) - Width
  <2>1. /\ Head(work) \in Item
        /\ h[1] = Len(adds) /\ h[2] = h[1] + Effect(Head(work))
        /\ h[1] >= ArgDigits(n)
        BY <1>0, <1>1, <1>2, HeadHeights
  <2>2. n \in Nodes /\ DigitsOf(n) = Width /\ ArgDigits(n) = 2 * Width
        BY <1>2, <2>1, DigitsNat DEF Item, ArgDigits
  <2>3. Effect(Head(work)) = Width - 2 * Width
        BY <1>2, <2>2 DEF Effect
  <2>. QED
       BY <2>1, <2>2, <2>3, <1>0 DEF TypeOK
<1>4. /\ y \in Seq(DD) /\ SeqRange(y) \subseteq SeqRange(adds)
      /\ x \in Seq(DD) /\ SeqRange(x) \subseteq SeqRange(adds)
      /\ r \in Seq(DD) /\ Len(r) = Len(adds) - 2 * Width
      /\ SeqRange(r) \subseteq SeqRange(adds)
  <2>1. adds \in Seq(DD)
        BY <1>0 DEF TypeOK
  <2>2. /\ Pop(adds, Width) \in Seq(DD) /\ Len(Pop(adds, Width)) = Len(adds) - Width
        /\ SeqRange(Pop(adds, Width)) \subseteq SeqRange(adds)
        BY <1>3, <2>1, PopRange
  <2>3. SeqRange(x) \subseteq SeqRange(Pop(adds, Width)) /\ x \in Seq(DD)
        BY <1>3, <2>2, TopRange
  <2>4. y \in Seq(DD) /\ SeqRange(y) \subseteq SeqRange(adds)
        BY <1>3, <2>1, TopRange
  <2>5. r \in Seq(DD) /\ Len(r) = Len(adds) - 2 * Width
        /\ SeqRange(r) \subseteq SeqRange(adds)
        BY <1>3, <2>1, PopRange
  <2>. QED
       BY <2>2, <2>3, <2>4, <2>5
<1>5. /\ z \in Seq(DD) /\ Len(z) = Width
      /\ a \in Seq(DD) /\ Len(a) = Len(adds) - Width
      /\ SeqRange(a) = SeqRange(r) \cup SeqRange(z)
  <2>1. z \in Seq(DD) /\ Len(z) = Width
        BY <1>0 DEF AutoVect, DD, TypeOK
  <2>2. Reversed(z) \in Seq(DD) /\ Len(Reversed(z)) = Width
        /\ SeqRange(Reversed(z)) = SeqRange(z)
        BY <2>1, ReversedRange
  <2> HIDE DEF z, r
  <2>3. a \in Seq(DD) /\ Len(a) = Len(r) + Width
        /\ SeqRange(a) = SeqRange(r) \cup SeqRange(z)
    <3>1. /\ r \o Reversed(z) \in Seq(DD)
          /\ Len(r \o Reversed(z)) = Len(r) + Len(Reversed(z))
          /\ SeqRange(r \o Reversed(z)) = SeqRange(r) \cup SeqRange(Reversed(z))
      <4>1. r \in Seq(DD)
            BY <1>4
      <4>2. Reversed(z) \in Seq(DD)
            BY <2>2
      <4>. QED
           BY <4>1, <4>2, ConcatRange
    <3>. QED
         BY <3>1, <2>2
  <2>. QED
       BY <1>3, <1>4, <2>1, <2>3
<1>6. /\ rec \in MicroRec
      /\ mi \in Seq(MicroRec) /\ SeqRange(mi) = SeqRange(micros) \cup {rec}
  <2>1. rec \in MicroRec
        BY <1>4, <1>5 DEF MicroRec
  <2>. QED
       BY <1>0, <2>1, AppendRange DEF TypeOK
<1> HIDE DEF y, x, z, r, a, rec, mi
<1>20. /\ DefinedDDs' = DefS(SeqRange(mi), MuxesOf(muxmap))
       /\ UsedDDs' = UseS(SeqRange(a), SeqRange(mi), MuxesOf(muxmap))
       BY <1>2 DEF DefinedDDs, UsedDDs, Muxes, MuxesOf, DefS, UseS
<1>7. /\ DefinedDDs' = DefinedDDs \cup SeqRange(z)
      /\ UsedDDs' \subseteq UsedDDs \cup SeqRange(z)
  <2>1. /\ DefinedDDs' = DefS(SeqRange(mi), MuxesOf(muxmap))
        /\ UsedDDs' = UseS(SeqRange(a), SeqRange(mi), MuxesOf(muxmap))
        BY <1>20
  <2>2. /\ DefS(SeqRange(mi), MuxesOf(muxmap))
              = DefS(SeqRange(micros), MuxesOf(muxmap)) \cup SeqRange(z)
        /\ UseS(SeqRange(a), SeqRange(mi), MuxesOf(muxmap))
              = UseS(SeqRange(r), SeqRange(micros), MuxesOf(muxmap))
                \cup SeqRange(z) \cup SeqRange(x) \cup SeqRange(y)
    <3>1. rec.z = z /\ rec.x = x /\ rec.y = y
          BY DEF rec
    <3>2. DefS(SeqRange(micros) \cup {rec}, MuxesOf(muxmap))
                = DefS(SeqRange(micros), MuxesOf(muxmap)) \cup SeqRange(rec.z)
          BY DefMicro
    <3>5. UseS(SeqRange(a), SeqRange(micros) \cup {rec}, MuxesOf(muxmap))
                = UseS(SeqRange(a), SeqRange(micros), MuxesOf(muxmap))
                  \cup SeqRange(rec.x) \cup SeqRange(rec.y)
          BY UseMicro
    <3>6. UseS(SeqRange(r) \cup SeqRange(z), SeqRange(micros), MuxesOf(muxmap))
                = UseS(SeqRange(r), SeqRange(micros), MuxesOf(muxmap)) \cup SeqRange(z)
          BY UsePush
    <3>3. SeqRange(a) = SeqRange(r) \cup SeqRange(z)
          BY <1>5
    <3>4. SeqRange(mi) = SeqRange(micros) \cup {rec}
          BY <1>6
    <3>. QED
         BY <3>1, <3>2, <3>3, <3>4, <3>5, <3>6
  <2>4. UseS(SeqRange(r), SeqRange(micros), MuxesOf(muxmap)) \subseteq UsedDDs
        BY <1>4, DefUseMono, TablesAre
  <2>5. SeqRange(x) \cup SeqRange(y) \subseteq UsedDDs
        BY <1>4, TablesAre DEF UseS
  <2>. QED
       BY <2>1, <2>2, <2>4, <2>5, TablesAre
<1>8. NoDanglingDDs'
  <2>1. \A dd \in SeqRange(z) : dd \in DefinedDDs'
        BY <1>7
  <2>. QED
       BY <1>0, <1>7, <2>1 DEF NoDanglingDDs
<1>9. StackHeights'
  <2>1. \E h2 \in [1 .. Len(Tail(work)) + 1 -> Int] : HeightsOf(h2, Tail(work), a)
        BY <1>0, <1>1, <1>2, <1>3, <1>5, PopHeights DEF TypeOK
  <2>. QED
       BY <1>2, <2>1 DEF StackHeights
<1>10. /\ CacheRec(e) /\ Len(e.dds) = DigitsOf(n)
       /\ CleanEntry(e, DefinedDDs')
  <2>1. Width \in 0 .. Len(a)
        BY <1>3, <1>5
  <2>2. Top(a, Width) \in Seq(DD) /\ Len(Top(a, Width)) = Width
        BY <1>5, <2>1, TopRange
  <2>3. CacheRec(e) /\ Len(e.dds) = DigitsOf(n)
        BY <1>0, <1>3, <1>6, <2>2 DEF CacheRec, TypeOK
  <2>4. Autos(UseS(SeqRange(a), SeqRange(mi), MuxesOf(muxmap))) \subseteq DefinedDDs'
        BY <1>8, <1>20 DEF NoDanglingDDs, Autos
  <2>5. DefS(SeqRange(mi), MuxesOf(muxmap)) \subseteq DefinedDDs'
        BY <1>20
  <2>6. CleanEntry([dds |-> Top(a, Width), micros |-> mi, muxmap |-> muxmap],
                   DefinedDDs')
        BY <1>5, <2>1, <2>4, <2>5, HookClean
  <2>. QED
       BY <1>3, <2>3, <2>6
<1>11. /\ DOMAIN cache' \subseteq Nodes
       /\ \A k \in DOMAIN cache' : GoodEntry(cache', k, DefinedDDs')
  <2>1. \A k \in DOMAIN cache : GoodEntry(cache, k, DefinedDDs)
        BY <1>0 DEF TypeOK, CacheClean, GoodEntry
  <2>2. DOMAIN cache \subseteq Nodes /\ DefinedDDs \subseteq DefinedDDs'
        BY <1>0, <1>7 DEF TypeOK
  <2>4. cache' = CacheAdd(cache, n, e)
        BY <1>2 DEF CacheAdd
  <2> HIDE DEF e, n
  <2>3. /\ DOMAIN CacheAdd(cache, n, e) \subseteq Nodes
        /\ \A k \in DOMAIN CacheAdd(cache, n, e) :
              GoodEntry(CacheAdd(cache, n, e), k, DefinedDDs')
        BY <1>3, <1>10, <2>1, <2>2, HookCache
  <2>. QED
       BY <2>3, <2>4
<1>12. TypeOK'
  <2>1. Tail(work) \in Seq(Item)
        BY <1>0, <1>2 DEF TypeOK
  <2>2. /\ body' \in Nodes /\ IsMuxMap(muxmap') /\ pc' \in {"walk", "done"}
        /\ auto' \in Nat
        BY <1>0, <1>2 DEF TypeOK
  <2>3. work' \in Seq(Item) /\ adds' \in Seq(DD) /\ micros' \in Seq(MicroRec)
        BY <1>2, <1>5, <1>6, <2>1
  <2>. QED
       BY <1>11, <2>2, <2>3 DEF TypeOK, GoodEntry
<1>. QED
     BY <1>7, <1>8, <1>9, <1>11, <1>12 DEF IInv, CacheClean, GoodEntry
(* An algebraic ITE pops its operands and its condition and pushes fresh  *)
(* result DDs that the MuxDescriptors it registers define.                 *)
LEMMA IteStep ==
    ASSUME IInv, Ite
    PROVE  IInv' /\ DefinedDDs \subseteq DefinedDDs'
<1>0. TypeOK /\ CacheClean /\ NoDanglingDDs
      BY DEF IInv
<1>1. PICK h \in [1 .. Len(work) + 1 -> Int] : HeightsOf(h, work, adds)
      BY DEF IInv, StackHeights
<1> DEFINE n == Head(work).n
           y == Top(adds, Width)
           x == Top(Pop(adds, Width), Width)
           c == adds[Len(adds) - 2 * Width]
           z == AutoVect(auto, Width)
           ds == [i \in 1 .. Width |->
                    [z |-> z, cnd |-> c, aux |-> <<"auto", auto + Width + i>>,
                     x |-> x, y |-> y]]
           r == Pop(adds, 2 * Width + 1)
           a == r \o Reversed(z)
           mx == RegisterMux(muxmap, body, ds)
           e == [dds |-> Top(a, DigitsOf(n)), micros |-> micros, muxmap |-> mx]
<1>2. /\ work # <<>> /\ Head(work).kind = "post" /\ Kind[n] = "ite"
      /\ adds' = a /\ muxmap' = mx /\ auto' = auto + 2 * Width
      /\ cache' = CacheAdd(cache, n, e)
      /\ work' = Tail(work)
      /\ UNCHANGED <<body, micros, acts, pc>>
      BY DEF Ite, PostNodeHook, CacheAdd
<1>3. /\ n \in Nodes /\ DigitsOf(n) = Width
      /\ Len(adds) \in Nat /\ Len(adds) >= 2 * Width + 1
      /\ h[2] = Len(adds) - Width - 1
  <2>1. /\ Head(work) \in Item
        /\ h[1] = Len(adds) /\ h[2] = h[1] + Effect(Head(work))
        /\ h[1] >= ArgDigits(n)
        BY <1>0, <1>1, <1>2, HeadHeights
  <2>2. n \in Nodes /\ DigitsOf(n) = Width /\ ArgDigits(n) = 2 * Width + 1
        BY <1>2, <2>1, DigitsNat DEF Item, ArgDigits
  <2>3. Effect(Head(work)) = Width - (2 * Width + 1)
        BY <1>2, <2>2 DEF Effect
  <2>. QED
       BY <2>1, <2>2, <2>3, <1>0 DEF TypeOK
<1>4. /\ y \in Seq(DD) /\ SeqRange(y) \subseteq SeqRange(adds)
      /\ x \in Seq(DD) /\ SeqRange(x) \subseteq SeqRange(adds)
      /\ c \in DD /\ c \in SeqRange(adds)
      /\ r \in Seq(DD) /\ Len(r) = Len(adds) - (2 * Width + 1)
      /\ SeqRange(r) \subseteq SeqRange(adds)
  <2>1. adds \in Seq(DD)
        BY <1>0 DEF TypeOK
  <2>2. /\ Pop(adds, Width) \in Seq(DD) /\ Len(Pop(adds, Width)) = Len(adds) - Width
        /\ SeqRange(Pop(adds, Width)) \subseteq SeqRange(adds)
        BY <1>3, <2>1, PopRange
  <2>3. SeqRange(x) \subseteq SeqRange(Pop(adds, Width)) /\ x \in Seq(DD)
        BY <1>3, <2>2, TopRange
  <2>4. y \in Seq(DD) /\ SeqRange(y) \subseteq SeqRange(adds)
        BY <1>3, <2>1, TopRange
  <2>5. r \in Seq(DD) /\ Len(r) = Len(adds) - (2 * Width + 1)
        /\ SeqRange(r) \subseteq SeqRange(adds)
        BY <1>3, <2>1, PopRange
  <2>6. Len(adds) - 2 * Width \in 1 .. Len(adds)
        BY <1>3
  <2>7. c \in DD /\ c \in SeqRange(adds)
        BY <2>1, <2>6 DEF SeqRange
  <2>. QED
       BY <2>2, <2>3, <2>4, <2>5, <2>7
<1>5. /\ z \in Seq(DD) /\ Len(z) = Width
      /\ a \in Seq(DD) /\ Len(a) = Len(adds) - Width - 1
      /\ SeqRange(a) = SeqRange(r) \cup SeqRange(z)
  <2>1. z \in Seq(DD) /\ Len(z) = Width
        BY <1>0 DEF AutoVect, DD, TypeOK
  <2>2. Reversed(z) \in Seq(DD) /\ Len(Reversed(z)) = Width
        /\ SeqRange(Reversed(z)) = SeqRange(z)
        BY <2>1, ReversedRange
  <2> HIDE DEF z, r
  <2>3. a \in Seq(DD) /\ Len(a) = Len(r) + Width
        /\ SeqRange(a) = SeqRange(r) \cup SeqRange(z)
    <3>1. /\ r \o Reversed(z) \in Seq(DD)
          /\ Len(r \o Reversed(z)) = Len(r) + Len(Reversed(z))
          /\ SeqRange(r \o Reversed(z)) = SeqRange(r) \cup SeqRange(Reversed(z))
      <4>1. r \in Seq(DD)
            BY <1>4
      <4>2. Reversed(z) \in Seq(DD)
            BY <2>2
      <4>. QED
           BY <4>1, <4>2, ConcatRange
    <3>. QED
         BY <3>1, <2>2
  <2>. QED
       BY <1>3, <1>4, <2>1, <2>3
<1>6. /\ ds \in Seq(MuxRec)
      /\ \A d \in SeqRange(ds) : d.z = z /\ d.x = x /\ d.y = y /\ d.cnd = c
      /\ ds[1] \in SeqRange(ds) /\ ds[1].z = z
  <2>1. \A i \in 1 .. Width : <<"auto", auto + Width + i>> \in DD
        BY <1>0 DEF DD, TypeOK
  <2>2. ds \in Seq(MuxRec)
    <3>1. \A i \in 1 .. Width : ds[i] \in MuxRec
          BY <1>4, <1>5, <2>1 DEF MuxRec
    <3>2. ds \in [1 .. Width -> MuxRec]
          BY <3>1
    <3>. QED
         BY <3>2, WidthAssumption
  <2> HIDE DEF z, x, y, c
  <2>3. \A i \in 1 .. Width : ds[i].z = z /\ ds[i].x = x /\ ds[i].y = y /\ ds[i].cnd = c
        OBVIOUS
  <2>4. DOMAIN ds = 1 .. Width /\ 1 \in 1 .. Width
        OBVIOUS
  <2> HIDE DEF ds
  <2>. QED
       BY <2>2, <2>3, <2>4 DEF SeqRange
<1>7. IsMuxMap(mx) /\ MuxesOf(mx) = MuxesOf(muxmap) \cup SeqRange(ds)
      BY <1>0, <1>6, RegisterMuxes DEF TypeOK
<1> HIDE DEF y, x, c, z, ds, r, a, mx
<1>20. /\ DefinedDDs' = DefS(SeqRange(micros), MuxesOf(mx))
       /\ UsedDDs' = UseS(SeqRange(a), SeqRange(micros), MuxesOf(mx))
       BY <1>2 DEF DefinedDDs, UsedDDs, Muxes, MuxesOf, DefS, UseS
<1>21. /\ DefinedDDs \subseteq DefinedDDs'
       /\ SeqRange(z) \subseteq DefinedDDs'
       /\ UsedDDs' \subseteq UsedDDs \cup SeqRange(z)
  <2>1. DefS(SeqRange(micros), MuxesOf(mx))
           = DefS(SeqRange(micros), MuxesOf(muxmap))
             \cup (UNION {SeqRange(d.z) \cup {d.aux} : d \in SeqRange(ds)})
        BY <1>7, DefMux
  <2>2. UseS(SeqRange(a), SeqRange(micros), MuxesOf(mx))
           = UseS(SeqRange(a), SeqRange(micros), MuxesOf(muxmap))
             \cup (UNION {SeqRange(d.x) \cup SeqRange(d.y) \cup {d.cnd} : d \in SeqRange(ds)})
        BY <1>7, UseMux
  <2>3. UseS(SeqRange(r) \cup SeqRange(z), SeqRange(micros), MuxesOf(muxmap))
           = UseS(SeqRange(r), SeqRange(micros), MuxesOf(muxmap)) \cup SeqRange(z)
        BY UsePush
  <2>4. UseS(SeqRange(r), SeqRange(micros), MuxesOf(muxmap)) \subseteq UsedDDs
        BY <1>4, DefUseMono, TablesAre
  <2>5. UNION {SeqRange(d.x) \cup SeqRange(d.y) \cup {d.cnd} : d \in SeqRange(ds)}
           \subseteq SeqRange(adds)
        BY <1>4, <1>6
  <2>6. SeqRange(adds) \subseteq UsedDDs
        BY TablesAre DEF UseS
  <2>7. SeqRange(z) \subseteq UNION {SeqRange(d.z) \cup {d.aux} : d \in SeqRange(ds)}
        BY <1>6
  <2>. QED
       BY <1>5, <1>20, <2>1, <2>2, <2>3, <2>4, <2>5, <2>6, <2>7, TablesAre
<1>8. NoDanglingDDs'
      BY <1>0, <1>21 DEF NoDanglingDDs
<1>9. StackHeights'
  <2>1. \E h2 \in [1 .. Len(Tail(work)) + 1 -> Int] : HeightsOf(h2, Tail(work), a)
        BY <1>0, <1>1, <1>2, <1>3, <1>5, PopHeights DEF TypeOK
  <2>. QED
       BY <1>2, <2>1 DEF StackHeights
<1>10. /\ CacheRec(e) /\ Len(e.dds) = DigitsOf(n)
       /\ CleanEntry(e, DefinedDDs')
  <2>1. Width \in 0 .. Len(a)
        BY <1>3, <1>5
  <2>2. Top(a, Width) \in Seq(DD) /\ Len(Top(a, Width)) = Width
        BY <1>5, <2>1, TopRange
  <2>3. CacheRec(e) /\ Len(e.dds) = DigitsOf(n)
        BY <1>0, <1>3, <1>7, <2>2 DEF CacheRec, TypeOK
  <2>4. Autos(UseS(SeqRange(a), SeqRange(micros), MuxesOf(mx))) \subseteq DefinedDDs'
        BY <1>8, <1>20 DEF NoDanglingDDs, Autos
  <2>5. DefS(SeqRange(micros), MuxesOf(mx)) \subseteq DefinedDDs'
        BY <1>20
  <2>6. CleanEntry([dds |-> Top(a, Width), micros |-> micros, muxmap |-> mx],
                   DefinedDDs')
        BY <1>5, <2>1, <2>4, <2>5, HookClean
  <2>. QED
       BY <1>3, <2>3, <2>6
<1>11. /\ DOMAIN cache' \subseteq Nodes
       /\ \A k \in DOMAIN cache' : GoodEntry(cache', k, DefinedDDs')
  <2>1. \A k \in DOMAIN cache : GoodEntry(cache, k, DefinedDDs)
        BY <1>0 DEF TypeOK, CacheClean, GoodEntry
  <2>2. DOMAIN cache \subseteq Nodes /\ DefinedDDs \subseteq DefinedDDs'
        BY <1>0, <1>21 DEF TypeOK
  <2> HIDE DEF e, n
  <2>3. /\ DOMAIN CacheAdd(cache, n, e) \subseteq Nodes
        /\ \A k \in DOMAIN CacheAdd(cache, n, e) :
              GoodEntry(CacheAdd(cache, n, e), k, DefinedDDs')
        BY <1>3, <1>10, <2>1, <2>2, HookCache
  <2>. QED
       BY <1>2, <2>3
<1>12. TypeOK'
  <2>1. Tail(work) \in Seq(Item)
        BY <1>0, <1>2 DEF TypeOK
  <2>2. /\ body' \in Nodes /\ micros' \in Seq(MicroRec) /\ pc' \in {"walk", "done"}
        /\ auto' \in Nat
        BY <1>0, <1>2 DEF TypeOK
  <2>3. work' \in Seq(Item) /\ adds' \in Seq(DD) /\ IsMuxMap(muxmap')
        BY <1>2, <1>5, <1>7, <2>1
  <2>. QED
       BY <1>11, <2>2, <2>3 DEF TypeOK, GoodEntry
<1>. QED
     BY <1>8, <1>9, <1>11, <1>12, <1>21 DEF IInv, CacheClean, GoodEntry

(* A cache hit pushes the cached DDs reversed, appends the cached         *)
(* microcode and inserts the cached MUX entries: all of it is clean.       *)
LEMMA HitStep ==
    ASSUME IInv, Hit
    PROVE  IInv' /\ DefinedDDs \subseteq DefinedDDs'
<1>0. TypeOK /\ CacheClean /\ NoDanglingDDs
      BY DEF IInv
<1>1. PICK h \in [1 .. Len(work) + 1 -> Int] : HeightsOf(h, work, adds)
      BY DEF IInv, StackHeights
<1> DEFINE n == Head(work).n
           u == cache[n]
           MI == SeqRange(u.micros)
           MX == MuxesOf(u.muxmap)
<1>2. /\ work # <<>> /\ Head(work).kind = "pre" /\ n \in DOMAIN cache
      /\ adds' = adds \o Reversed(u.dds) /\ micros' = micros \o u.micros
      /\ muxmap' = MapInsert(muxmap, u.muxmap)
      /\ work' = Tail(work)
      /\ UNCHANGED <<body, cache, auto, acts, pc>>
      BY DEF Hit, CacheHit
<1>3. /\ n \in Nodes /\ CacheRec(u) /\ Len(u.dds) = DigitsOf(n)
      /\ CleanEntry(u, DefinedDDs)
      /\ h[2] = Len(adds) + DigitsOf(n)
  <2>1. h[1] = Len(adds) /\ h[2] = h[1] + Effect(Head(work))
        BY <1>0, <1>1, <1>2, HeadHeights
  <2>2. n \in Nodes /\ CacheRec(u) /\ Len(u.dds) = DigitsOf(n)
        /\ CleanEntry(u, DefinedDDs)
        BY <1>0, <1>2 DEF TypeOK, CacheClean
  <2>. QED
       BY <1>2, <2>1, <2>2 DEF Effect
<1>4. /\ adds' \in Seq(DD) /\ Len(adds') = Len(adds) + DigitsOf(n)
      /\ SeqRange(adds') = SeqRange(adds) \cup SeqRange(u.dds)
      /\ micros' \in Seq(MicroRec)
      /\ SeqRange(micros') = SeqRange(micros) \cup MI
      /\ IsMuxMap(muxmap')
      /\ MuxesOf(muxmap) \subseteq MuxesOf(muxmap')
      /\ MuxesOf(muxmap') \subseteq MuxesOf(muxmap) \cup MX
  <2>1. u.dds \in Seq(DD) /\ u.micros \in Seq(MicroRec) /\ IsMuxMap(u.muxmap)
        BY <1>3 DEF CacheRec
  <2>2. Reversed(u.dds) \in Seq(DD) /\ Len(Reversed(u.dds)) = Len(u.dds)
        /\ SeqRange(Reversed(u.dds)) = SeqRange(u.dds)
        BY <2>1, ReversedRange
  <2>3. adds \in Seq(DD) /\ micros \in Seq(MicroRec) /\ IsMuxMap(muxmap)
        BY <1>0 DEF TypeOK
  <2> HIDE DEF u
  <2>4. /\ adds \o Reversed(u.dds) \in Seq(DD)
        /\ Len(adds \o Reversed(u.dds)) = Len(adds) + Len(Reversed(u.dds))
        /\ SeqRange(adds \o Reversed(u.dds)) = SeqRange(adds) \cup SeqRange(Reversed(u.dds))
    <3>1. adds \in Seq(DD)
          BY <2>3
    <3>2. Reversed(u.dds) \in Seq(DD)
          BY <2>2
    <3>. QED
         BY <3>1, <3>2, ConcatRange
  <2>5. /\ micros \o u.micros \in Seq(MicroRec)
        /\ SeqRange(micros \o u.micros) = SeqRange(micros) \cup SeqRange(u.micros)
    <3>1. micros \in Seq(MicroRec)
          BY <2>3
    <3>2. u.micros \in Seq(MicroRec)
          BY <2>1
    <3>. QED
         BY <3>1, <3>2, ConcatRange
  <2>6. /\ IsMuxMap(MapInsert(muxmap, u.muxmap))
        /\ MuxesOf(muxmap) \subseteq MuxesOf(MapInsert(muxmap, u.muxmap))
        /\ MuxesOf(MapInsert(muxmap, u.muxmap)) \subseteq MuxesOf(muxmap) \cup MuxesOf(u.muxmap)
    <3>1. IsMuxMap(muxmap)
          BY <2>3
    <3>2. IsMuxMap(u.muxmap)
          BY <2>1
    <3>. QED
         BY <3>1, <3>2, InsertMuxes
  <2>. QED
       BY <1>2, <1>3, <2>2, <2>4, <2>5, <2>6
<1> HIDE DEF u, MI, MX
<1>20. /\ DefinedDDs' = DefS(SeqRange(micros'), MuxesOf(muxmap'))
       /\ UsedDDs' = UseS(SeqRange(adds'), SeqRange(micros'), MuxesOf(muxmap'))
       BY DEF DefinedDDs, UsedDDs, Muxes, MuxesOf, DefS, UseS
<1>21. /\ DefinedDDs \subseteq DefinedDDs'
       /\ Autos(UsedDDs') \subseteq DefinedDDs'
  <2>1. DefinedDDs \subseteq DefinedDDs'
        BY <1>4, <1>20, DefUseMono, TablesAre
  <2>2. UsedDDs' \subseteq UsedDDs \cup UseS(SeqRange(u.dds), MI, MX)
        BY <1>4, <1>20, TablesAre DEF UseS
  <2>3. Autos(UseS(SeqRange(u.dds), MI, MX)) \subseteq DefinedDDs
        BY <1>3 DEF CleanEntry, MI, MX
  <2>. QED
       BY <1>0, <2>1, <2>2, <2>3 DEF NoDanglingDDs, Autos
<1>8. NoDanglingDDs'
      BY <1>21 DEF NoDanglingDDs, Autos
<1>9. StackHeights'
  <2>1. \E h2 \in [1 .. Len(Tail(work)) + 1 -> Int] : HeightsOf(h2, Tail(work), adds')
        BY <1>0, <1>1, <1>2, <1>3, <1>4, PopHeights DEF TypeOK
  <2>. QED
       BY <1>2, <2>1 DEF StackHeights
<1>11. CacheClean'
  <2>1. \A k \in DOMAIN cache : CleanEntry(cache[k], DefinedDDs)
        BY <1>0 DEF CacheClean
  <2>. QED
       BY <1>2, <1>21, <2>1, CleanMono DEF CacheClean
<1>12. TypeOK'
  <2>1. Tail(work) \in Seq(Item)
        BY <1>0, <1>2 DEF TypeOK
  <2>. QED
       BY <1>0, <1>2, <1>4, <2>1 DEF TypeOK
<1>. QED
     BY <1>8, <1>9, <1>11, <1>12, <1>21 DEF IInv

(* A leaf pushes the DDs of its variable's encoding, none of them fresh,  *)
(* and memoizes them.                                                      *)
LEMMA LeafStep ==
    ASSUME IInv, Leaf
    PROVE  IInv' /\ DefinedDDs \subseteq DefinedDDs'
<1>0. TypeOK /\ CacheClean /\ NoDanglingDDs
      BY DEF IInv
<1>1. PICK h \in [1 .. Len(work) + 1 -> Int] : HeightsOf(h, work, adds)
      BY DEF IInv, StackHeights
<1> DEFINE n == Head(work).n
           v == [i \in 1 .. DigitsOf(n) |-> <<"var", n, i>>]
           a == adds \o Reversed(v)
           e == [dds |-> Top(a, DigitsOf(n)), micros |-> micros, muxmap |-> muxmap]
<1>2. /\ work # <<>> /\ Head(work).kind = "pre"
      /\ adds' = a /\ cache' = CacheAdd(cache, n, e)
      /\ work' = Tail(work)
      /\ UNCHANGED <<body, micros, muxmap, auto, acts, pc>>
      BY DEF Leaf, PostNodeHook, CacheAdd
<1>3. /\ n \in Nodes /\ DigitsOf(n) \in Nat
      /\ Len(adds) \in Nat /\ h[2] = Len(adds) + DigitsOf(n)
  <2>1. /\ Head(work) \in Item
        /\ h[1] = Len(adds) /\ h[2] = h[1] + Effect(Head(work))
        BY <1>0, <1>1, <1>2, HeadHeights
  <2>2. n \in Nodes /\ DigitsOf(n) \in Nat
        BY <2>1, DigitsNat DEF Item
  <2>. QED
       BY <1>0, <1>2, <2>1, <2>2 DEF Effect, TypeOK
<1>4. /\ v \in Seq(DD) /\ Len(v) = DigitsOf(n) /\ Autos(SeqRange(v)) = {}
      /\ a \in Seq(DD) /\ Len(a) = Len(adds) + DigitsOf(n)
      /\ SeqRange(a) = SeqRange(adds) \cup SeqRange(v)
  <2>1. v \in Seq(DD) /\ Len(v) = DigitsOf(n) /\ Autos(SeqRange(v)) = {}
        BY <1>3 DEF DD, Autos, SeqRange
  <2>2. Reversed(v) \in Seq(DD) /\ Len(Reversed(v)) = DigitsOf(n)
        /\ SeqRange(Reversed(v)) = SeqRange(v)
        BY <2>1, ReversedRange
  <2> HIDE DEF v
  <2>3. /\ adds \o Reversed(v) \in Seq(DD)
        /\ Len(adds \o Reversed(v)) = Len(adds) + Len(Reversed(v))
        /\ SeqRange(adds \o Reversed(v)) = SeqRange(adds) \cup SeqRange(Reversed(v))
    <3>1. adds \in Seq(DD)
          BY <1>0 DEF TypeOK
    <3>2. Reversed(v) \in Seq(DD)
          BY <2>2
    <3>. QED
         BY <3>1, <3>2, ConcatRange
  <2>. QED
       BY <2>1, <2>2, <2>3
<1> HIDE DEF v, a
<1>20. /\ DefinedDDs' = DefinedDDs
       /\ UsedDDs' = UseS(SeqRange(a), SeqRange(micros), MuxesOf(muxmap))
       BY <1>2 DEF DefinedDDs, UsedDDs, Muxes, MuxesOf, DefS, UseS
<1>21. UsedDDs' = UsedDDs \cup SeqRange(v)
  <2>1. UseS(SeqRange(adds) \cup SeqRange(v), SeqRange(micros), MuxesOf(muxmap))
           = UseS(SeqRange(adds), SeqRange(micros), MuxesOf(muxmap)) \cup SeqRange(v)
        BY UsePush
  <2>. QED
       BY <1>4, <1>20, <2>1, TablesAre
<1>8. NoDanglingDDs'
      BY <1>0, <1>4, <1>20, <1>21 DEF NoDanglingDDs, Autos
<1>9. StackHeights'
  <2>1. \E h2 \in [1 .. Len(Tail(work)) + 1 -> Int] : HeightsOf(h2, Tail(work), a)
        BY <1>0, <1>1, <1>2, <1>3, <1>4, PopHeights DEF TypeOK
  <2>. QED
       BY <1>2, <2>1 DEF StackHeights
<1>10. /\ CacheRec(e) /\ Len(e.dds) = DigitsOf(n)
       /\ CleanEntry(e, DefinedDDs')
  <2>1. DigitsOf(n) \in 0 .. Len(a)
        BY <1>3, <1>4
  <2>2. Top(a, DigitsOf(n)) \in Seq(DD) /\ Len(Top(a, DigitsOf(n))) = DigitsOf(n)
        BY <1>4, <2>1, TopRange
  <2>3. CacheRec(e) /\ Len(e.dds) = DigitsOf(n)
        BY <1>0, <2>2 DEF CacheRec, TypeOK
  <2>4. Autos(UseS(SeqRange(a), SeqRange(micros), MuxesOf(muxmap))) \subseteq DefinedDDs'
        BY <1>8, <1>20 DEF NoDanglingDDs, Autos
  <2>5. DefS(SeqRange(micros), MuxesOf(muxmap)) \subseteq DefinedDDs'
        BY <1>20, TablesAre
  <2>6. CleanEntry([dds |-> Top(a, DigitsOf(n)), micros |-> micros, muxmap |-> muxmap],
                   DefinedDDs')
        BY <1>4, <2>1, <2>4, <2>5, HookClean
  <2>. QED
       BY <2>3, <2>6
<1>11. /\ DOMAIN cache' \subseteq Nodes
       /\ \A k \in DOMAIN cache' : GoodEntry(cache', k, DefinedDDs')
  <2>1. \A k \in DOMAIN cache : GoodEntry(cache, k, DefinedDDs)
        BY <1>0 DEF TypeOK, CacheClean, GoodEntry
  <2>2. DOMAIN cache \subseteq Nodes /\ DefinedDDs \subseteq DefinedDDs'
        BY <1>0, <1>20 DEF TypeOK
  <2> HIDE DEF e, n
  <2>3. /\ DOMAIN CacheAdd(cache, n, e) \subseteq Nodes
        /\ \A k \in DOMAIN CacheAdd(cache, n, e) :
              GoodEntry(CacheAdd(cache, n, e), k, DefinedDDs')
        BY <1>3, <1>10, <2>1, <2>2, HookCache
  <2>. QED
       BY <1>2, <2>3
<1>12. TypeOK'
  <2>1. Tail(work) \in Seq(Item)
        BY <1>0, <1>2 DEF TypeOK
  <2>2. /\ body' \in Nodes /\ micros' \in Seq(MicroRec) /\ IsMuxMap(muxmap')
        /\ auto' \in Nat /\ pc' \in {"walk", "done"}
        BY <1>0, <1>2 DEF TypeOK
  <2>3. \A k \in DOMAIN cache' : CacheRec(cache'[k]) /\ Len(cache'[k].dds) = DigitsOf(k)
        BY <1>11 DEF GoodEntry
  <2>4. work' \in Seq(Item) /\ adds' \in Seq(DD)
        BY <1>2, <1>4, <2>1
  <2>. QED
       BY <1>11, <2>2, <2>3, <2>4 DEF TypeOK
<1>. QED
     BY <1>8, <1>9, <1>11, <1>12, <1>20 DEF IInv, CacheClean, GoodEntry

(* Expanding an operator or an ITE changes only the pending visits.        *)
LEMMA ExpandStep ==
    ASSUME IInv, Expand
    PROVE  IInv' /\ DefinedDDs \subseteq DefinedDDs'
<1>0. TypeOK /\ CacheClean /\ NoDanglingDDs
      BY DEF IInv
<1>1. PICK h \in [1 .. Len(work) + 1 -> Int] : HeightsOf(h, work, adds)
      BY DEF IInv, StackHeights
<1> DEFINE n == Head(work).n
<1>2. /\ work # <<>> /\ Head(work).kind = "pre" /\ Kind[n] \in {"op", "ite"}
      /\ work' = PreArgs(n) \o <<Post(n)>> \o Tail(work)
      /\ UNCHANGED <<body, adds, micros, muxmap, cache, auto, acts, pc>>
      BY DEF Expand, PreArgs
<1>3. n \in Nodes /\ work \in Seq(Item) /\ adds \in Seq(DD) /\ n = Head(work).n
      BY <1>0, <1>1, <1>2, HeadHeights DEF Item, TypeOK
<1> HIDE DEF n
<1>4. /\ PreArgs(n) \o <<Post(n)>> \in Seq(Item)
      /\ \E h2 \in [1 .. Len(PreArgs(n) \o <<Post(n)>> \o Tail(work)) + 1 -> Int] :
            HeightsOf(h2, PreArgs(n) \o <<Post(n)>> \o Tail(work), adds)
  <2>1. work \in Seq(Item) /\ work # <<>> /\ adds \in Seq(DD)
        BY <1>2, <1>3
  <2>2. Head(work).kind = "pre" /\ n \in Nodes /\ n = Head(work).n
        BY <1>2, <1>3
  <2>3. Kind[n] \in {"op", "ite"}
        BY <1>2
  <2>. QED
       BY <1>1, <2>1, <2>2, <2>3, ExpandHeights
<1>5. work' \in Seq(Item)
  <2>1. Tail(work) \in Seq(Item)
        BY <1>2, <1>3
  <2>. QED
       BY <1>2, <1>4, <2>1, ConcatRange
<1>6. StackHeights'
      BY <1>2, <1>4 DEF StackHeights
<1>7. TypeOK'
      BY <1>0, <1>2, <1>5 DEF TypeOK
<1>8. DefinedDDs' = DefinedDDs /\ UsedDDs' = UsedDDs
      BY <1>2 DEF DefinedDDs, UsedDDs, Muxes
<1>9. CacheClean' /\ NoDanglingDDs'
      BY <1>0, <1>2, <1>8 DEF CacheClean, NoDanglingDDs
<1>. QED
     BY <1>6, <1>7, <1>8, <1>9 DEF IInv

(* post_process_muxes only emits the activation clauses.                   *)
LEMMA PostProcessStep ==
    ASSUME IInv, PostProcessMuxes \/ UNCHANGED vars
    PROVE  IInv' /\ DefinedDDs \subseteq DefinedDDs'
<1>1. UNCHANGED <<body, work, adds, micros, muxmap, cache, auto>>
      /\ pc' \in {"walk", "done"}
      BY DEF PostProcessMuxes, vars, IInv, TypeOK
<1>2. DefinedDDs' = DefinedDDs
      BY <1>1 DEF DefinedDDs, Muxes
<1>. QED
     BY <1>1, <1>2 DEF IInv, TypeOK, StackHeights, CacheClean, NoDanglingDDs,
                       DefinedDDs, UsedDDs, Muxes

(* The walk starts with one pending visit of the toplevel expression and  *)
(* empty tables.                                                           *)
LEMMA InitIInv ==
    Init => IInv
<1>. SUFFICES ASSUME Init PROVE IInv
     OBVIOUS
<1>1. body \in Nodes
      BY KindAssumption DEF Init
<1>2. TypeOK
      BY <1>1 DEF Init, TypeOK, Item, Pre, IsMuxMap
<1>3. StackHeights
  <2> DEFINE h == <<0, DigitsOf(body)>>
  <2>1. DigitsOf(body) \in Nat
        BY <1>1, DigitsNat
  <2>2. h \in [1 .. Len(work) + 1 -> Int] /\ HeightsOf(h, work, adds)
        BY <2>1 DEF Init, HeightsOf, LocalHeights, Effect, Pre
  <2>. QED
       BY <2>2 DEF StackHeights
<1>4. CacheClean
      BY DEF Init, CacheClean
<1>5. UsedDDs = {}
  <2>1. SeqRange(adds) = {} /\ SeqRange(micros) = {} /\ Muxes = {}
        BY DEF Init, SeqRange, Muxes
  <2>. QED
       BY <2>1 DEF UsedDDs
<1>6. NoDanglingDDs
      BY <1>5 DEF NoDanglingDDs
<1>. QED
     BY <1>2, <1>3, <1>4, <1>6 DEF IInv

-----------------------------------------------------------------------------
(* The strengthened invariant is inductive: every step of the walker and  *)
(* of post_process_muxes preserves it, and none of them unregisters a     *)
(* descriptor.                                                             *)
THEOREM IInvInductive ==
    IInv /\ [Next]_vars => IInv' /\ DefinedDDs \subseteq DefinedDDs'
<1>. SUFFICES ASSUME IInv, [Next]_vars PROVE IInv' /\ DefinedDDs \subseteq DefinedDDs'
     OBVIOUS
<1>1. CASE Hit
      BY <1>1, HitStep
<1>2. CASE Leaf
      BY <1>2, LeafStep
<1>3. CASE Expand
      BY <1>3, ExpandStep
<1>4. CASE Operator
      BY <1>4, OperatorStep
<1>5. CASE Ite
      BY <1>5, IteStep
<1>6. CASE PostProcessMuxes \/ UNCHANGED vars
      BY <1>6, PostProcessStep
<1>. QED
     BY <1>1, <1>2, <1>3, <1>4, <1>5, <1>6 DEF Next

(* NoDanglingDDs: in every reachable state of the compiler, every fresh   *)
(* DD that the add stack, a MicroDescriptor or a MuxDescriptor refers to  *)
(* is the result or the aux bit of a registered descriptor, whatever the  *)
(* width and the type-checked expression DAG, through cache misses        *)
(* (post_node_hook) and cache hits (cache_miss) alike.                     *)
THEOREM NoDanglingDDsTheorem ==
    Spec => []NoDanglingDDs
<1>1. Init => IInv
      BY InitIInv
<1>2. IInv /\ [Next]_vars => IInv'
      BY IInvInductive
<1>3. IInv => NoDanglingDDs
      BY DEF IInv
<1>. QED
     BY <1>1, <1>2, <1>3, PTL DEF Spec

(* The compiler's state is well typed: the add stack holds DDs, the      *)
(* tables hold descriptors, and every cache entry holds as many DDs as   *)
(* its node has digits (post_node_hook, cache_miss).                      *)
THEOREM TypeCorrect ==
    Spec => []TypeOK
<1>1. Init => IInv
      BY InitIInv
<1>2. IInv /\ [Next]_vars => IInv'
      BY IInvInductive
<1>3. IInv => TypeOK
      BY DEF IInv
<1>. QED
     BY <1>1, <1>2, <1>3, PTL DEF Spec

(* DefinedGrows: no step of the compiler unregisters a micro or MUX       *)
(* descriptor, so a fresh DD once defined stays defined for the rest of   *)
(* the process call (register_microdescriptor, register_muxdescriptor and *)
(* the insert of cache_miss only add; clear_internals is not called).     *)
THEOREM DefinedGrows ==
    Spec => [][DefinedDDs \subseteq DefinedDDs']_vars
<1>1. Spec => []IInv
  <2>1. Init => IInv
        BY InitIInv
  <2>2. IInv /\ [Next]_vars => IInv'
        BY IInvInductive
  <2>. QED
       BY <2>1, <2>2, PTL DEF Spec
<1>2. IInv /\ [Next]_vars => [DefinedDDs \subseteq DefinedDDs']_vars
      BY IInvInductive
<1>. QED
     BY <1>1, <1>2, PTL DEF Spec
=============================================================================
