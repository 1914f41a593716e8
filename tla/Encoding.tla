----------------------------- MODULE Encoding ------------------------------
(***************************************************************************)
(* The encodings of src/src/enc/enc.cc.  The encoding manager hands out    *)
(* fresh ADD bits (f_mgr.bit()), here numbered 1, 2, ...; an encoding     *)
(* keeps the bits it made in f_bits and its DDs in f_dv.  A monolithic DD *)
(* is a sequence of bits, the first the most significant                  *)
(* (make_monolithic_encoding: res = res * 2 + bit).  expr(assignment)     *)
(* evaluates the DDs at an assignment of the bits and maps the value      *)
(* back.                                                                   *)
(***************************************************************************)
EXTENDS Integers, Sequences, FiniteSets

CONSTANTS
    Widths,         \* the widths (in digits) of the algebraic types
    LiteralSets,    \* the literal sets of the enum types, as sequences
    MaxEncodings    \* the encodings made in a run

ASSUME EncodingAssumption ==
    /\ Widths \subseteq Nat \ {0}
    /\ \A lits \in LiteralSets : lits \in Seq(STRING) /\ Len(lits) > 0
    /\ MaxEncodings \in Nat

(* Every literal count has a binary numeral, of b digits with             *)
(* 2^(b-1) <= count < 2^b, which is what range_repr_bits counts; an       *)
(* arithmetic fact (its proof is an induction on the count) that TLC      *)
(* checks for the literal sets of each run.                                *)
ASSUME RangeReprAssumption ==
    \A lits \in LiteralSets :
        \E b \in 1 .. Len(lits) : 2 ^ (b - 1) <= Len(lits) /\ Len(lits) < 2 ^ b

NIBBLE_SIZE == 4
Base == 2 ^ NIBBLE_SIZE

VARIABLES
    nbits,          \* the bits the manager has handed out
    encs            \* the encodings made, in order

vars == <<nbits, encs>>

-----------------------------------------------------------------------------
(* make_monolithic_encoding(n) as the next n bits.                         *)
Fresh(from, n) == [i \in 1 .. n |-> from + i]

(* Mutant: the loop stops while one bit of the range is left.             *)
RangeReprBitsShort(range) ==
    CHOOSE b \in 0 .. range : 2 ^ b <= range /\ range < 2 ^ (b + 1)

(* MonolithicEncoding::range_repr_bits: the bits of the binary numeral.   *)
RangeReprBits(range) ==
    CHOOSE b \in 1 .. range : 2 ^ (b - 1) <= range /\ range < 2 ^ b

(* The value a monolithic DD takes under an assignment of bits.           *)
MonoValue(dd, a) ==
    LET s[i \in 0 .. Len(dd)] ==
            IF i = 0 THEN 0 ELSE 2 * s[i - 1] + (IF a[dd[i]] THEN 1 ELSE 0)
    IN s[Len(dd)]

(* BooleanEncoding: one bit.                                               *)
Boolean(from) == [kind |-> "bool", bits |-> <<from + 1>>, dv |-> <<<<from + 1>>>>]

(* AlgebraicEncoding (not temporary): width digits, each a monolithic     *)
(* encoding of NIBBLE_SIZE bits, made in order.                           *)
Algebraic(from, w) ==
    [kind |-> "alg",
     bits |-> Fresh(from, w * NIBBLE_SIZE),
     dv   |-> [d \in 1 .. w |-> Fresh(from + (d - 1) * NIBBLE_SIZE, NIBBLE_SIZE)]]

(* EnumEncoding: make_monolithic_encoding(range_repr_bits(|lits|)) makes  *)
(* the bits, but its result is dropped: nothing is pushed on f_dv.  The   *)
(* literals are numbered 0, 1, ... in the order of the set (f_v2e_map,    *)
(* f_e2v_map).                                                             *)
Enum(from, lits) ==
    LET n == RangeReprBits(Len(lits))
    IN [kind |-> "enum", bits |-> Fresh(from, n), dv |-> <<>>,
        v2e |-> [v \in 0 .. Len(lits) - 1 |-> lits[v + 1]],
        e2v |-> [l \in {lits[i] : i \in 1 .. Len(lits)} |->
                   CHOOSE v \in 0 .. Len(lits) - 1 : lits[v + 1] = l]]

(* Mutant: bits_end skips one bit too few.                                *)
BitsOfDigitShort(e, k) == SubSeq(e.bits, k * NIBBLE_SIZE + 1, k * NIBBLE_SIZE + NIBBLE_SIZE - 1)

(* AlgebraicEncoding::bits_begin(k) .. bits_end(k): skip k * NIBBLE_SIZE  *)
(* bits of f_bits, then NIBBLE_SIZE more.                                 *)
BitsOfDigit(e, k) == SubSeq(e.bits, k * NIBBLE_SIZE + 1, k * NIBBLE_SIZE + NIBBLE_SIZE)

(* AlgebraicEncoding::expr: res = 0; for each digit i from 0: res += the  *)
(* digit's value, and res *= 0x10 unless it is the last.                  *)
AlgExpr(e, a) ==
    LET s[i \in 0 .. Len(e.dv)] ==
            IF i = 0 THEN 0 ELSE s[i - 1] * Base + MonoValue(e.dv[i], a)
    IN s[Len(e.dv)]

(* EnumEncoding::expr: f_dv[0] evaluated, then the literal of the value,   *)
(* or the default-built NULL entry that f_v2e_map[] inserts for a value    *)
(* without one.  Reading f_dv[0] of an empty f_dv is undefined: "UB".     *)
EnumExpr(e, a) ==
    IF e.dv = <<>> THEN "UB"
    ELSE LET v == MonoValue(e.dv[1], a)
         IN IF v \in DOMAIN e.v2e THEN e.v2e[v] ELSE "NULL"

-----------------------------------------------------------------------------
Init ==
    /\ nbits = 0
    /\ encs = <<>>

(* EncodingMgr::make_encoding for a Boolean, an algebraic or an enum type. *)
MakeBoolean ==
    /\ Len(encs) < MaxEncodings
    /\ encs' = Append(encs, Boolean(nbits))
    /\ nbits' = nbits + 1

MakeAlgebraic ==
    /\ Len(encs) < MaxEncodings
    /\ \E w \in Widths :
          /\ encs' = Append(encs, Algebraic(nbits, w))
          /\ nbits' = nbits + w * NIBBLE_SIZE

MakeEnum ==
    /\ Len(encs) < MaxEncodings
    /\ \E lits \in LiteralSets :
          /\ encs' = Append(encs, Enum(nbits, lits))
          /\ nbits' = nbits + RangeReprBits(Len(lits))

Next == MakeBoolean \/ MakeAlgebraic \/ MakeEnum

Spec == Init /\ [][Next]_vars

-----------------------------------------------------------------------------
SeqRange(s) == {s[i] : i \in DOMAIN s}

(* The assignment that gives each monolithic DD dv[d] the value val[d],   *)
(* its first bit the most significant.                                     *)
Assigning(dv, val) ==
    [b \in UNION {SeqRange(dv[d]) : d \in DOMAIN dv} |->
        LET d == CHOOSE d \in DOMAIN dv : b \in SeqRange(dv[d])
            j == CHOOSE j \in DOMAIN dv[d] : dv[d][j] = b
        IN (val[d] \div 2 ^ (Len(dv[d]) - j)) % 2 = 1]

Algebraics == {i \in DOMAIN encs : encs[i].kind = "alg"}
Enums == {i \in DOMAIN encs : encs[i].kind = "enum"}

(* The bits between bits_begin(k) and bits_end(k) of an algebraic         *)
(* encoding are exactly the bits of its digit k: make_bit appends every   *)
(* bit to f_bits in the order the digits are built, and the iterators     *)
(* skip whole nibbles (AlgebraicEncoding::bits_begin, bits_end).          *)
DigitBits ==
    \A i \in Algebraics :
        \A k \in 0 .. Len(encs[i].dv) - 1 :
            BitsOfDigit(encs[i], k) = encs[i].dv[k + 1]

(* The bits an enum's encoding makes can hold the number of every literal  *)
(* (EnumEncoding::EnumEncoding sizes them with range_repr_bits(|lits|)), *)
(* and no two encodings share a bit (Encoding::make_bit).                 *)
EnumBitsSuffice ==
    /\ \A i \in Enums : \A l \in DOMAIN encs[i].e2v : encs[i].e2v[l] < 2 ^ Len(encs[i].bits)
    /\ \A i, j \in DOMAIN encs : i # j => SeqRange(encs[i].bits) \cap SeqRange(encs[j].bits) = {}

(* Spec 4.8: an assignment of an enum's bits that encodes the number of a *)
(* literal is decoded back to that literal (EnumEncoding::expr).           *)
EnumRoundTrip ==
    \A i \in Enums :
        LET e == encs[i]
        IN \A l \in DOMAIN e.e2v :
              EnumExpr(e, Assigning(<<e.bits>>, <<e.e2v[l]>>)) = l

(* Spec P8: an algebraic encoding is ordered least significant digit     *)
(* first, and expr(A) returns the value whose base-16 digits are the      *)
(* values of the DDs under A (AlgebraicEncoding::expr).                   *)
AlgebraicRoundTrip ==
    \A i \in Algebraics :
        LET e == encs[i]
            w == Len(e.dv)
        IN \A v \in 0 .. Base ^ w - 1 :
              AlgExpr(e, Assigning(e.dv, [d \in 1 .. w |-> (v \div Base ^ (d - 1)) % Base])) = v
=============================================================================
