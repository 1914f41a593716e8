--------------------------- MODULE EncodingProofs ---------------------------
(***************************************************************************)
(* Proofs about the encodings of module Encoding, for every set of widths *)
(* and literal sets and every number of encodings.                         *)
(***************************************************************************)
EXTENDS Encoding, TLAPS

(* The encodings EncodingMgr::make_encoding can build from bit `from` on. *)
Made ==
    {Boolean(f) : f \in Nat}
    \cup {Algebraic(f, w) : f \in Nat, w \in Widths}
    \cup {Enum(f, lits) : f \in Nat, lits \in LiteralSets}

(* The inductive invariant: the manager's counter is a number, every      *)
(* encoding is one make_encoding builds, its bits are among those handed  *)
(* out, and no two encodings share a bit.                                  *)
IInv ==
    /\ nbits \in Nat
    /\ encs \in Seq(Made)
    /\ \A i \in DOMAIN encs : SeqRange(encs[i].bits) \subseteq 1 .. nbits
    /\ \A i, j \in DOMAIN encs :
          i # j => SeqRange(encs[i].bits) \cap SeqRange(encs[j].bits) = {}

(* make_monolithic_encoding(n) hands out the n bits after `from`.          *)
LEMMA FreshBits ==
    ASSUME NEW from \in Nat, NEW n \in Nat
    PROVE  /\ Fresh(from, n) \in Seq(Nat)
           /\ Len(Fresh(from, n)) = n
           /\ SeqRange(Fresh(from, n)) \subseteq from + 1 .. from + n
BY DEF Fresh, SeqRange

(* range_repr_bits(|lits|) is a number of bits of the literal count's     *)
(* binary numeral.                                                         *)
LEMMA RangeReprBitsSpec ==
    ASSUME NEW lits \in LiteralSets
    PROVE  /\ RangeReprBits(Len(lits)) \in 1 .. Len(lits)
           /\ Len(lits) < 2 ^ RangeReprBits(Len(lits))
BY RangeReprAssumption, EncodingAssumption DEF RangeReprBits

(* AlgebraicEncoding::bits_begin(k) .. bits_end(k) of a freshly built     *)
(* algebraic encoding are the bits of its digit k.                          *)
LEMMA AlgebraicDigitBits ==
    ASSUME NEW f \in Nat, NEW w \in Widths, NEW k \in 0 .. w - 1
    PROVE  BitsOfDigit(Algebraic(f, w), k) = Algebraic(f, w).dv[k + 1]
<1>1. w \in Nat \ {0}
      BY EncodingAssumption
<1>2. BitsOfDigit(Algebraic(f, w), k)
        = [i \in 1 .. NIBBLE_SIZE |-> f + k * NIBBLE_SIZE + i]
      BY <1>1 DEF BitsOfDigit, Algebraic, Fresh, NIBBLE_SIZE
<1>3. Algebraic(f, w).dv[k + 1] = [i \in 1 .. NIBBLE_SIZE |-> f + k * NIBBLE_SIZE + i]
      BY <1>1 DEF Algebraic, Fresh, NIBBLE_SIZE
<1>. QED
     BY <1>2, <1>3

(* The number EnumEncoding gives a literal fits in the bits it makes.      *)
LEMMA EnumNumbersFit ==
    ASSUME NEW f \in Nat, NEW lits \in LiteralSets,
           NEW l \in DOMAIN Enum(f, lits).e2v
    PROVE  Enum(f, lits).e2v[l] < 2 ^ Len(Enum(f, lits).bits)
<1>. DEFINE L == Len(lits)
            n == RangeReprBits(L)
<1>1. /\ n \in 1 .. L
      /\ L < 2 ^ n
      BY RangeReprBitsSpec
<1>3. /\ lits \in Seq(STRING)
      /\ L \in Nat \ {0}
      BY EncodingAssumption
<1>2. Len(Enum(f, lits).bits) = n
  <2>1. Enum(f, lits).bits = Fresh(f, n)
        BY DEF Enum
  <2>2. n \in Nat
        BY <1>1, <1>3
  <2>. QED
       BY <2>1, <2>2, FreshBits
<1>4. PICK i \in 1 .. L : l = lits[i]
      BY DEF Enum
<1>5. Enum(f, lits).e2v[l] \in 0 .. L - 1
  <2>1. \E v \in 0 .. L - 1 : lits[v + 1] = l
    <3>1. i - 1 \in 0 .. L - 1 /\ (i - 1) + 1 = i
          BY <1>3
    <3>. QED
         BY <3>1, <1>4
  <2>. QED
       BY <2>1 DEF Enum
<1>6. 2 ^ n \in Nat
      BY <1>1
<1>. QED
     BY <1>1, <1>2, <1>5, <1>6

(* A new encoding built from the counter `from` on, whose bits go up to   *)
(* `to`, keeps IInv when it is appended and the counter moves to `to`.   *)
LEMMA AppendKeeps ==
    ASSUME IInv, NEW e \in Made, NEW to \in Nat, nbits <= to,
           SeqRange(e.bits) \subseteq nbits + 1 .. to,
           encs' = Append(encs, e), nbits' = to
    PROVE  IInv'
<1>1. encs' \in Seq(Made)
      BY DEF IInv
<1>2. DOMAIN encs' = 1 .. Len(encs) + 1
      BY DEF IInv
<1>3. \A i \in DOMAIN encs : encs'[i] = encs[i] /\ SeqRange(encs[i].bits) \subseteq 1 .. nbits
      BY DEF IInv
<1>4. encs'[Len(encs) + 1] = e
      BY DEF IInv
<1>5. \A i \in DOMAIN encs' : SeqRange(encs'[i].bits) \subseteq 1 .. to
      BY <1>2, <1>3, <1>4 DEF IInv
<1>6. \A i, j \in DOMAIN encs' :
          i # j => SeqRange(encs'[i].bits) \cap SeqRange(encs'[j].bits) = {}
  <2>. SUFFICES ASSUME NEW i \in DOMAIN encs', NEW j \in DOMAIN encs', i # j
                PROVE  SeqRange(encs'[i].bits) \cap SeqRange(encs'[j].bits) = {}
       OBVIOUS
  <2>1. CASE i \in DOMAIN encs /\ j \in DOMAIN encs
    <3>1. SeqRange(encs[i].bits) \cap SeqRange(encs[j].bits) = {}
          BY <2>1 DEF IInv
    <3>. QED
         BY <2>1, <3>1, <1>3
  <2>2. CASE i \in DOMAIN encs /\ j = Len(encs) + 1
        BY <2>2, <1>3, <1>4 DEF IInv
  <2>3. CASE i = Len(encs) + 1 /\ j \in DOMAIN encs
        BY <2>3, <1>3, <1>4 DEF IInv
  <2>4. Len(encs) \in Nat /\ DOMAIN encs = 1 .. Len(encs)
        BY DEF IInv
  <2>5. /\ i \in DOMAIN encs \/ i = Len(encs) + 1
        /\ j \in DOMAIN encs \/ j = Len(encs) + 1
        BY <2>4, <1>2
  <2>. QED
       BY <2>1, <2>2, <2>3, <2>5
<1>. QED
     BY <1>1, <1>5, <1>6 DEF IInv

(* IInv is an invariant of the encoding manager.                           *)
THEOREM IInvInvariant == Spec => []IInv
<1>1. Init => IInv
      BY DEF Init, IInv
<1>2. IInv /\ [Next]_vars => IInv'
  <2>. SUFFICES ASSUME IInv, [Next]_vars PROVE IInv'
       OBVIOUS
  <2>1. CASE MakeBoolean
    <3>1. Boolean(nbits) \in Made
          BY DEF IInv, Made
    <3>2. SeqRange(Boolean(nbits).bits) \subseteq nbits + 1 .. nbits + 1
          BY DEF IInv, Boolean, SeqRange
    <3>3. nbits + 1 \in Nat /\ nbits <= nbits + 1
          BY DEF IInv
    <3>4. encs' = Append(encs, Boolean(nbits)) /\ nbits' = nbits + 1
          BY <2>1 DEF MakeBoolean
    <3>. QED
         BY <3>1, <3>2, <3>3, <3>4, AppendKeeps
  <2>2. CASE MakeAlgebraic
    <3>. PICK w \in Widths : /\ encs' = Append(encs, Algebraic(nbits, w))
                             /\ nbits' = nbits + w * NIBBLE_SIZE
         BY <2>2 DEF MakeAlgebraic
    <3>1. w * NIBBLE_SIZE \in Nat
          BY EncodingAssumption DEF NIBBLE_SIZE
    <3>2. Algebraic(nbits, w) \in Made
          BY DEF IInv, Made
    <3>3. SeqRange(Algebraic(nbits, w).bits) \subseteq nbits + 1 .. nbits + w * NIBBLE_SIZE
          BY <3>1, FreshBits DEF IInv, Algebraic
    <3>4. nbits + w * NIBBLE_SIZE \in Nat /\ nbits <= nbits + w * NIBBLE_SIZE
          BY <3>1 DEF IInv
    <3>. QED
         BY <3>2, <3>3, <3>4, AppendKeeps
  <2>3. CASE MakeEnum
    <3>. PICK lits \in LiteralSets :
              /\ encs' = Append(encs, Enum(nbits, lits))
              /\ nbits' = nbits + RangeReprBits(Len(lits))
         BY <2>3 DEF MakeEnum
    <3>1. RangeReprBits(Len(lits)) \in Nat
          BY RangeReprBitsSpec, EncodingAssumption
    <3>2. Enum(nbits, lits) \in Made
          BY DEF IInv, Made
    <3>3. SeqRange(Enum(nbits, lits).bits) \subseteq nbits + 1 .. nbits + RangeReprBits(Len(lits))
          BY <3>1, FreshBits DEF IInv, Enum
    <3>4. nbits + RangeReprBits(Len(lits)) \in Nat
          /\ nbits <= nbits + RangeReprBits(Len(lits))
          BY <3>1 DEF IInv
    <3>. QED
         BY <3>2, <3>3, <3>4, AppendKeeps
  <2>4. CASE UNCHANGED vars
        BY <2>4 DEF vars, IInv
  <2>. QED
       BY <2>1, <2>2, <2>3, <2>4 DEF Next
<1>. QED
     BY <1>1, <1>2, PTL DEF Spec

(* An encoding of kind "alg" is an AlgebraicEncoding, one of kind "enum"  *)
(* an EnumEncoding.                                                         *)
LEMMA MadeShape ==
    ASSUME NEW e \in Made
    PROVE  /\ e.kind = "alg" => \E f \in Nat, w \in Widths : e = Algebraic(f, w)
           /\ e.kind = "enum" => \E f \in Nat, lits \in LiteralSets : e = Enum(f, lits)
<1>1. CASE \E f \in Nat : e = Boolean(f)
      BY <1>1 DEF Boolean
<1>2. CASE \E f \in Nat, w \in Widths : e = Algebraic(f, w)
  <2>1. PICK f \in Nat, w \in Widths : e = Algebraic(f, w)
        BY <1>2
  <2>2. e.kind = "alg"
        BY <2>1 DEF Algebraic
  <2>. QED
       BY <2>1, <2>2
<1>3. CASE \E f \in Nat, lits \in LiteralSets : e = Enum(f, lits)
  <2>1. PICK f \in Nat, lits \in LiteralSets : e = Enum(f, lits)
        BY <1>3
  <2>2. e.kind = "enum"
        BY <2>1 DEF Enum
  <2>. QED
       BY <2>1, <2>2
<1>. QED
     BY <1>1, <1>2, <1>3 DEF Made

(* DigitBits (AlgebraicEncoding::bits_begin, bits_end): for every set of  *)
(* widths and literal sets and any number of encodings, the iterators of  *)
(* digit k of an algebraic encoding cover exactly that digit's bits.      *)
THEOREM DigitBitsTheorem == Spec => []DigitBits
<1>1. IInv => DigitBits
  <2>. SUFFICES ASSUME IInv, NEW i \in Algebraics,
                       NEW k \in 0 .. Len(encs[i].dv) - 1
                PROVE  BitsOfDigit(encs[i], k) = encs[i].dv[k + 1]
       BY DEF DigitBits
  <2>1. encs[i] \in Made /\ encs[i].kind = "alg"
        BY DEF IInv, Algebraics
  <2>2. PICK f \in Nat, w \in Widths : encs[i] = Algebraic(f, w)
        BY <2>1, MadeShape
  <2>3. k \in 0 .. w - 1
        BY <2>2, EncodingAssumption DEF Algebraic
  <2>. QED
       BY <2>2, <2>3, AlgebraicDigitBits
<1>. QED
     BY <1>1, IInvInvariant, PTL

(* EnumBitsSuffice (EnumEncoding::EnumEncoding, Encoding::make_bit): for  *)
(* every set of literal sets and any number of encodings, each literal's  *)
(* number fits in its enum's bits, and no two encodings share a bit.      *)
THEOREM EnumBitsSufficeTheorem == Spec => []EnumBitsSuffice
<1>1. IInv => EnumBitsSuffice
  <2>. SUFFICES ASSUME IInv PROVE EnumBitsSuffice
       OBVIOUS
  <2>1. ASSUME NEW i \in Enums, NEW l \in DOMAIN encs[i].e2v
        PROVE  encs[i].e2v[l] < 2 ^ Len(encs[i].bits)
    <3>1. encs[i] \in Made /\ encs[i].kind = "enum"
          BY DEF IInv, Enums
    <3>2. PICK f \in Nat, lits \in LiteralSets : encs[i] = Enum(f, lits)
          BY <3>1, MadeShape
    <3>. QED
         BY <3>2, EnumNumbersFit
  <2>2. \A i, j \in DOMAIN encs :
            i # j => SeqRange(encs[i].bits) \cap SeqRange(encs[j].bits) = {}
        BY DEF IInv
  <2>. QED
       BY <2>1, <2>2 DEF EnumBitsSuffice
<1>. QED
     BY <1>1, IInvInvariant, PTL
=============================================================================
