------------------------------ MODULE BitGates ------------------------------
(***************************************************************************)
(* The gates that take a field element apart: comparison by chunks, range  *)
(* checks, bytes, and the interleaving of bits used by xor and and.        *)
(* Inputs x, outputs o and limbs l as in UintGates.                        *)
(***************************************************************************)
EXTENDS UintGates

-----------------------------------------------------------------------------
(* ComparisonGate: o1 = (x1 <= x2), o2 the difference of the chunks that     *)
(* decide.  The limbs are the chunks of both inputs, the equality witnesses, *)
(* the intermediate differences and the bits of 2^n + o2.                    *)

ChunkBits(g) == (g.bits + g.chunks - 1) \div g.chunks

ComparisonWires(g, i) ==
    [x |-> <<0, 1>>, o |-> <<2, 3>>,
     l |-> [j \in 1 .. 5 * g.chunks + ChunkBits(g) + 1 |-> 3 + j]]

FirstChunks(g, l) == SubSeq(l, 1, g.chunks)

SecondChunks(g, l) == SubSeq(l, g.chunks + 1, 2 * g.chunks)

EqualityDummy(g, l) == SubSeq(l, 2 * g.chunks + 1, 3 * g.chunks)

ChunksEqual(g, l) == SubSeq(l, 3 * g.chunks + 1, 4 * g.chunks)

IntermediateValue(g, l) == SubSeq(l, 4 * g.chunks + 1, 5 * g.chunks)

MostSignificantDiffBits(g, l) == SubSeq(l, 5 * g.chunks + 1, Len(l))

\* The difference found so far when chunk i begins.
DiffBefore(g, l, i) ==
    IF i = 1 THEN 0
    ELSE Fp(IntermediateValue(g, l)[i - 1]
              + Mul(1 - ChunksEqual(g, l)[i - 1],
                    SecondChunks(g, l)[i - 1] - FirstChunks(g, l)[i - 1]))

ComparisonShape(g, x, o, l, Combine(_, _), ChunkRange(_)) ==
    LET a == FirstChunks(g, l)
        b == SecondChunks(g, l)
        bits == MostSignificantDiffBits(g, l)
        Chunk(i) ==
          << ChunkRange(a[i]), ChunkRange(b[i]),
             Fp(Mul(b[i] - a[i], EqualityDummy(g, l)[i]) - (1 - ChunksEqual(g, l)[i])),
             Mul(ChunksEqual(g, l)[i], b[i] - a[i]),
             Fp(IntermediateValue(g, l)[i] - Mul(ChunksEqual(g, l)[i], DiffBefore(g, l, i))) >>
    IN << Fp(Combine(a, 2^ChunkBits(g)) - x[1]), Fp(Combine(b, 2^ChunkBits(g)) - x[2]) >>
         \o FlattenSeq([i \in 1 .. g.chunks |-> Chunk(i)])
         \o << Fp(o[2] - DiffBefore(g, l, g.chunks + 1)) >>
         \o [k \in 1 .. Len(bits) |-> Mul(bits[k], 1 - bits[k])]
         \o << Fp(2^ChunkBits(g) + o[2] - Combine(bits, 2)),
               Fp(o[1] - bits[ChunkBits(g) + 1]) >>

ComparisonEval(g, x, o, l) ==
    LET Whole(c) == RangeProduct(c, 2^ChunkBits(g))
    IN ComparisonShape(g, x, o, l, ReduceWithPowers, Whole)

\* Chunks of two bits and of one bit have a formula of their own.
ComparisonAccumulate(g, x, o, l) ==
    LET Cases(c) == CASE ChunkBits(g) = 2 -> RangeFactored(c)
                      [] ChunkBits(g) = 1 -> Mul(c, c - 1)
                      [] OTHER -> RangeProduct(c, 2^ChunkBits(g))
    IN ComparisonShape(g, x, o, l, Recompose, Cases)

ComparisonCircuit(g, x, o, l) ==
    LET Whole(c) == RangeProduct(c, 2^ChunkBits(g))
    IN ComparisonShape(g, x, o, l, Recompose, Whole)

ComparisonPacked(g, x, o, l) == ComparisonEval(g, x, o, l)

\* One inversion for all unequal chunks: the product of the differences is
\* inverted and unwound from the last unequal chunk to the first.
BatchInverses(diffs) ==
    LET prefix(k) == FoldLeft(LAMBDA acc, d : Mul(acc, d), 1, SubSeq(diffs, 1, k - 1))
        suffix(k) == FoldLeft(LAMBDA acc, d : Mul(acc, d), 1, SubSeq(diffs, k + 1, Len(diffs)))
        all == Inv(prefix(Len(diffs) + 1))
    IN [k \in 1 .. Len(diffs) |-> Mul(Mul(all, suffix(k)), prefix(k))]

ComparisonRunOnce(g, x) ==
    LET a == Digits(x[1], 2^ChunkBits(g), g.chunks)
        b == Digits(x[2], 2^ChunkBits(g), g.chunks)
        unequal == SelectSeq([i \in 1 .. g.chunks |-> i], LAMBDA i : a[i] # b[i])
        inverses == IF unequal = << >> THEN << >>
                    ELSE BatchInverses([k \in 1 .. Len(unequal) |-> Fp(b[unequal[k]] - a[unequal[k]])])
        upTo(i) == SelectSeq(unequal, LAMBDA k : k <= i)
        diff(i) == IF upTo(i) = << >> THEN 0 ELSE Fp(b[Last(upTo(i))] - a[Last(upTo(i))])
        msd == diff(g.chunks)
    IN [o |-> << IF x[1] <= x[2] THEN 1 ELSE 0, msd >>,
        l |-> a \o b
              \o [i \in 1 .. g.chunks |-> IF a[i] = b[i] THEN 1 ELSE inverses[Len(upTo(i))]]
              \o [i \in 1 .. g.chunks |-> IF a[i] = b[i] THEN 1 ELSE 0]
              \o [i \in 1 .. g.chunks |-> IF a[i] = b[i] THEN diff(i) ELSE 0]
              \o Digits(Fp(2^ChunkBits(g) + msd), 2, ChunkBits(g) + 1)]

-----------------------------------------------------------------------------
(* RangeCheckGate: x1 has g.bits bits.  No output; the last limb is one bit   *)
(* when the size is odd.                                                     *)

AuxLimbs(g) == (g.bits + LIMB_BITS - 1) \div LIMB_BITS

RangeCheckWires(g, i) ==
    [x |-> << i >>, o |-> << >>,
     l |-> [j \in 1 .. AuxLimbs(g) |-> g.ops + AuxLimbs(g) * i + j - 1]]

\* The division binds tighter than the minimum: wires / min(per op, routed).
RangeCheckOps(config, bits) ==
    LET perOp == 1 + (bits + LIMB_BITS - 1) \div LIMB_BITS
    IN config.wires \div (IF perOp <= config.routed THEN perOp ELSE config.routed)

RangeCheckEval(g, x, o, l) ==
    << Fp(ReduceWithPowers(l, LIMB_BASE) - x[1]) >>
      \o [j \in 1 .. Len(l) - 1 |-> Product4(l[j])]
      \o << RangeProduct(Last(l), IF g.bits % 2 = 1 THEN LIMB_BASE \div 2 ELSE LIMB_BASE) >>

RangeCheckBaseOne(g, x, o, l) == RangeCheckEval(g, x, o, l)

\* Mutant: the last limb is always taken for a whole one.
RangeCheckAccumulate_EvenOnly(g, x, o, l) ==
    LET top == Recompose(Tail(l), LIMB_BASE)
    IN << IF Len(l) = 1 THEN Fp(l[1] - x[1]) ELSE Fp(top * LIMB_BASE + l[1] - x[1]) >>
         \o [j \in 1 .. Len(l) |-> RangeFactored(l[j])]

\* The input is subtracted in the last step of the sum, if there is one.
RangeCheckAccumulate(g, x, o, l) ==
    LET top == Recompose(Tail(l), LIMB_BASE)
    IN << IF Len(l) = 1 THEN Fp(l[1] - x[1]) ELSE Fp(top * LIMB_BASE + l[1] - x[1]) >>
         \o [j \in 1 .. Len(l) |-> IF j = Len(l) /\ g.bits % 2 = 1
                                   THEN Mul(l[j], l[j] - 1)
                                   ELSE RangeFactored(l[j])]

RangeCheckCircuit(g, x, o, l) ==
    LET acc(limb, n) == FoldLeft(LAMBDA a, v : Fp(Mul(a, limb) - v * a), 1,
                                 [v \in 1 .. n |-> v - 1])
    IN << Fp(Recompose(l, LIMB_BASE) - x[1]) >>
         \o [j \in 1 .. Len(l) |-> acc(l[j], IF j = Len(l) /\ g.bits % 2 = 1 THEN 2 ELSE 4)]

RangeCheckPacked(g, x, o, l) == RangeCheckEval(g, x, o, l)

RangeCheckRunOnce(g, x) == [o |-> << >>, l |-> Digits(x[1], LIMB_BASE, AuxLimbs(g))]

-----------------------------------------------------------------------------
(* ByteDecompositionGate: x1 is the sum of the bytes o, each made of g.aux    *)
(* limbs of two bits (four in the code).                                     *)

ByteBase(g) == LIMB_BASE^g.aux

BytesWires(g, i) ==
    [x |-> << i * (1 + g.bytes) >>,
     o |-> [k \in 1 .. g.bytes |-> i * (1 + g.bytes) + k],
     l |-> [j \in 1 .. g.aux * g.bytes |-> (1 + g.bytes) * g.ops + i * g.aux * g.bytes + j - 1]]

MAX_BYTE_CONSTRAINTS == 123

BytesConstraintCount(aux, bytes, ops) == ops * (aux * bytes + bytes + 1)

\* As many operations as fit the row, fewer while there are too many constraints.
BytesOps(config, aux, bytes) ==
    LET most == NumOps(config, 1 + bytes, aux * bytes)
        fits == {n \in 1 .. most : n = 1 \/ BytesConstraintCount(aux, bytes, n) <= MAX_BYTE_CONSTRAINTS}
    IN CHOOSE n \in fits : \A k \in fits : k <= n

ByteLimbs(g, l, k) == SubSeq(l, g.aux * (k - 1) + 1, g.aux * k)

BytesShape(g, x, o, l, Combine(_, _), Range4(_)) ==
    RangesUp(l, Range4)
      \o [k \in 1 .. g.bytes |-> Fp(Combine(ByteLimbs(g, l, k), LIMB_BASE) - o[k])]
      \o << Fp(Combine(o, ByteBase(g)) - x[1]) >>

BytesEval(g, x, o, l) == BytesShape(g, x, o, l, ReduceWithPowers, Product4)

BytesBaseBatch(g, x, o, l) == BytesShape(g, x, o, l, Recompose, RangeFactored)

BytesAccumulate(g, x, o, l) == BytesShape(g, x, o, l, Recompose, RangeFactored)

BytesCircuit(g, x, o, l) == BytesShape(g, x, o, l, Recompose, Product4)

BytesPacked(g, x, o, l) == BytesShape(g, x, o, l, ReduceWithPowers, Product4)

BytesRunOnce(g, x) ==
    [o |-> Digits(x[1], ByteBase(g), g.bytes), l |-> Digits(x[1], LIMB_BASE, g.aux * g.bytes)]

-----------------------------------------------------------------------------
(* U32InterleaveGate: o1 spreads the bits of x1 to the even positions.       *)
(* Bits are big-endian in this gate and in the two that undo it.             *)

InterleaveWires(g, i) == Packed(g.ops, i, 1, 2, g.bits)

InterleaveOps(config, bits) == NumOps(config, 2, bits)

BitRange(b) == RangeProduct(b, 2)

InterleaveEval(g, x, o, l) ==
    << Fp(ReduceWithPowers(Reverse(l), 2) - x[1]), Fp(ReduceWithPowers(Reverse(l), 4) - o[1]) >>
      \o RangesUp(l, BitRange)

InterleaveCircuit(g, x, o, l) ==
    << Fp(Recompose(Reverse(l), 2) - x[1]), Fp(Recompose(Reverse(l), 4) - o[1]) >>
      \o RangesUp(l, BitRange)

\* One pass over the bits with two accumulators, bit * (bit - 1) on the way.
InterleaveAccumulate(g, x, o, l) ==
    LET acc(base) == FoldLeft(LAMBDA a, b : Fp(Fp(a * base) + b), 0, l)
    IN << Fp(acc(2) - x[1]), Fp(acc(4) - o[1]) >> \o [j \in 1 .. Len(l) |-> Mul(l[j], l[j] - 1)]

InterleavePacked(g, x, o, l) == InterleaveEval(g, x, o, l)

InterleaveRunOnce(g, x) ==
    LET bits == Reverse(Digits(x[1], 2, g.bits))
    IN [o |-> << FoldLeft(LAMBDA a, b : 4 * a + b, 0, bits) >>, l |-> bits]

-----------------------------------------------------------------------------
(* UninterleaveToU32Gate and UninterleaveToB32Gate: o1 and o2 are the bits   *)
(* of x1 at even and odd places, as integers or still spread; o3 as o3 of    *)
(* the arithmetic gate, because the 2W bits of x1 must be canonical.         *)

UninterleaveU32Wires(g, i) == Packed(g.ops, i, 1, 4, 2 * g.bits)

UninterleaveB32Wires(g, i) == Packed(g.ops, i, 1, 4, 2 * g.bits)

UninterleaveOps(config, bits) == NumOps(config, 4, 2 * bits)

EveryOther(l, first) == [j \in 1 .. Len(l) \div 2 |-> l[2 * (j - 1) + first]]

\* Sum over j of base^(n - j) * bit j.
WithCoefficients(bits, base) ==
    FoldLeft(LAMBDA a, j : Fp(a + Mul(Fp(base^(Len(bits) - j)), bits[j])), 0,
             [j \in 1 .. Len(bits) |-> j])

UninterleaveShape(g, x, o, l, high, low, evens, odds) ==
    << HighNotMaxOrLowZero(g.bits, low, high, o[3]),
       Fp(Mul(high, 2^g.bits) + low - x[1]), Fp(evens - o[1]), Fp(odds - o[2]) >>
      \o RangesUp(l, BitRange)

UninterleaveEval(g, x, o, l, base) ==
    LET le == Reverse(l)
    IN UninterleaveShape(g, x, o, l,
         ReduceWithPowers(SubSeq(le, g.bits + 1, 2 * g.bits), 2),
         ReduceWithPowers(SubSeq(le, 1, g.bits), 2),
         WithCoefficients(EveryOther(l, 1), base), WithCoefficients(EveryOther(l, 2), base))

UninterleavePacked(g, x, o, l, base) ==
    LET horner(s) == FoldLeft(LAMBDA a, b : Fp(2 * a + b), 0, s)
    IN UninterleaveShape(g, x, o, l,
         horner(SubSeq(l, 1, g.bits)), horner(SubSeq(l, g.bits + 1, 2 * g.bits)),
         WithCoefficients(EveryOther(l, 1), base), WithCoefficients(EveryOther(l, 2), base))

UninterleaveU32Eval(g, x, o, l) == UninterleaveEval(g, x, o, l, 2)

UninterleaveU32Circuit(g, x, o, l) == UninterleaveEval(g, x, o, l, 2)

UninterleaveU32Packed(g, x, o, l) == UninterleavePacked(g, x, o, l, 2)

\* Four accumulators in one pass: by half and by parity of the place.
UninterleaveU32Accumulate(g, x, o, l) ==
    LET acc(S(_)) == FoldLeft(LAMBDA a, j : IF S(j) THEN Fp(2 * a + l[j]) ELSE a, 0,
                              [j \in 1 .. Len(l) |-> j])
    IN << HighNotMaxOrLowZero(g.bits, acc(LAMBDA j : j > g.bits), acc(LAMBDA j : j <= g.bits), o[3]),
          Fp(Mul(acc(LAMBDA j : j <= g.bits), 2^g.bits) + acc(LAMBDA j : j > g.bits) - x[1]),
          Fp(acc(LAMBDA j : j % 2 = 1) - o[1]), Fp(acc(LAMBDA j : j % 2 = 0) - o[2]) >>
         \o [j \in 1 .. Len(l) |-> Mul(l[j], l[j] - 1)]

UninterleaveRunOnce(g, x, base) ==
    LET bits == Reverse(Digits(x[1], 2, 2 * g.bits))
        diff == 2^g.bits - 1 - x[1] \div 2^g.bits
        sum(s) == FoldLeft(LAMBDA a, b : base * a + b, 0, s)
    IN [o |-> << Fp(sum(EveryOther(bits, 1))), Fp(sum(EveryOther(bits, 2))),
                 IF diff = 0 THEN 0 ELSE Inv(diff) >>,
        l |-> bits]

UninterleaveU32RunOnce(g, x) == UninterleaveRunOnce(g, x, 2)

UninterleaveB32Eval(g, x, o, l) == UninterleaveEval(g, x, o, l, 4)

UninterleaveB32Circuit(g, x, o, l) == UninterleaveEval(g, x, o, l, 4)

UninterleaveB32Packed(g, x, o, l) == UninterleavePacked(g, x, o, l, 4)

UninterleaveB32RunOnce(g, x) == UninterleaveRunOnce(g, x, 4)
=============================================================================
