----------------------------- MODULE UintGates -----------------------------
(***************************************************************************)
(* The custom gates for fixed-width integers.  A gate is a record: its     *)
(* kind, its width in bits and how many operations fit in a row.  For each *)
(* gate there is                                                           *)
(*   - the layout of operation i: columns of its inputs x, outputs o and   *)
(*     limbs l (the wires the generator fills and nobody routes);          *)
(*   - the constraints, once per evaluator of the code.  The verifier uses *)
(*     eval_unfiltered, the recursive verifier eval_unfiltered_circuit and *)
(*     the prover the packed, batched or accumulating forms;               *)
(*   - what its generator, run_once, writes.                               *)
(*                                                                         *)
(* First the prime field and the small polynomials over it that every gate *)
(* is built from.  The field of the circuits has p = 2^64 - 2^32 + 1: with *)
(* W = HALF_BITS it is p = 2^(2W) - 2^W + 1, and that shape is what the    *)
(* gates rely on (a pair of W-bit halves is not a unique representation).  *)
(* TLC uses W = 4, p = 241, so that a "u32" has four bits.                 *)
(***************************************************************************)
EXTENDS Integers, Sequences

\* Only what is cheap to evaluate; folds are recursive functions below.
LOCAL SeqExt == INSTANCE SequencesExt

Reverse(s) == SeqExt!Reverse(s)

FlattenSeq(s) == SeqExt!FlattenSeq(s)

Last(s) == s[Len(s)]

CONSTANT HALF_BITS          \* bits of a u32: half of the field's width

ASSUME HalfBitsAssumption == HALF_BITS \in Nat \ {0} /\ HALF_BITS % 2 = 0

P == 2^(2 * HALF_BITS) - 2^HALF_BITS + 1

Field == 0 .. P - 1

\* Every expression of a gate is reduced before it can leave TLC's integers.
Fp(x) == x % P

Mul(a, b) == Fp(Fp(a) * Fp(b))

Inv(a) == CHOOSE b \in Field : Mul(a, b) = 1

\* op(... op(op(base, s[1]), s[2]) ..., s[n]), and the same from the other end.
FoldLeft(op(_, _), base, s) ==
    LET f[i \in 0 .. Len(s)] == IF i = 0 THEN base ELSE op(f[i - 1], s[i]) IN f[Len(s)]

FoldRight(op(_, _), s, base) ==
    LET f[i \in 1 .. Len(s) + 1] == IF i > Len(s) THEN base ELSE op(s[i], f[i + 1]) IN f[1]

\* Horner from the most significant digit, `combined * base + limb'.
Recompose(digits, base) ==
    FoldRight(LAMBDA d, acc : Fp(Fp(acc * base) + d), digits, 0)

\* The same sum, by powers: reduce_with_powers of the verifier.
ReduceWithPowers(digits, base) ==
    FoldLeft(LAMBDA acc, i : Fp(acc + Mul(digits[i], base^(i - 1))), 0,
             [i \in 1 .. Len(digits) |-> i])

\* The first n base-b digits of x, least significant first.
Digits(x, base, n) == [i \in 1 .. n |-> (x \div base^(i - 1)) % base]

\* prod over v < n of (x - v): zero exactly on 0 .. n - 1.
RangeProduct(x, n) ==
    FoldLeft(LAMBDA acc, v : Mul(acc, x - v), 1, [v \in 1 .. n |-> v - 1])

\* The batched evaluators factor the product for n = 4: y(y + 2), y = x(x - 3).
RangeFactored(x) == LET y == Mul(x, x - 3) IN Mul(y, y + 2)

\* Range constraints of the limbs, from the last limb to the first.
RangesDown(limbs, Range4(_)) == Reverse([j \in 1 .. Len(limbs) |-> Range4(limbs[j])])

RangesUp(limbs, Range4(_)) == [j \in 1 .. Len(limbs) |-> Range4(limbs[j])]

Product4(x) == RangeProduct(x, 4)

-----------------------------------------------------------------------------
(* Layouts.                                                                *)

LIMB_BITS == 2

LIMB_BASE == 4

Limbs(bits) == bits \div LIMB_BITS

\* Operations that fit in a row of `wires' columns, `routed' of them routed.
NumOps(config, routed, advice) ==
    IF config.wires \div (routed + advice) <= config.routed \div routed
    THEN config.wires \div (routed + advice)
    ELSE config.routed \div routed

\* Columns of an operation whose routed wires come first, nIn of them inputs,
\* with the limbs of all operations behind the routed wires of all of them.
Packed(ops, i, nIn, routed, advice) ==
    [x |-> [k \in 1 .. nIn |-> routed * i + k - 1],
     o |-> [k \in 1 .. routed - nIn |-> routed * i + nIn + k - 1],
     l |-> [j \in 1 .. advice |-> routed * ops + advice * i + j - 1]]

-----------------------------------------------------------------------------
(* U32ArithmeticGate: x1 * x2 + x3 = o2 * 2^W + o1, o3 shows o2 canonical.  *)

ArithmeticU32Wires(g, i) == Packed(g.ops, i, 3, 6, Limbs(2 * g.bits))

ArithmeticU32Ops(config, bits) == NumOps(config, 6, Limbs(2 * bits))

\* Mutant: the constraint is forgotten, a result may wrap around the field.
HighNotMaxOrLowZero_Dropped(bits, low, high, inverse) == 0

\* Either the high half is not the largest or the low half is zero.
HighNotMaxOrLowZero(bits, low, high, inverse) ==
    Mul(Mul(inverse, 2^bits - 1 - high) - 1, low)

ArithmeticHalves(g, x, o) == Fp(Mul(o[2], 2^g.bits) + o[1] - (Mul(x[1], x[2]) + x[3]))

LowHalf(g, l) == Recompose(SubSeq(l, 1, Limbs(g.bits)), LIMB_BASE)

HighHalf(g, l) == Recompose(SubSeq(l, Limbs(g.bits) + 1, Len(l)), LIMB_BASE)

\* The two halves, collected while one loop runs over all limbs downwards.
SplitLoop(g, l) ==
    FoldRight(LAMBDA j, acc :
                IF j <= Limbs(g.bits)
                THEN [acc EXCEPT !.low = Fp(Fp(@ * LIMB_BASE) + l[j])]
                ELSE [acc EXCEPT !.high = Fp(Fp(@ * LIMB_BASE) + l[j])],
              [j \in 1 .. Len(l) |-> j], [low |-> 0, high |-> 0])

ArithmeticU32Eval(g, x, o, l) ==
    LET c == SplitLoop(g, l)
    IN << HighNotMaxOrLowZero(g.bits, o[1], o[2], o[3]), ArithmeticHalves(g, x, o) >>
         \o RangesDown(l, Product4)
         \o << Fp(c.low - o[1]), Fp(c.high - o[2]) >>

ArithmeticU32BaseBatch(g, x, o, l) ==
    LET c == SplitLoop(g, l)
    IN << HighNotMaxOrLowZero(g.bits, o[1], o[2], o[3]), ArithmeticHalves(g, x, o) >>
         \o RangesDown(l, RangeFactored)
         \o << Fp(c.low - o[1]), Fp(c.high - o[2]) >>

\* The accumulating form walks the two groups of limbs after the ranges.
ArithmeticU32Accumulate(g, x, o, l) ==
    << HighNotMaxOrLowZero(g.bits, o[1], o[2], o[3]), ArithmeticHalves(g, x, o) >>
      \o RangesDown(l, RangeFactored)
      \o << Fp(LowHalf(g, l) - o[1]), Fp(HighHalf(g, l) - o[2]) >>

ArithmeticU32Circuit(g, x, o, l) == ArithmeticU32Eval(g, x, o, l)

ArithmeticU32Packed(g, x, o, l) == ArithmeticU32Eval(g, x, o, l)

\* Mutant: the constant is the square root of the right one.
INV_U32_MAX_Square(bits) == Fp(2^(2 * bits))

\* The inverse of u32::MAX is a constant of the code: 2^(4W) in the field.
INV_U32_MAX(bits) == Mul(Fp(2^(2 * bits)), Fp(2^(2 * bits)))

ArithmeticU32RunOnce(g, x) ==
    LET output == Fp(x[1] * x[2] + x[3])
        high   == output \div 2^g.bits
        diff   == 2^g.bits - 1 - high
    IN [o |-> << output % 2^g.bits, high,
                 CASE diff = 0 -> 0
                   [] diff = 2^g.bits - 1 -> INV_U32_MAX(g.bits)
                   [] OTHER -> Inv(diff) >>,
        l |-> Digits(output, LIMB_BASE, Limbs(2 * g.bits))]

-----------------------------------------------------------------------------
(* U16ArithmeticGate: the product of two u16 fits, so nothing but the halves *)
(* and their limbs is constrained.                                          *)

ArithmeticU16Wires(g, i) == Packed(g.ops, i, 3, 5, Limbs(2 * g.bits))

ArithmeticU16Ops(config, bits) == NumOps(config, 5, Limbs(2 * bits))

ArithmeticU16Eval(g, x, o, l) ==
    LET c == SplitLoop(g, l)
    IN << ArithmeticHalves(g, x, o) >> \o RangesDown(l, Product4)
         \o << Fp(c.low - o[1]), Fp(c.high - o[2]) >>

\* One reduction at the end: the limbs are summed as integers.
ArithmeticU16Accumulate(g, x, o, l) ==
    LET unreduced(s) == FoldRight(LAMBDA d, acc : acc * LIMB_BASE + d, s, 0)
    IN << ArithmeticHalves(g, x, o) >> \o RangesDown(l, RangeFactored)
         \o << Fp(unreduced(SubSeq(l, 1, Limbs(g.bits))) - o[1]),
               Fp(unreduced(SubSeq(l, Limbs(g.bits) + 1, Len(l))) - o[2]) >>

ArithmeticU16Circuit(g, x, o, l) == ArithmeticU16Eval(g, x, o, l)

ArithmeticU16Packed(g, x, o, l) == ArithmeticU16Eval(g, x, o, l)

ArithmeticU16RunOnce(g, x) ==
    LET output == Fp(x[1] * x[2] + x[3])
    IN [o |-> << output % 2^g.bits, output \div 2^g.bits >>,
        l |-> Digits(output, LIMB_BASE, Limbs(2 * g.bits))]

-----------------------------------------------------------------------------
(* U32AddManyGate, U16AddManyGate: sum of g.addends values and a carry.      *)

LOG2_MAX_NUM_ADDENDS(bits) == IF bits >= 16 THEN 4 ELSE 2

AddManyLimbs(bits) ==
    Limbs(bits) + (LOG2_MAX_NUM_ADDENDS(bits) + LIMB_BITS - 1) \div LIMB_BITS

AddManyU32Wires(g, i) == Packed(g.ops, i, g.addends + 1, g.addends + 3, AddManyLimbs(g.bits))

AddManyU16Wires(g, i) == Packed(g.ops, i, g.addends + 1, g.addends + 3, AddManyLimbs(g.bits))

AddManyOps(config, bits, addends) == NumOps(config, addends + 3, AddManyLimbs(bits))

Addends(g, x) == SubSeq(x, 1, g.addends)

FieldSum(start, s) == FoldLeft(LAMBDA acc, v : Fp(acc + v), start, s)

AddManyShape(g, o, l, sum, Range4(_)) ==
    << Fp(Mul(o[2], 2^g.bits) + o[1] - sum) >>
      \o RangesDown(l, Range4)
      \o << Fp(LowHalf(g, l) - o[1]), Fp(HighHalf(g, l) - o[2]) >>

AddManyU32Eval(g, x, o, l) ==
    AddManyShape(g, o, l, Fp(FieldSum(0, Addends(g, x)) + x[g.addends + 1]), Product4)

\* The batched forms start from the carry and add the addends to it.
AddManyU32BaseBatch(g, x, o, l) ==
    AddManyShape(g, o, l, FieldSum(x[g.addends + 1], Addends(g, x)), RangeFactored)

AddManyU32Accumulate(g, x, o, l) ==
    AddManyShape(g, o, l, FieldSum(x[g.addends + 1], Addends(g, x)), RangeFactored)

AddManyU32BaseOne(g, x, o, l) == AddManyU32Eval(g, x, o, l)

AddManyU32Circuit(g, x, o, l) ==
    AddManyShape(g, o, l, FieldSum(x[g.addends + 1], Addends(g, x)), Product4)

AddManyU32RunOnce(g, x) ==
    LET output == FieldSum(0, x)
        result == output % 2^g.bits
        carry  == output \div 2^g.bits
    IN [o |-> << result, carry >>,
        l |-> Digits(result, LIMB_BASE, Limbs(g.bits))
                \o Digits(carry, LIMB_BASE, AddManyLimbs(g.bits) - Limbs(g.bits))]

AddManyU16Eval(g, x, o, l) == AddManyU32Eval(g, x, o, l)

AddManyU16BaseBatch(g, x, o, l) == AddManyU32BaseBatch(g, x, o, l)

AddManyU16Accumulate(g, x, o, l) == AddManyU32Accumulate(g, x, o, l)

AddManyU16BaseOne(g, x, o, l) == AddManyU32BaseOne(g, x, o, l)

AddManyU16Circuit(g, x, o, l) == AddManyU32Circuit(g, x, o, l)

AddManyU16RunOnce(g, x) == AddManyU32RunOnce(g, x)

-----------------------------------------------------------------------------
(* U32/U16/U48SubtractionGate: x1 - x2 - x3 = o1 - 2^bits * o2.              *)

SubtractionU32Wires(g, i) == Packed(g.ops, i, 3, 5, Limbs(g.bits))

SubtractionU16Wires(g, i) == Packed(g.ops, i, 3, 5, Limbs(g.bits))

SubtractionU48Wires(g, i) == Packed(g.ops, i, 3, 5, Limbs(g.bits))

SubtractionOps(config, bits) == NumOps(config, 5, Limbs(bits))

SubtractionShape(g, x, o, l, Range4(_)) ==
    << Fp(o[1] - (x[1] - x[2] - x[3] + Mul(2^g.bits, o[2]))) >>
      \o RangesDown(l, Range4)
      \o << Fp(Recompose(l, LIMB_BASE) - o[1]), Mul(o[2], 1 - o[2]) >>

SubtractionU32Eval(g, x, o, l) == SubtractionShape(g, x, o, l, Product4)

SubtractionU32BaseBatch(g, x, o, l) == SubtractionShape(g, x, o, l, RangeFactored)

SubtractionU32Accumulate(g, x, o, l) == SubtractionShape(g, x, o, l, RangeFactored)

SubtractionU32Circuit(g, x, o, l) == SubtractionShape(g, x, o, l, Product4)

SubtractionU32Packed(g, x, o, l) == SubtractionShape(g, x, o, l, Product4)

\* A difference that wrapped around the field is larger than any without borrow.
SubtractionU32RunOnce(g, x) ==
    LET initial == Fp(x[1] - x[2] - x[3])
        borrow  == IF initial > 2^g.bits THEN 1 ELSE 0
        result  == Fp(initial + 2^g.bits * borrow)
    IN [o |-> << result, borrow >>, l |-> Digits(result, LIMB_BASE, Limbs(g.bits))]

SubtractionU16Eval(g, x, o, l) == SubtractionU32Eval(g, x, o, l)

SubtractionU16BaseBatch(g, x, o, l) == SubtractionU32BaseBatch(g, x, o, l)

SubtractionU16Accumulate(g, x, o, l) == SubtractionU32Accumulate(g, x, o, l)

SubtractionU16Circuit(g, x, o, l) == SubtractionU32Circuit(g, x, o, l)

SubtractionU16Packed(g, x, o, l) == SubtractionU32Packed(g, x, o, l)

SubtractionU16RunOnce(g, x) == SubtractionU32RunOnce(g, x)

SubtractionU48Eval(g, x, o, l) == SubtractionU32Eval(g, x, o, l)

SubtractionU48BaseBatch(g, x, o, l) == SubtractionU32BaseBatch(g, x, o, l)

SubtractionU48Accumulate(g, x, o, l) == SubtractionU32Accumulate(g, x, o, l)

SubtractionU48Circuit(g, x, o, l) == SubtractionU32Circuit(g, x, o, l)

SubtractionU48Packed(g, x, o, l) == SubtractionU32Packed(g, x, o, l)

SubtractionU48RunOnce(g, x) == SubtractionU32RunOnce(g, x)
=============================================================================
