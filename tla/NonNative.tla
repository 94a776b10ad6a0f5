----------------------------- MODULE NonNative -----------------------------
(***************************************************************************)
(* Arithmetic modulo another prime, the order of a curve's field: the      *)
(* prover writes the result and how often the order was taken out (the     *)
(* hint), the circuit checks the equation over big numbers.  Operands may  *)
(* be unreduced, results too; what is promised is a congruence.            *)
(***************************************************************************)
EXTENDS SignedNumbers

\* The order, a prime just below the limbs' range as those of the curves are.
ORDER == 2^U64 - 5

num_nonnative_limbs == (U64 + U32 - 1) \div U32

constant_nonnative(x) == ConstantLimbs(B32, x)

modulus == constant_nonnative(ORDER)

\* What the generators read: the operand reduced.
from_noncanonical_biguint(a) == get_biguint_target(B32, a) % ORDER

Number(n) == Digits(n, B32, num_nonnative_limbs)

HasInverse(x) == x % ORDER # 0

Inverse_(x) == CHOOSE y \in 1 .. ORDER - 1 : (x * y) % ORDER = 1

-----------------------------------------------------------------------------
(* Addition and subtraction.  A hint is a result and an overflow.            *)

NonNativeAdditionGenerator(a, b) ==
    LET sum == from_noncanonical_biguint(a) + from_noncanonical_biguint(b)
    IN IF sum > ORDER THEN << sum - ORDER, 1 >> ELSE << sum, 0 >>

add_nonnative(a, b, h) ==
    LET sum_actual == add_biguint(B32, Number(h[1]), mul_biguint_by_bool(modulus, h[2] = 1))
    IN Res(h[2] \in {0, 1} /\ connect_biguint(add_biguint(B32, a, b), sum_actual), Number(h[1]))

if_nonnative(b, x, y, h) ==
    add_nonnative(mul_biguint_by_bool(x, b), mul_biguint_by_bool(y, ~b), h)

NonNativeMultipleAddsGenerator(summands) ==
    LET sum == FoldLeft(LAMBDA acc, s : acc + from_noncanonical_biguint(s), 0, summands)
    IN << sum % ORDER, sum \div ORDER >>

\* The generator takes the first digit of the overflow, which a zero has not.
MultipleAddsPanics(summands) == NonNativeMultipleAddsGenerator(summands)[2] = 0

add_many_nonnative(to_add, h) ==
    LET sum_expected == FoldLeft(LAMBDA acc, s : add_biguint(B32, acc, s), << >>, to_add)
        sum_actual == add_biguint(B32, Number(h[1]), mul_biguint(B32, modulus, <<h[2]>>))
    IN IF Len(to_add) = 1 THEN Res(TRUE, to_add[1])
       ELSE Res(/\ h[2] < B32
                /\ connect_biguint(sum_expected, sum_actual)
                /\ is_lte_biguint(Number(h[1]), modulus), Number(h[1]))

NonNativeSubtractionGenerator(a, b) ==
    LET x == from_noncanonical_biguint(a)
        y == from_noncanonical_biguint(b)
    IN IF x >= y THEN << x - y, 0 >> ELSE << ORDER + x - y, 1 >>

sub_nonnative(a, b, h) ==
    LET reduced == sub_biguint(B32, add_biguint(B32, Number(h[1]), b), mul_biguint_by_bool(modulus, h[2] = 1))
    IN Res(h[2] \in {0, 1} /\ reduced.ok /\ connect_biguint(a, reduced.v), Number(h[1]))

neg_nonnative(x, h) == sub_nonnative(<< >>, x, h)

\* Both branches are computed, the unused one times zero.
EitherSign(neg, x, b, h) ==
    AndOk(neg.ok, add_nonnative(mul_biguint_by_bool(neg.v, b), mul_biguint_by_bool(x, ~b), h))

nonnative_conditional_neg(x, b, hneg, h) == EitherSign(neg_nonnative(x, hneg), x, b, h)

-----------------------------------------------------------------------------
(* Multiplication, division, inverses.                                       *)

NonNativeMultiplicationGenerator(a, b) ==
    LET prod == from_noncanonical_biguint(a) * from_noncanonical_biguint(b)
    IN << prod % ORDER, prod \div ORDER >>

mul_nonnative(a, b, h) ==
    LET overflow == Digits(h[2], B32, Len(a) + Len(b) - Len(modulus))
        prod_actual == add_biguint(B32, Number(h[1]), mul_biguint(B32, modulus, overflow))
    IN Res(/\ h[2] < B32^Len(overflow)
           /\ connect_biguint(mul_biguint(B32, a, b), prod_actual), Number(h[1]))

\* A hint is a quotient, an overflow and the side the overflow is added to.
NonNativeDivisionGenerator(a, b) ==
    LET x == get_biguint_target(B32, a)
        y == get_biguint_target(B32, b)
        div == (x * Inverse_(y)) % ORDER
    IN IF ~HasInverse(y) THEN << 0, 0, 0 >>
       ELSE IF y * div <= x THEN << div, (x - y * div) \div ORDER, 0 >>
       ELSE << div, (y * div - x) \div ORDER, 1 >>

div_nonnative(a, b, h) ==
    LET b_times_div == mul_biguint(B32, b, Number(h[1]))
        add_to_a == h[3] = 1
        rem_times_modulus == mul_biguint(B32, Digits(h[2], B32, Len(a)), modulus)
        lhs == select_biguint(add_to_a, b_times_div, a)
        rhs == add_biguint(B32, select_biguint(add_to_a, a, b_times_div), rem_times_modulus)
    IN Res(/\ h[2] < B32^Len(a)
           /\ connect_biguint(lhs, rhs), Number(h[1]))

\* Fails outright when d has no inverse.
NonNativeMulDivGenerator(a, b, d) ==
    LET x == from_noncanonical_biguint(a) * from_noncanonical_biguint(b)
        y == from_noncanonical_biguint(d)
        result == (x * Inverse_(y)) % ORDER
        rhs == y * result
    IN IF x > rhs THEN << result, (x - rhs) \div ORDER, 0 >> ELSE << result, (rhs - x) \div ORDER, 1 >>

mul_div_nonnative(a, b, d, h) ==
    LET lhs == mul_biguint(B32, a, b)
        rhs == mul_biguint(B32, d, Number(h[1]))
        mod_times_overflow == mul_biguint(B32, modulus, Digits(h[2], B32, num_nonnative_limbs))
        x == select_biguint(h[3] = 1, add_biguint(B32, lhs, mod_times_overflow), lhs)
        y == select_biguint(h[3] = 1, rhs, add_biguint(B32, rhs, mod_times_overflow))
    IN Res(h[2] < B32^num_nonnative_limbs /\ connect_biguint(x, y), Number(h[1]))

mul_many_nonnative(to_mul, hs) ==
    LET at[i \in 1 .. Len(to_mul)] ==
          IF i = 1 THEN Res(TRUE, to_mul[1])
          ELSE AndOk(at[i - 1].ok, mul_nonnative(at[i - 1].v, to_mul[i], hs[i - 1]))
    IN at[Len(to_mul)]

\* A hint is an inverse and a quotient; zeros when there is none.
NonNativeInverseGenerator(x) ==
    LET y == from_noncanonical_biguint(x)
    IN IF ~HasInverse(y) THEN << 0, 0 >> ELSE << Inverse_(y), (y * Inverse_(y)) \div ORDER >>

InverseEquation(cond, x, h) ==
    conditional_assert_eq_biguint(cond, mul_biguint(B32, x, Number(h[1])),
                                  add_biguint(B32, mul_biguint(B32, modulus, Number(h[2])), <<1>>))

inv_nonnative(x, h) == Res(InverseEquation(TRUE, x, h), Number(h[1]))

conditional_inv_nonnative(cond, x, h) == Res(InverseEquation(cond, x, h), Number(h[1]))

-----------------------------------------------------------------------------
\* x % ORDER, the quotient and the remainder being the hint.
RemainderOf(qr) == Res(qr.ok, qr.v[2])

reduce(x, h) == RemainderOf(div_rem_biguint(x, modulus, h, Len(x)))

split_nonnative_to_bits(x) == FlattenSeq([i \in DOMAIN x |-> Digits(x[i], 2, U32)])

split_nonnative_to_bytes(x) == FlattenSeq([i \in DOMAIN x |-> Digits(x[i], BYTE, 4)])
=============================================================================
