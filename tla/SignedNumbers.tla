--------------------------- MODULE SignedNumbers ---------------------------
(***************************************************************************)
(* Comparison by subtraction, signed field elements, big integers with a   *)
(* sign, and limbs that are left unnormalised.  A comparison has a set of  *)
(* results, one for each borrow that satisfies its gate: none when the     *)
(* operands are too far apart for the width it was given.                  *)
(***************************************************************************)
EXTENDS BigNumbers

cmp_bit_size_bucket(num_bits) ==
    CASE num_bits <= U16 -> U16
      [] num_bits > U16 /\ num_bits <= U32 -> U32
      [] num_bits > U32 /\ num_bits <= U48 -> U48
      [] OTHER -> U64

Borrows(bits, x, y) == {b \in {0, 1} : Fp(x - y + b * 2^bits) < 2^bits}

target_to_biguint(x) == SplitToU32Generator(x)

is_lte(a, b, num_bits) ==
    IF num_bits <= U48 THEN {gt = 0 : gt \in Borrows(cmp_bit_size_bucket(num_bits), b, a)}
    ELSE {is_lte_biguint(target_to_biguint(a), target_to_biguint(b))}

cmp(a, b, num_bits) ==
    IF num_bits <= U48
    THEN {gt - lt : gt \in Borrows(cmp_bit_size_bucket(num_bits), b, a),
                    lt \in Borrows(cmp_bit_size_bucket(num_bits), a, b)}
    ELSE {cmp_biguint(target_to_biguint(a), target_to_biguint(b))}

\* The cache is asked for the operands only: what the first call was told
\* about their width decides for the later ones.
SecondCall(first, second) == first

is_lt(a, b, num_bits) == {~gte : gte \in is_lte(b, a, num_bits)}

is_gt(a, b, num_bits) == {~lte : lte \in is_lte(a, b, num_bits)}

conditional_assert_lte(cond, a, b, num_bits) == \E lte \in is_lte(a, b, num_bits) : ~(cond /\ ~lte)

conditional_assert_lt(cond, a, b, num_bits) == \E gte \in is_lte(b, a, num_bits) : ~(cond /\ gte)

Only(results) == CHOOSE r \in results : TRUE

min(targets, max_bits) ==
    FoldLeft(LAMBDA m, t : IF Only(is_lte(t, m, max_bits)) THEN t ELSE m, targets[1], Tail(targets))

max(targets, max_bits) ==
    FoldLeft(LAMBDA m, t : IF Only(is_lte(m, t, max_bits)) THEN t ELSE m, targets[1], Tail(targets))

median3(a, b, c, num_bits) ==
    Fp(Fp(a + b + c) - Fp(max(<<a, b, c>>, num_bits) + min(<<a, b, c>>, num_bits)))

-----------------------------------------------------------------------------
(* Field elements with a sign: the upper part of the field is negative.      *)

POSITIVE_THRESHOLD_BIT == U64 - 2

sign(s) ==
    LET lte == Only(is_lte(s, 2^POSITIVE_THRESHOLD_BIT - 1, U64 - 1))
    IN (2 * Bit(lte) - 1) * Bit(s # 0)

Magnitude(s, sg) == << Fp(sg * s), sg >>

abs(s) == Magnitude(s, sign(s))

conditional_assert_lte_signed_special(cond, s, b, num_bits) ==
    \E a \in {abs(s)} : \E gt \in is_gt(a[1], b, num_bits) : ~(cond /\ gt /\ a[2] = 1)

range_check_signed(s, bits) == abs(s)[1] < 2^bits

\* What the witness reads and writes.
get_signed_target(s) == IF s >= 2^POSITIVE_THRESHOLD_BIT THEN s - P ELSE s

set_signed_target(value) == Fp(value)

-----------------------------------------------------------------------------
(* Big integers.                                                             *)

BigInt(abs_, sign_) == [abs |-> abs_, sign |-> sign_]

get_bigint_target(base, a) == a.sign * get_biguint_target(base, a.abs)

set_bigint_target(base, value, n) ==
    BigInt(set_biguint_target(base, IF value < 0 THEN -value ELSE value, n),
           CASE value > 0 -> 1 [] value = 0 -> 0 [] value < 0 -> -1)

assert_sign(s) == Fp(s * s * s) = Fp(s)

\* A free integer has the sign 0 exactly when its limbs are zero.
add_virtual_bigint_target_safe(a) ==
    assert_sign(a.sign) /\ (is_zero_biguint(a.abs) <=> a.sign = 0)

\* As a public input it may have a sign without a value.
add_virtual_bigint_public_input_safe(a) == assert_sign(a.sign)

is_equal_bigint(a, b) == is_equal_biguint(a.abs, b.abs) /\ a.sign = b.sign

is_zero_bigint(a) == a.sign = 0 /\ is_zero_biguint(a.abs)

select_bigint(cond, a, b) ==
    BigInt(select_biguint(cond, a.abs, b.abs), IF cond THEN a.sign ELSE b.sign)

Difference(ab, ba) == BigInt(select_biguint(ba[2] = 1, ab[1], ba[1]), ba[2] - ab[2])

abs_diff(base, a, b) ==
    Difference(try_sub_biguint(base, a.abs, b.abs), try_sub_biguint(base, b.abs, a.abs))

\* Equal signs subtract the limbs, others add them; a zero minuend takes the
\* subtrahend's sign, turned round.
WithSign(r, sg) == Res(r.ok, BigInt(r.v, sg))

trim_bigint(a, n) == WithSign(trim_biguint(a.abs, n), a.sign)

FlipIf(a, sg) == BigInt(a.abs, sg * a.sign)

sub_bigint_non_carry(base, a, b, n) ==
    trim_bigint(select_bigint(a.sign = b.sign, FlipIf(abs_diff(base, a, b), a.sign),
                              BigInt(add_biguint(base, a.abs, b.abs),
                                     a.sign - (1 - a.sign * a.sign) * b.sign)), n)

neg_bigint(a) == BigInt(a.abs, -a.sign)

add_bigint_non_carry(base, a, b, n) == sub_bigint_non_carry(base, a, neg_bigint(b), n)

sub_bigint(a, b) == sub_bigint_non_carry(B32, a, b, Longer(a.abs, b.abs) + 1)

mul_bigint_with_biguint_non_carry(a, b, n) ==
    WithSign(mul_biguint_non_carry(B32, a.abs, b, n), IF is_zero_biguint(b) THEN 0 ELSE a.sign)

mul_bigint_by_bool(a, b) == BigInt(mul_biguint_by_bool(a.abs, b), a.sign * Bit(b))

FromMagnitude(m) == BigInt(target_to_biguint(m[1]), m[2])

signed_target_to_bigint(s) == FromMagnitude(abs(s))

TimesSign(t, sg) == Res(t.ok, Fp(t.v * sg))

bigint_to_signed_target_unsafe(a) == TimesSign(biguint_to_target_safe(a.abs), a.sign)

\* Later cases override earlier ones.
cmp_bigint(a, b) ==
    LET r == cmp_biguint(a.abs, b.abs)
    IN CASE a.sign = 1 /\ b.sign # 1 -> 1
         [] a.sign = 0 -> -b.sign
         [] a.sign = -1 /\ b.sign # -1 -> -1
         [] a.sign = -1 /\ b.sign = -1 -> -r
         [] OTHER -> r

\* Two negative numbers turn the answer round, which equality then puts right.
is_lte_bigint(a, b) ==
    LET lte == is_lte_biguint(a.abs, b.abs)
    IN \/ is_equal_bigint(a, b)
       \/ a.sign = -1 /\ b.sign # -1
       \/ a.sign = -1 /\ b.sign = -1 /\ ~lte
       \/ a.sign # -1 /\ b.sign # -1 /\ lte

biguint_to_bigint(a) == BigInt(a, 1 - Bit(is_zero_biguint(a)))

bigint_vector_diff(new, old) ==
    BigInt(biguint_vector_diff(new.abs, old.abs), Fp(new.sign - old.sign))

bigint_vector_sum(cond, diff, old) ==
    BigInt(biguint_vector_sum(cond, diff.abs, old.abs), Fp(Bit(cond) * diff.sign + old.sign))

\* The division rounds towards minus infinity.
NonZeroSign(r, sg) == WithSign(r, IF is_zero_biguint(r.v) THEN 0 ELSE sg)

AwayFromZero(qr, up, n) ==
    AndOk(qr.ok, add_biguint_non_carry(B32, qr.v[1], <<Bit(up /\ ~is_zero_biguint(qr.v[2]))>>, n))

euclidian_div_by_biguint(a, b, h, n) ==
    NonZeroSign(AwayFromZero(div_rem_biguint(a.abs, b, h, Len(a.abs)), a.sign = -1, n), a.sign)

-----------------------------------------------------------------------------
(* Limbs that are sums and products in the field, brought back at the end.   *)

add_unsafe_big(a, b) == [i \in DOMAIN a |-> Fp(a[i] + b[i])]

mul_add_unsafe_big(a, c, b) == [i \in DOMAIN a |-> Fp(Mul(a[i], c) + b[i])]

mul_unsafe_big(a, b, n) ==
    [k \in 1 .. n |->
       FoldLeft(LAMBDA acc, i : Fp(acc + IF k + 1 - i \in DOMAIN b THEN Mul(a[i], b[k + 1 - i]) ELSE 0),
                0, [i \in DOMAIN a |-> i])]

sub_bigint_u16_unsafe(a, b) ==
    [i \in DOMAIN a.abs |-> Fp(a.abs[i] * a.sign - b.abs[i] * b.sign)]

mul_bigint_u16_and_target_unsafe(a, t) == [i \in DOMAIN a.abs |-> Mul(a.abs[i], Fp(t * a.sign))]

SplitStep(limbs, split) == [limbs |-> Append(limbs, split[1]), carry |-> split[2]]

unsafe_big32_to_biguint(a, n) ==
    LET at[i \in 0 .. n] ==
          IF i = 0 THEN [limbs |-> << >>, carry |-> 0]
          ELSE SplitStep(at[i - 1].limbs, SplitToU32Generator(Fp(at[i - 1].carry + Limb(a, i))))
    IN WithoutCarry(at[n])

\* Each limb with the carry below it is taken apart as a magnitude and a sign:
\* a negative one leaves 2^16 - low and carries its high part and one more.
SignedStep(limbs, words, neg) ==
    [limbs |-> Append(limbs, IF neg THEN B16 - words[1] ELSE words[1]),
     carry |-> IF neg THEN Fp(-(Recompose(Tail(words), B16) + 1)) ELSE Recompose(Tail(words), B16)]

MagnitudeStep(limbs, m) == SignedStep(limbs, SplitToU16Generator(m[1], 4), m[2] = -1)

SignedCarries(a, n) ==
    LET at[i \in 0 .. n] ==
          IF i = 0 THEN [limbs |-> << >>, carry |-> 0]
          ELSE MagnitudeStep(at[i - 1].limbs, abs(Fp(at[i - 1].carry + Limb(a, i))))
    IN at[n]

\* For a negative value the limbs are complemented and one is added.
FullStep(limbs, v) == [limbs |-> Append(limbs, IF v = B16 THEN 0 ELSE v), carry |-> Bit(v = B16)]

ComplementLimbs(limbs, neg) ==
    LET at[i \in 0 .. Len(limbs)] ==
          IF i = 0 THEN [limbs |-> << >>, carry |-> Bit(neg)]
          ELSE FullStep(at[i - 1].limbs,
                        Fp((IF neg THEN B16 - 1 - limbs[i] ELSE limbs[i]) + at[i - 1].carry))
    IN at[Len(limbs)].limbs

PairWords(words, n) == [i \in 1 .. n |-> Fp(words[2 * i] * B16 + words[2 * i - 1])]

SignedBy(neg, limbs) ==
    BigInt(limbs, CASE neg -> -1 [] ~neg /\ is_zero_biguint(limbs) -> 0 [] OTHER -> 1)

Normalize(r, n) ==
    Res(r.carry \in {0, P - 1},
        SignedBy(r.carry = P - 1, PairWords(ComplementLimbs(r.limbs, r.carry = P - 1), n)))

unsafe_big16_to_bigint(a, n) == Normalize(SignedCarries(a, 2 * n), n)
-----------------------------------------------------------------------------
(* Big numbers in 16-bit limbs, which the code writes out a second time;   *)
(* only the test for equality and the conversions are its own.             *)
constant_biguint_u16(value) == ConstantLimbs(B16, value)

connect_biguint_u16(a, b) == connect_biguint(a, b)

trim_biguint_u16(a, n) == trim_biguint(a, n)

try_trim_biguint_u16(a, n) == try_trim_biguint(a, n)

select_biguint_u16(cond, a, b) == select_biguint(cond, a, b)

is_zero_biguint_u16(a) == is_zero_biguint(a)

\* Squares of the common limbs' differences and the other limbs, summed up in
\* the field: zero only if every term is.
is_equal_biguint_u16(lhs, rhs) ==
    LET common == IF Len(lhs) < Len(rhs) THEN Len(lhs) ELSE Len(rhs)
        Term(i) == IF i <= common THEN (lhs[i] - rhs[i]) * (lhs[i] - rhs[i])
                   ELSE Limb(lhs, i) + Limb(rhs, i)
    IN FoldLeft(LAMBDA acc, i : Fp(acc + Term(i)), 0, [i \in 1 .. Longer(lhs, rhs) |-> i]) = 0

add_biguint_u16(a, b) == add_biguint(B16, a, b)

add_biguint_u16_non_carry(a, b, n) == add_biguint_non_carry(B16, a, b, n)

try_sub_biguint_u16(a, b) == try_sub_biguint(B16, a, b)

sub_biguint_u16(a, b) == sub_biguint(B16, a, b)

mul_biguint_u16(a, b) == mul_biguint(B16, a, b)

mul_biguint_u16_non_carry(a, b, n) == mul_biguint_non_carry(B16, a, b, n)

split_le_biguint_u16(a, bits) == split_le_biguint(U16, a, bits)

le_sum_biguint_u16(bits) == le_sum_biguint(U16, bits)

range_check_biguint_u16(a, bits) == range_check_biguint(U16, a, bits)

random_access_biguint_u16(index, v, n) == random_access_biguint(index, v, n)

target_to_biguint_u16(x, n) == SplitToU16Generator(x, n)

\* Pairs of limbs, a missing last one being zero.
biguint_u16_to_biguint(a) ==
    [i \in 1 .. (Len(a) + 1) \div 2 |-> Fp(Limb(a, 2 * i) * B16 + a[2 * i - 1])]

biguint_u16_to_target(a) == Fp(FoldRight(LAMBDA limb, acc : Fp(acc * B16 + limb), a, 0))

-----------------------------------------------------------------------------
add_virtual_bigint_u16_target_safe(a) ==
    assert_sign(a.sign) /\ (is_zero_biguint_u16(a.abs) <=> a.sign = 0)

is_equal_bigint_u16(a, b) == is_equal_biguint_u16(a.abs, b.abs) /\ a.sign = b.sign

is_zero_bigint_u16(a) == a.sign = 0 /\ is_zero_biguint_u16(a.abs)

select_bigint_u16(cond, a, b) ==
    BigInt(select_biguint_u16(cond, a.abs, b.abs), IF cond THEN a.sign ELSE b.sign)

abs_diff_u16(a, b) == abs_diff(B16, a, b)

sub_bigint_u16_non_carry(a, b, n) == sub_bigint_non_carry(B16, a, b, n)

add_bigint_u16_non_carry(a, b, n) == sub_bigint_u16_non_carry(a, BigInt(b.abs, -b.sign), n)

bigint_u16_to_bigint(a) == BigInt(biguint_u16_to_biguint(a.abs), a.sign)

FromMagnitude_u16(m, n) == BigInt(target_to_biguint_u16(m[1], n), m[2])

signed_target_to_bigint_u16(s, n) == FromMagnitude_u16(abs(s), n)

bigint_u16_vector_diff(new, old) == bigint_vector_diff(new, old)

bigint_u16_vector_sum(cond, diff, old) == bigint_vector_sum(cond, diff, old)

random_access_bigint_u16(index, v, n) ==
    BigInt(random_access_biguint_u16(index, [i \in DOMAIN v |-> v[i].abs], n), v[index].sign)

get_bigint_u16_target(a) == get_bigint_target(B16, a)

set_bigint_u16_target(value, n) == set_bigint_target(B16, value, n)
=============================================================================
