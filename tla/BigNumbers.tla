----------------------------- MODULE BigNumbers -----------------------------
(***************************************************************************)
(* Big numbers as circuits compute with them: limbs, least significant     *)
(* first, each below the base, and a sign in {-1, 0, 1}.  An operation     *)
(* yields a value and whether all it asserts holds; a hint is a value the  *)
(* prover chooses and the operation checks.  The numbers in 16-bit limbs   *)
(* are the same code again in base 2^U16.                                  *)
(***************************************************************************)
EXTENDS Words

B32 == 2^U32

B16 == 2^U16

Res(ok, v) == [ok |-> ok, v |-> v]

\* Limb i, or the zero that stands in for a missing one.
Limb(a, i) == IF i <= Len(a) THEN a[i] ELSE 0

Longer(a, b) == IF Len(a) > Len(b) THEN Len(a) ELSE Len(b)

Zeros(n) == [i \in 1 .. n |-> 0]

\* The number the limbs stand for: what get_biguint_target reads.
get_biguint_target(base, a) == FoldRight(LAMBDA limb, acc : acc * base + limb, a, 0)

set_biguint_target(base, value, n) == Digits(value, base, n)

ConstantLimbs(base, value) ==
    LET n == CHOOSE k \in 0 .. 8 : value < base^k /\ (k = 0 \/ value >= base^(k - 1))
    IN Digits(value, base, n)

-----------------------------------------------------------------------------
(* Conversions and tests.                                                    *)

biguint_to_target_safe(a) ==
    CASE Len(a) = 0 -> Res(TRUE, 0)
      [] Len(a) = 1 -> Res(TRUE, a[1])
      [] OTHER -> Res(/\ \A i \in 3 .. Len(a) : a[i] = 0
                      /\ Canonical(a[1], a[2]),
                      Fp(a[2] * B32 + a[1]))

biguint_to_target_unsafe(a) ==
    CASE Len(a) = 0 -> 0
      [] Len(a) = 1 -> a[1]
      [] OTHER -> Fp(a[2] * B32 + a[1])

connect_biguint(lhs, rhs) == \A i \in 1 .. Longer(lhs, rhs) : Limb(lhs, i) = Limb(rhs, i)

pad(a, n) == a \o Zeros(n - Len(a))

trim_biguint(a, n) == Res(\A i \in n + 1 .. Len(a) : a[i] = 0, SubSeq(a, 1, n))

try_trim_biguint(a, n) == << \A i \in n + 1 .. Len(a) : a[i] = 0, SubSeq(a, 1, n) >>

select_biguint(cond, a, b) == IF cond THEN pad(a, Longer(a, b)) ELSE pad(b, Longer(a, b))

is_zero_biguint(a) == \A i \in DOMAIN a : a[i] = 0

is_equal_biguint(lhs, rhs) == \A i \in 1 .. Longer(lhs, rhs) : Limb(lhs, i) = Limb(rhs, i)

\* bits bits, zeros above the number; a bit that does not fit is refused.
split_le_biguint(limbBits, a, bits) ==
    LET all == FlattenSeq([i \in DOMAIN a |-> Digits(a[i], 2, limbBits)])
    IN IF bits > limbBits * Len(a) THEN Res(TRUE, all \o Zeros(bits - Len(all)))
       ELSE Res(\A k \in bits + 1 .. Len(all) : all[k] = 0, SubSeq(all, 1, bits))

\* Chunks of n digits, the last one shorter.
Chunks(s, n) ==
    [i \in 1 .. (Len(s) + n - 1) \div n |->
       SubSeq(s, (i - 1) * n + 1, IF i * n > Len(s) THEN Len(s) ELSE i * n)]

le_sum_biguint(limbBits, bits) ==
    LET chunks == Chunks(bits, limbBits) IN [i \in DOMAIN chunks |-> Recompose(chunks[i], 2)]

BYTE == 2^(HALF_BITS \div 4)          \* four bytes make a limb

le_sum_bytes_biguint(bytes) ==
    LET chunks == Chunks(bytes, 4) IN [i \in DOMAIN chunks |-> Recompose(chunks[i], BYTE)]

biguint_from_bytes_be(bytes) ==
    LET limbs == (Len(bytes) + 3) \div 4
        padded == Zeros(limbs * 4 - Len(bytes)) \o bytes
        chunks == Chunks(Reverse(padded), 4)
    IN [i \in 1 .. limbs |-> Recompose(chunks[i], BYTE)]

\* The limb that is only partly in range gets a range check of its own.
range_check_biguint(limbBits, a, bits) ==
    LET limb == (bits + limbBits - 1) \div limbBits
    IN /\ \A i \in limb + 1 .. Len(a) : a[i] = 0
       /\ bits % limbBits # 0 /\ limb <= Len(a) => a[limb] < 2^(bits % limbBits)

random_access_biguint(index, v, n) == [i \in 1 .. n |-> Limb(v[index], i)]

\* Limb by limb in the field: no number in between, but z = w + (x - y) works.
biguint_vector_diff(new, old) == [i \in DOMAIN new |-> Fp(new[i] - old[i])]

biguint_vector_sum(cond, diff, old) == [i \in DOMAIN diff |-> Fp((IF cond THEN diff[i] ELSE 0) + old[i])]

-----------------------------------------------------------------------------
(* Addition, subtraction and multiplication.                                 *)

\* n limbs of the sum of the columns, and the carry out of the last.
Carry(base, limbs, total) == [limbs |-> Append(limbs, total % base), carry |-> total \div base]

Columns(base, Column(_), n) ==
    LET at[i \in 0 .. n] ==
          IF i = 0 THEN [limbs |-> << >>, carry |-> 0]
          ELSE Carry(base, at[i - 1].limbs, Column(i) + at[i - 1].carry)
    IN at[n]

WithCarry(r) == Append(r.limbs, r.carry)

WithoutCarry(r) == Res(r.carry = 0, r.limbs)

SumOf(base, a, b, n) == Columns(base, LAMBDA i : Limb(a, i) + Limb(b, i), n)

add_biguint(base, a, b) == WithCarry(SumOf(base, a, b, Longer(a, b)))

add_biguint_non_carry(base, a, b, n) == WithoutCarry(SumOf(base, a, b, n))

\* At most MaxAddends - 1 numbers and a carry enter one gate, so the numbers are
\* summed in groups, and the sums again, each in n limbs.
GroupSize == 2^LOG2_MAX_NUM_ADDENDS(U32) - 1

add_group(numbers, n) ==
    WithoutCarry(Columns(B32, LAMBDA i : FoldLeft(LAMBDA acc, t : acc + Limb(t, i), 0, numbers), n))

All(ok, results) == Res(ok /\ \A i \in DOMAIN results : results[i].ok, [i \in DOMAIN results |-> results[i].v])

add_groups(groups, ok, n) == All(ok, [i \in DOMAIN groups |-> add_group(groups[i], n)])

add_biguint_multiple(numbers, n) ==
    LET First(r) == Res(r.ok, r.v[1])
        round[k \in 0 .. 3] ==
          IF k = 0 THEN Res(TRUE, numbers)
          ELSE IF Len(round[k - 1].v) = 1 THEN round[k - 1]
          ELSE add_groups(Chunks(round[k - 1].v, GroupSize), round[k - 1].ok, n)
    IN First(round[3])

\* a - b with the borrow out of the last limb.
Borrow(base, limbs, d) == << Append(limbs, d % base), IF d < 0 THEN 1 ELSE 0 >>

try_sub_biguint(base, a, b) ==
    LET at[i \in 0 .. Longer(a, b)] ==
          IF i = 0 THEN << << >>, 0 >>
          ELSE Borrow(base, at[i - 1][1], Limb(a, i) - Limb(b, i) - at[i - 1][2])
    IN at[Longer(a, b)]

WithoutBorrow(r) == Res(r[2] = 0, r[1])

sub_biguint(base, a, b) == WithoutBorrow(try_sub_biguint(base, a, b))

\* The low words of the products at i + j, the high ones one place up.
ProductColumn(base, a, b, k) ==
    LET Term(i, j) ==
          (IF i + j - 1 = k THEN (a[i] * b[j]) % base ELSE 0)
          + (IF i + j = k THEN (a[i] * b[j]) \div base ELSE 0)
    IN FoldLeft(LAMBDA acc, i : acc + FoldLeft(LAMBDA sum, j : sum + Term(i, j), 0, [j \in DOMAIN b |-> j]),
                0, [i \in DOMAIN a |-> i])

ProductOf(base, a, b) ==
    Columns(base, LAMBDA k : ProductColumn(base, a, b, k), Len(a) + Len(b))

mul_biguint(base, a, b) == WithCarry(ProductOf(base, a, b))

KeepLimbs(r, n) ==
    LET kept == IF n < Len(r.limbs) THEN n ELSE Len(r.limbs)
    IN Res(r.carry = 0 /\ \A i \in kept + 1 .. Len(r.limbs) : r.limbs[i] = 0,
           SubSeq(r.limbs, 1, kept))

mul_biguint_non_carry(base, a, b, n) == KeepLimbs(ProductOf(base, a, b), n)

mul_biguint_by_bool(a, b) == [i \in DOMAIN a |-> IF b THEN a[i] ELSE 0]

mul_add_biguint(x, y, z) == add_biguint(B32, mul_biguint(B32, x, y), z)

AndOk(ok, r) == Res(ok /\ r.ok, r.v)

mul_many_biguint_non_carry(numbers, n) ==
    FoldLeft(LAMBDA acc, t : AndOk(acc.ok, mul_biguint_non_carry(B32, acc.v, t, n)),
             Res(TRUE, numbers[1]), Tail(numbers))

-----------------------------------------------------------------------------
(* Comparison and division.                                                  *)

Bit(b) == IF b THEN 1 ELSE 0

cmp_biguint(a, b) == try_sub_biguint(B32, b, a)[2] - try_sub_biguint(B32, a, b)[2]

is_lte_biguint(a, b) == try_sub_biguint(B32, b, a)[2] = 0

is_gte_biguint(a, b) == is_lte_biguint(b, a)

is_lt_biguint(a, b) == ~is_gte_biguint(a, b)

is_gt_biguint(a, b) == ~is_lte_biguint(a, b)

max_biguint_multiple(numbers) ==
    FoldLeft(LAMBDA max, t : select_biguint(is_lte_biguint(max, t), t, max), numbers[1], Tail(numbers))

min_biguint_multiple(numbers) ==
    FoldLeft(LAMBDA min, t : select_biguint(is_lte_biguint(min, t), min, t), numbers[1], Tail(numbers))

conditional_assert_eq_biguint(cond, a, b) ==
    connect_biguint(select_biguint(cond, a, << >>), select_biguint(cond, b, << >>))

conditional_assert_lt_biguint(cond, a, b) == ~(cond /\ is_gte_biguint(a, b))

conditional_assert_zero_biguint(cond, a) == is_zero_biguint(mul_biguint_by_bool(a, cond))

\* The quotient has n limbs and the remainder as many as b.
div_rem_biguint_trimmed(a, b, div, rem) ==
    LET zero == is_zero_biguint(b)
    IN /\ conditional_assert_zero_biguint(zero, div)
       /\ conditional_assert_zero_biguint(zero, rem)
       /\ conditional_assert_eq_biguint(~zero, a, add_biguint(B32, mul_biguint(B32, div, b), rem))
       /\ conditional_assert_lt_biguint(~zero, rem, b)

\* A hint is a quotient and a remainder, as numbers.
BigUintDivRemGenerator(a, b) ==
    LET m == get_biguint_target(B32, a)
        d == get_biguint_target(B32, b)
    IN IF d = 0 THEN << 0, 0 >> ELSE << m \div d, m % d >>

DivHints(m, d, q) ==
    {h \in {<<q + k, m - (q + k) * d>> : k \in {-1, 0, 1}} \cup {<<0, 0>>, <<q, d>>} :
       h[1] \in 0 .. 2^U64 - 1 /\ h[2] \in 0 .. 2^U64 - 1}

div_rem_biguint(a, b, h, n) ==
    LET div == Digits(h[1], B32, n)
        rem == Digits(h[2], B32, Len(b))
    IN Res(div_rem_biguint_trimmed(a, b, div, rem), << div, rem >>)

RoundUp(qr) ==
    Res(qr.ok, select_biguint(is_zero_biguint(qr.v[2]), qr.v[1], add_biguint(B32, qr.v[1], <<1>>)))

ceil_div_biguint(a, b, h) == RoundUp(div_rem_biguint(a, b, h, Len(a)))
=============================================================================
