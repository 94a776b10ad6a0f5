------------------------------ MODULE Gadgets ------------------------------
(***************************************************************************)
(* One call of one gadget: what it yields for its operands and a hint, and *)
(* what it should yield over the integers.  An outcome says whether all    *)
(* constraints hold (ok), whether an honest prover is promised that they   *)
(* do (legal), the result and the result that is right (got, want).        *)
(***************************************************************************)
EXTENDS NonNative

LOCAL INSTANCE FiniteSetsExt

Outcome(ok, legal, got, want) == [ok |-> ok, legal |-> legal, got |-> got, want |-> want]

Exactly(got, want) == Outcome(TRUE, TRUE, got, want)

\* An assertion: it may hold only when the condition does, and then can be met.
Asserts(ok, condition) == Outcome(ok, condition, condition, TRUE)

\* Operands are numbers; these are their limbs and the way back.
L(n) == Digits(n, B32, 2)

H(n) == Digits(n, B16, 2)

I(n) == set_bigint_target(B32, n, 2)

N(limbs) == get_biguint_target(B32, limbs)

NH(limbs) == get_biguint_target(B16, limbs)

NI(a) == get_bigint_target(B32, a)

Checked(res, legal, want) == Outcome(res.ok, legal, N(res.v), want)

CheckedInt(res, legal, want) == Outcome(res.ok, legal, NI(res.v), want)

\* A result that must be congruent to the right one.
Congruent(res, legal, want) == Outcome(res.ok, legal, N(res.v) % ORDER, want % ORDER)

Sgn(n) == CASE n < 0 -> -1 [] n = 0 -> 0 [] n > 0 -> 1

Floor(a, b) == IF a >= 0 THEN a \div b ELSE -((-a + b - 1) \div b)

-----------------------------------------------------------------------------
(* Words: the operands are wires, constants or not.                          *)

Words2(r) == << r[1].v, r[2].v >>

SplitIn(n, bits) == << n % 2^bits, n \div 2^bits >>

WordOutcome(op, x, y, z) ==
    CASE op = "mul_add_u32" -> Exactly(Words2(mul_add(U32, x, y, z)), SplitIn(x.v * y.v + z.v, U32))
      [] op = "adds_with_carry_u32" ->
           Exactly(Words2(adds_with_carry(U32, <<x, y>>, z)), SplitIn(x.v + y.v + z.v, U32))
      [] op = "add_many_u32" -> Exactly(Words2(add_many(U32, <<x, y, z>>)), SplitIn(x.v + y.v + z.v, U32))
      [] op = "sub_u32" ->
           Exactly(Words2(sub(U32, x, y, [z EXCEPT !.v = @ % 2])),
                   << (x.v - y.v - (z.v % 2)) % B32, Bit(x.v < y.v + (z.v % 2)) >>)
      [] op = "conditional_u32" -> Exactly(conditional_u32(x, y, z.v % 2).v, IF z.v % 2 = 1 THEN x.v ELSE y.v)

\* The same for words of 16 bits.
HalfWordOutcome(op, x, y, z) ==
    CASE op = "mul_add_u16" -> Exactly(Words2(mul_add_u16(x, y, z)), SplitIn(x.v * y.v + z.v, U16))
      [] op = "add_u16s_with_carry" ->
           Exactly(Words2(add_u16s_with_carry(<<x, y>>, z)), SplitIn(x.v + y.v + z.v, U16))
      [] op = "add_many_u16" -> Exactly(Words2(add_many_u16(<<x, y, z>>)), SplitIn(x.v + y.v + z.v, U16))
      [] op = "sub_u16" ->
           Exactly(Words2(sub_u16(x, y, [z EXCEPT !.v = @ % 2])),
                   << (x.v - y.v - (z.v % 2)) % B16, Bit(x.v < y.v + (z.v % 2)) >>)

\* Bits of a word, and of a field element: a is the word, b a second one or a
\* number of places, h the words a split is told.
BitsOutcome(op, a, b, h) ==
    CASE op = "not_u32" -> Exactly(not_u32(Var(a % B32)).v, B32 - 1 - (a % B32))
      [] op = "lsh_u32" -> Exactly(lsh_u32(Var(a % B32), b % U32).v, ((a % B32) * 2^(b % U32)) % B32)
      [] op = "rsh_u32" -> Exactly(rsh_u32(Var(a % B32), b % U32).v, (a % B32) \div 2^(b % U32))
      [] op = "lrot_u32" ->
           Exactly(lrot_u32(Var(a % B32), b % U32).v,
                   (((a % B32) * 2^(b % U32)) % B32) + ((a % B32) \div 2^(U32 - (b % U32))))
      [] op = "rrot_u32" ->
           Exactly(rrot_u32(Var(a % B32), b % U32).v,
                   ((a % B32) \div 2^(b % U32)) + (((a % B32) * 2^(U32 - (b % U32))) % B32))
      [] op = "lrot_u64" ->
           Exactly(LET r == lrot_u64(<<Var(L(a)[1]), Var(L(a)[2])>>, b % U64) IN N(<<r[1].v, r[2].v>>),
                   ((a * 2^(b % U64)) % 2^U64) + (a \div 2^(U64 - (b % U64))))
      [] op = "and_xor_u32" ->
           Exactly(and_xor_u32_to_u32(a % B32, b % B32),
                   LET pick(F(_, _)) == Recompose([j \in 1 .. U32 |->
                         F(Digits(a % B32, 2, U32)[j], Digits(b % B32, 2, U32)[j])], 2)
                   IN << pick(LAMBDA u, v : u * v), pick(LAMBDA u, v : (u + v) % 2) >>)
      [] op = "split_u64_to_u32s_le" -> Outcome(split_u64_to_u32s_le_ok(h, Fp(a)), TRUE, N(h), Fp(a))
      [] op = "split_u64_to_u16s_le" -> Outcome(split_u64_to_u16s_le_ok(h, Fp(a), 4), TRUE, NH(h), Fp(a))
      [] op = "split_u32_to_4_bit_limbs_le" ->
           Exactly(Recompose(split_u32_to_4_bit_limbs_le(a % B32), 16), a % B32)

-----------------------------------------------------------------------------
(* Big numbers of two limbs.                                                 *)

BigOutcome(op, a, b, h) ==
    CASE op = "biguint_to_target_safe" ->
           Outcome(biguint_to_target_safe(L(a)).ok, a < P, biguint_to_target_safe(L(a)).v, a)
      [] op = "biguint_to_target_unsafe" -> Exactly(biguint_to_target_unsafe(L(a)), Fp(a))
      [] op = "connect_biguint" -> Asserts(connect_biguint(L(a), L(b) \o <<0>>), a = b)
      [] op = "trim_biguint" -> Checked(trim_biguint(L(a), 1), a < B32, a)
      [] op = "try_trim_biguint" ->
           Exactly(<<try_trim_biguint(L(a), 1)[1], N(try_trim_biguint(L(a), 1)[2])>>, <<a < B32, a % B32>>)
      [] op = "select_biguint" -> Exactly(N(select_biguint(b % 2 = 1, L(a), <<1>>)), IF b % 2 = 1 THEN a ELSE 1)
      [] op = "is_zero_biguint" -> Exactly(is_zero_biguint(L(a)), a = 0)
      [] op = "is_equal_biguint" -> Exactly(is_equal_biguint(L(a), L(b) \o <<0>>), a = b)
      [] op = "split_le_biguint" ->
           LET r == split_le_biguint(U32, L(a), U48) IN Outcome(r.ok, a < 2^U48, get_biguint_target(2, r.v), a)
      [] op = "le_sum_biguint" -> Exactly(N(le_sum_biguint(U32, Digits(a, 2, U64 - 1))), a % 2^(U64 - 1))
      [] op = "le_sum_bytes_biguint" -> Exactly(N(le_sum_bytes_biguint(Digits(a, BYTE, 7))), a % BYTE^7)
      [] op = "biguint_from_bytes_be" -> Exactly(N(biguint_from_bytes_be(Reverse(Digits(a, BYTE, 7)))), a % BYTE^7)
      [] op = "range_check_biguint" -> Asserts(range_check_biguint(U32, L(a), b % (U64 + 1)), a < 2^(b % (U64 + 1)))
      [] op = "random_access_biguint" -> Exactly(N(random_access_biguint(1 + (b % 2), <<L(a), <<b % B32>>>>, 2)),
                                                 IF b % 2 = 0 THEN a ELSE b % B32)
      [] op = "biguint_vector_sum" ->
           Exactly(N(biguint_vector_sum(a < 100, biguint_vector_diff(L(a), L(b)), L(b))), IF a < 100 THEN a ELSE b)
      [] op = "add_biguint" -> Exactly(N(add_biguint(B32, L(a), L(b))), a + b)
      [] op = "add_biguint_non_carry" -> Checked(add_biguint_non_carry(B32, L(a), L(b), 2), a + b < 2^U64, a + b)
      [] op = "add_biguint_multiple" ->
           LET s == add_biguint_multiple([i \in 1 .. 20 |-> IF i = 1 THEN L(a) ELSE L(b)], 3)
           IN Checked(s, a + 19 * b < B32^3, a + 19 * b)
      [] op = "try_sub_biguint" ->
           LET s == try_sub_biguint(B32, L(a), L(b)) IN Exactly(N(s[1]) - s[2] * 2^U64, a - b)
      [] op = "sub_biguint" -> Checked(sub_biguint(B32, L(a), L(b)), a >= b, a - b)
      [] op = "mul_biguint" -> Exactly(N(mul_biguint(B32, L(a), L(b))), a * b)
      [] op = "mul_biguint_non_carry" -> Checked(mul_biguint_non_carry(B32, L(a), L(b), 2), a * b < 2^U64, a * b)
      [] op = "mul_add_biguint" -> Exactly(N(mul_add_biguint(L(a), L(b), L(b))), a * b + b)
      [] op = "mul_many_biguint_non_carry" ->
           Checked(mul_many_biguint_non_carry(<<L(a), L(b), L(b)>>, 4), a * b * b < B32^4, a * b * b)
      [] op = "cmp_biguint" -> Exactly(cmp_biguint(L(a), L(b)), Sgn(a - b))
      [] op = "is_lte_biguint" -> Exactly(is_lte_biguint(L(a), L(b)), a <= b)
      [] op = "is_gte_biguint" -> Exactly(is_gte_biguint(L(a), L(b)), a >= b)
      [] op = "is_lt_biguint" -> Exactly(is_lt_biguint(L(a), L(b)), a < b)
      [] op = "is_gt_biguint" -> Exactly(is_gt_biguint(L(a), L(b)), a > b)
      [] op = "max_biguint_multiple" ->
           Exactly(N(max_biguint_multiple(<<L(a), L(b), <<B32 - 1>>>>)), Max({a, b, B32 - 1}))
      [] op = "min_biguint_multiple" ->
           Exactly(N(min_biguint_multiple(<<L(a), L(b), <<B32 - 1>>>>)), Min({a, b, B32 - 1}))
      [] op = "conditional_assert_lt_biguint" ->
           Asserts(conditional_assert_lt_biguint(a # 1, L(a), L(b)), a = 1 \/ a < b)
      [] op = "div_rem_biguint" ->
           LET r == div_rem_biguint(L(a), L(b), h, 2)
           IN Outcome(r.ok, TRUE, <<N(r.v[1]), N(r.v[2])>>, IF b = 0 THEN <<0, 0>> ELSE <<a \div b, a % b>>)
      [] op = "ceil_div_biguint" ->
           Checked(ceil_div_biguint(L(a), L(b), h), TRUE, IF b = 0 THEN 0 ELSE (a + b - 1) \div b)

\* In limbs of 16 bits; a and b are below 2^U32.
HalfOutcome(op, a, b) ==
    CASE op = "connect_biguint_u16" -> Asserts(connect_biguint_u16(H(a), constant_biguint_u16(b)), a = b)
      [] op = "trim_biguint_u16" ->
           LET t == trim_biguint_u16(H(a), 1) IN Outcome(t.ok, a < B16, NH(t.v), a)
      [] op = "try_trim_biguint_u16" -> Exactly(try_trim_biguint_u16(H(a), 1)[1], a < B16)
      [] op = "is_zero_biguint_u16" -> Exactly(is_zero_biguint_u16(H(a)), a = 0)
      [] op = "is_equal_biguint_u16" -> Exactly(is_equal_biguint_u16(H(a), H(b) \o <<0>>), a = b)
      [] op = "is_equal_biguint_u16_short" -> Exactly(is_equal_biguint_u16(<<a % B16>>, H(b)), a % B16 = b)
      [] op = "add_biguint_u16" -> Exactly(NH(add_biguint_u16(H(a), H(b))), a + b)
      [] op = "add_biguint_u16_non_carry" ->
           LET s == add_biguint_u16_non_carry(H(a), H(b), 2) IN Outcome(s.ok, a + b < B32, NH(s.v), a + b)
      [] op = "sub_biguint_u16" ->
           LET s == sub_biguint_u16(H(a), H(b)) IN Outcome(s.ok, a >= b, NH(s.v), a - b)
      [] op = "mul_biguint_u16" -> Exactly(NH(mul_biguint_u16(H(a), H(b))), a * b)
      [] op = "mul_biguint_u16_non_carry" ->
           LET s == mul_biguint_u16_non_carry(H(a), H(b), 2) IN Outcome(s.ok, a * b < B32, NH(s.v), a * b)
      [] op = "split_le_biguint_u16" ->
           LET r == split_le_biguint_u16(H(a), U16 + 1)
           IN Outcome(r.ok, a < 2^(U16 + 1), NH(le_sum_biguint_u16(r.v)), a)
      [] op = "range_check_biguint_u16" -> Asserts(range_check_biguint_u16(H(a), 1 + (b % U32)), a < 2^(1 + (b % U32)))
      [] op = "biguint_u16_to_biguint" -> Exactly(N(biguint_u16_to_biguint(H(a) \o <<b % B16>>)), a + B32 * (b % B16))
      [] op = "biguint_u16_to_target" -> Exactly(biguint_u16_to_target(H(a)), a)
      [] op = "add_bigint_u16" ->
           LET r == add_bigint_u16_non_carry(set_bigint_u16_target(a - 7, 2), set_bigint_u16_target(b - 7, 2), 3)
           IN Outcome(r.ok, TRUE, <<get_bigint_u16_target(r.v), add_virtual_bigint_u16_target_safe(r.v)>>,
                      <<a + b - 14, TRUE>>)
      [] op = "bigint_u16_vector_sum" ->
           LET new == set_bigint_u16_target(a - 7, 2)
               old == set_bigint_u16_target(b - 7, 2)
               r == bigint_u16_vector_sum(a > 3, bigint_u16_vector_diff(new, old), old)
           IN Exactly(<<NH(r.abs), r.sign>>,
                      IF a > 3 THEN <<NH(new.abs), Fp(new.sign)>> ELSE <<NH(old.abs), Fp(old.sign)>>)
      [] op = "is_equal_bigint_u16" ->
           LET u == set_bigint_u16_target(a - 7, 2)
               v == set_bigint_u16_target(b - 7, 2)
           IN Exactly(<<is_equal_bigint_u16(u, v), is_zero_bigint_u16(u),
                        NI(bigint_u16_to_bigint(select_bigint_u16(a < b, u, v))),
                        get_bigint_u16_target(random_access_bigint_u16(1 + (a % 2), <<u, v>>, 2))>>,
                      <<a = b, a = 7, IF a < b THEN a - 7 ELSE b - 7, IF a % 2 = 0 THEN a - 7 ELSE b - 7>>)

-----------------------------------------------------------------------------
(* Comparisons in a width h, signed elements and big integers.               *)

\* In a range the comparison is promised; whatever is accepted is right.
Compares(results, a, b, bits, want) ==
    Outcome(results # {}, a < 2^cmp_bit_size_bucket(bits) /\ b < 2^cmp_bit_size_bucket(bits), results \subseteq {want}, TRUE)

CompareOutcome(op, a, b, bits) ==
    CASE op = "is_lte" -> Compares(is_lte(a, b, bits), a, b, bits, a <= b)
      [] op = "is_lte_cached" ->
           Compares(SecondCall(is_lte(a, b, bits), is_lte(a, b, U48)), a, b, bits, a <= b)
      [] op = "cmp" -> Compares(cmp(a, b, bits), a, b, bits, Sgn(a - b))
      [] op = "is_lt" -> Compares(is_lt(a, b, bits), a, b, bits, a < b)
      [] op = "is_gt" -> Compares(is_gt(a, b, bits), a, b, bits, a > b)
      [] op = "conditional_assert_lte" ->
           Outcome(conditional_assert_lte(a # 1, a, b, bits), (a = 1 \/ a <= b) /\ {a, b} \subseteq 0 .. 2^bits - 1,
                   a = 1 \/ a <= b, TRUE)
      [] op = "conditional_assert_lt" ->
           Outcome(conditional_assert_lt(a # 1, a, b, bits), (a = 1 \/ a < b) /\ {a, b} \subseteq 0 .. 2^bits - 1,
                   a = 1 \/ a < b, TRUE)
      [] op = "median3" ->
           Exactly(median3(a, b, 5, U48), CHOOSE m \in {a, b, 5} : /\ Cardinality({i \in 1 .. 3 : <<a, b, 5>>[i] <= m}) >= 2
                                                                  /\ Cardinality({i \in 1 .. 3 : <<a, b, 5>>[i] >= m}) >= 2)

\* a and b are integers, negative ones too.
SignedOutcome(op, a, b, h) ==
    CASE op = "signed_target" ->
           LET s == set_signed_target(a)
           IN Exactly(<<get_signed_target(s), sign(s), abs(s)[1], NI(signed_target_to_bigint(s)),
                        NI(bigint_u16_to_bigint(signed_target_to_bigint_u16(s, 4)))>>,
                      <<a, Sgn(a), Sgn(a) * a, a, a>>)
      [] op = "range_check_signed" -> Asserts(range_check_signed(set_signed_target(a), 3), Sgn(a) * a < 8)
      [] op = "conditional_assert_lte_signed_special" ->
           Asserts(conditional_assert_lte_signed_special(TRUE, set_signed_target(a), b % 64, U48), a <= b % 64)
      [] op = "sub_bigint_non_carry" ->
           CheckedInt(sub_bigint_non_carry(B32, I(a), I(b), 2), Sgn(a - b) * (a - b) < 2^U64, a - b)
      [] op = "sub_bigint" ->
           LET r == sub_bigint(I(a), I(b))
           IN Outcome(r.ok, TRUE, <<NI(r.v), add_virtual_bigint_target_safe(r.v)>>, <<a - b, TRUE>>)
      [] op = "add_bigint_non_carry" -> CheckedInt(add_bigint_non_carry(B32, I(a), I(b), 3), TRUE, a + b)
      [] op = "mul_bigint_with_biguint" ->
           LET r == mul_bigint_with_biguint_non_carry(I(a), I(b).abs, 4)
           IN Outcome(r.ok, TRUE, <<NI(r.v), add_virtual_bigint_target_safe(r.v)>>, <<a * Sgn(b) * b, TRUE>>)
      [] op = "mul_bigint_by_bool" -> Exactly(NI(mul_bigint_by_bool(I(a), b > 0)), IF b > 0 THEN a ELSE 0)
      [] op = "is_equal_bigint" ->
           Exactly(<<is_equal_bigint(I(a), I(b)), is_zero_bigint(I(a)), NI(select_bigint(a < b, I(a), I(b)))>>,
                   <<a = b, a = 0, IF a < b THEN a ELSE b>>)
      [] op = "bigint_vector_sum" ->
           LET r == bigint_vector_sum(b > 0, bigint_vector_diff(I(a), I(b)), I(b))
           IN Exactly(<<N(r.abs), r.sign>>, IF b > 0 THEN <<N(I(a).abs), Fp(I(a).sign)>> ELSE <<N(I(b).abs), Fp(I(b).sign)>>)
      [] op = "cmp_bigint" -> Exactly(cmp_bigint(I(a), I(b)), Sgn(a - b))
      [] op = "is_lte_bigint" -> Exactly(is_lte_bigint(I(a), I(b)), a <= b)
      [] op = "biguint_to_bigint" -> Exactly(NI(biguint_to_bigint(I(a).abs)), Sgn(a) * a)
      [] op = "bigint_to_signed_target" ->
           LET r == bigint_to_signed_target_unsafe(I(a)) IN Outcome(r.ok, TRUE, r.v, Fp(a))
      [] op = "euclidian_div_by_biguint" ->
           CheckedInt(euclidian_div_by_biguint(I(a), I(b).abs, h, 3), TRUE, IF b = 0 THEN 0 ELSE Floor(a, Sgn(b) * b))
      [] op = "sub_bigint_u16_unsafe" ->
           LET u == sub_bigint_u16_unsafe(set_bigint_u16_target(a, 4), set_bigint_u16_target(b, 4))
           IN Exactly(Recompose(u, B16), Fp(a - b))

\* The value of limbs that are signed field elements.
SignedLimbs(limbs) == FoldRight(LAMBDA limb, acc : acc * B16 + get_signed_target(limb), limbs, 0)

\* A limb that is, with the carry from below, a negative multiple of 2^16 is left
\* at 2^16.  ComplementLimbs carries it into the next limb if the number is not
\* negative, and is sure to put it right only if there is no second one.
LeftFull(limbs) == {i \in 1 .. 6 : SignedCarries(limbs, 6).limbs[i] = B16}

SpoiltByFullLimbs(limbs) ==
    \/ SignedCarries(limbs, 6).carry = P - 1 /\ LeftFull(limbs) # {}
    \/ Cardinality(LeftFull(limbs)) > 1

Normalized(r) == /\ \A i \in DOMAIN r.v.abs : r.v.abs[i] < B32
                 /\ add_virtual_bigint_target_safe(r.v)

\* a and b are limbs: of signed sums, of products.
LooseOutcome(op, a, b) ==
    CASE op = "unsafe_big16_to_bigint" ->
           LET r == unsafe_big16_to_bigint(a, 3)
           IN Outcome(r.ok, TRUE, <<NI(r.v), Normalized(r)>>, <<SignedLimbs(a), TRUE>>)
      [] op = "mul_bigint_u16_and_target_unsafe" ->
           LET n == get_signed_target(a[1])
           IN Exactly(SignedLimbs(mul_bigint_u16_and_target_unsafe(set_bigint_u16_target(n, 4), 3)), 3 * n)
      [] op = "unsafe_big32_to_biguint" ->
           LET sum == add_unsafe_big(mul_unsafe_big(a, b, 3), mul_add_unsafe_big(a \o <<0>>, 2, b \o <<0>>))
           IN Checked(unsafe_big32_to_biguint(sum, 5), TRUE, N(a) * N(b) + 2 * N(a) + N(b))

-----------------------------------------------------------------------------
(* Arithmetic modulo ORDER: promised for reduced operands.                   *)

NonNativeOutcome(op, a, b, h) ==
    LET reduced == a < ORDER /\ b < ORDER
    IN CASE op = "add_nonnative" -> Congruent(add_nonnative(L(a), L(b), h), reduced, a + b)
         [] op = "if_nonnative" -> Congruent(if_nonnative(b = 1, L(a), L(b), h), reduced, IF b = 1 THEN a ELSE b)
         [] op = "add_many_nonnative" ->
              Congruent(add_many_nonnative(<<L(a), L(b), L(a)>>, h),
                        reduced /\ ~MultipleAddsPanics(<<L(a), L(b), L(a)>>), 2 * a + b)
         [] op = "sub_nonnative" -> Congruent(sub_nonnative(L(a), L(b), h), reduced, ORDER + a - b)
         [] op = "neg_nonnative" -> Congruent(neg_nonnative(L(b), h), reduced, ORDER + ORDER - b)
         [] op = "nonnative_conditional_neg" ->
              LET hneg == NonNativeSubtractionGenerator(<< >>, L(a))
              IN Congruent(nonnative_conditional_neg(L(a), b > 1, hneg, h), reduced, IF b > 1 THEN ORDER + ORDER - a ELSE a)
         [] op = "mul_nonnative" -> Congruent(mul_nonnative(L(a), L(b), h), reduced, a * b)
         [] op = "mul_many_nonnative" ->
              LET first == NonNativeMultiplicationGenerator(L(a), L(b))
              IN Congruent(mul_many_nonnative(<<L(a), L(b), L(a)>>, <<first, h>>), reduced, ((a * b) % ORDER) * a)
         [] op = "div_nonnative" ->
              LET r == div_nonnative(L(a), L(b), h)
              IN Outcome(r.ok, reduced /\ HasInverse(b), (N(r.v) * b) % ORDER, a % ORDER)
         [] op = "mul_div_nonnative" ->
              LET r == mul_div_nonnative(L(a), L(a), L(b), h)
              IN Outcome(r.ok, reduced /\ HasInverse(b), (N(r.v) * b) % ORDER, (a * a) % ORDER)
         [] op = "inv_nonnative" ->
              Outcome(inv_nonnative(L(a), h).ok, reduced /\ HasInverse(a), (N(inv_nonnative(L(a), h).v) * a) % ORDER, 1)
         [] op = "conditional_inv_nonnative" ->
              LET r == conditional_inv_nonnative(b > 1, L(a), h)
              IN Outcome(r.ok, reduced /\ (b > 1 => HasInverse(a)), b > 1 => (N(r.v) * a) % ORDER = 1, TRUE)
         [] op = "reduce" -> Checked(reduce(L(a), h), TRUE, a % ORDER)
         [] op = "split_nonnative_to_bits" -> Exactly(get_biguint_target(2, split_nonnative_to_bits(L(a))), a)
         [] op = "split_nonnative_to_bytes" -> Exactly(get_biguint_target(BYTE, split_nonnative_to_bytes(L(a))), a)

\* What the generators write.
Honest(op, a, b) ==
    CASE op \in {"div_rem_biguint", "ceil_div_biguint"} -> BigUintDivRemGenerator(L(a), L(b))
      [] op = "euclidian_div_by_biguint" -> BigUintDivRemGenerator(I(a).abs, I(b).abs)
      [] op = "split_u64_to_u32s_le" -> SplitToU32Generator(Fp(a))
      [] op = "split_u64_to_u16s_le" -> SplitToU16Generator(Fp(a), 4)
      [] op = "add_nonnative" -> NonNativeAdditionGenerator(L(a), L(b))
      [] op = "if_nonnative" -> NonNativeAdditionGenerator(IF b = 1 THEN L(a) ELSE << >>, IF b = 1 THEN << >> ELSE L(b))
      [] op = "add_many_nonnative" -> NonNativeMultipleAddsGenerator(<<L(a), L(b), L(a)>>)
      [] op = "sub_nonnative" -> NonNativeSubtractionGenerator(L(a), L(b))
      [] op = "neg_nonnative" -> NonNativeSubtractionGenerator(<< >>, L(b))
      [] op = "nonnative_conditional_neg" ->
           IF b > 1 THEN NonNativeAdditionGenerator(L(NonNativeSubtractionGenerator(<< >>, L(a))[1]), << >>)
           ELSE NonNativeAdditionGenerator(<< >>, L(a))
      [] op = "mul_nonnative" -> NonNativeMultiplicationGenerator(L(a), L(b))
      [] op = "mul_many_nonnative" ->
           NonNativeMultiplicationGenerator(L(NonNativeMultiplicationGenerator(L(a), L(b))[1]), L(a))
      [] op = "div_nonnative" -> NonNativeDivisionGenerator(L(a), L(b))
      [] op = "mul_div_nonnative" ->
           IF HasInverse(b) THEN NonNativeMulDivGenerator(L(a), L(a), L(b)) ELSE << 0, 0, 0 >>
      [] op \in {"inv_nonnative", "conditional_inv_nonnative"} -> NonNativeInverseGenerator(L(a))
      [] op = "reduce" -> BigUintDivRemGenerator(L(a), modulus)
      [] OTHER -> << >>

\* What a prover may write instead: the result moved by one or by the order, with
\* the overflow that fits and with ones that do not.
Near(h) ==
    LET all == {[h EXCEPT ![1] = @ + d, ![2] = @ + k] : d \in {-ORDER, -1, 0, 1, ORDER}, k \in {-1, 0, 1}}
    IN {g \in all : g[1] \in 0 .. 2^U64 - 1 /\ g[2] \in 0 .. 2^U64 - 1}

Hints(op, a, b, h) ==
    CASE op \in {"div_rem_biguint", "ceil_div_biguint"} -> DivHints(a, b, h[1]) \cup {h}
      [] op = "euclidian_div_by_biguint" -> DivHints(Sgn(a) * a, Sgn(b) * b, h[1]) \cup {h}
      [] op = "split_u64_to_u32s_le" -> SplitHints(Fp(a), U32, 2)
      [] op = "split_u64_to_u16s_le" -> SplitHints(Fp(a), U16, 4)
      [] op \in {"div_nonnative", "mul_div_nonnative"} ->
           UNION {{g, [g EXCEPT ![3] = 1 - @]} : g \in Near(h)}
      [] OTHER -> IF h = << >> THEN {h} ELSE Near(h) \cup {h}

-----------------------------------------------------------------------------
(* The calls that are checked: kind, operation and operands.                 *)

WordOps == {"mul_add_u32", "adds_with_carry_u32", "add_many_u32", "sub_u32", "conditional_u32"}

HalfWordOps == {"mul_add_u16", "add_u16s_with_carry", "add_many_u16", "sub_u16"}

BitsOps == {"not_u32", "lsh_u32", "rsh_u32", "lrot_u32", "rrot_u32", "lrot_u64", "and_xor_u32",
            "split_u64_to_u32s_le", "split_u64_to_u16s_le", "split_u32_to_4_bit_limbs_le"}

BigOps == {"biguint_to_target_safe", "biguint_to_target_unsafe", "connect_biguint", "trim_biguint", "try_trim_biguint",
           "select_biguint", "is_zero_biguint", "is_equal_biguint", "split_le_biguint", "le_sum_biguint",
           "le_sum_bytes_biguint", "biguint_from_bytes_be", "range_check_biguint", "random_access_biguint",
           "biguint_vector_sum", "add_biguint", "add_biguint_non_carry", "add_biguint_multiple",
           "try_sub_biguint", "sub_biguint", "mul_biguint", "mul_biguint_non_carry", "mul_add_biguint",
           "mul_many_biguint_non_carry", "cmp_biguint", "is_lte_biguint", "is_gte_biguint", "is_lt_biguint",
           "is_gt_biguint", "max_biguint_multiple", "min_biguint_multiple", "conditional_assert_lt_biguint",
           "div_rem_biguint", "ceil_div_biguint"}

HalfOps == {"connect_biguint_u16", "trim_biguint_u16", "try_trim_biguint_u16", "is_zero_biguint_u16",
            "is_equal_biguint_u16", "is_equal_biguint_u16_short", "add_biguint_u16", "add_biguint_u16_non_carry",
            "sub_biguint_u16", "mul_biguint_u16", "mul_biguint_u16_non_carry", "split_le_biguint_u16",
            "range_check_biguint_u16", "biguint_u16_to_biguint", "biguint_u16_to_target", "add_bigint_u16",
            "bigint_u16_vector_sum", "is_equal_bigint_u16"}

CompareOps == {"is_lte", "is_lte_cached", "cmp", "is_lt", "is_gt", "conditional_assert_lte",
               "conditional_assert_lt", "median3"}

SignedOps == {"signed_target", "range_check_signed", "conditional_assert_lte_signed_special",
              "bigint_to_signed_target", "sub_bigint_u16_unsafe"}

IntOps == {"sub_bigint_non_carry", "sub_bigint", "add_bigint_non_carry", "mul_bigint_with_biguint",
           "mul_bigint_by_bool", "is_equal_bigint", "bigint_vector_sum", "cmp_bigint", "is_lte_bigint",
           "biguint_to_bigint", "euclidian_div_by_biguint"}

NonNativeOps == {"add_nonnative", "if_nonnative", "add_many_nonnative", "sub_nonnative", "neg_nonnative",
                 "nonnative_conditional_neg", "mul_nonnative", "mul_many_nonnative", "div_nonnative",
                 "mul_div_nonnative", "inv_nonnative", "conditional_inv_nonnative", "reduce",
                 "split_nonnative_to_bits", "split_nonnative_to_bytes"}

Calls(kind, ops, operands) == {<<[kind |-> kind, op |-> op], x>> : op \in ops, x \in operands}

KnownOrNot(values) == {Const(v) : v \in values} \cup {Var(v) : v \in values}

GadgetCalls ==
    LET Triples(s) == {<<a, b, c>> : a, b, c \in s}
        Pairs(s) == {<<a, b>> : a, b \in s}
    IN UNION { Calls("Word", WordOps, Triples(KnownOrNot({0, 1, B32 - 1}))),
               Calls("HalfWord", HalfWordOps, Triples(KnownOrNot({0, 1, B16 - 1}))),
               Calls("Bits", BitsOps, {<<a, b>> : a \in {0, 1, 9, 15, 16, 129, 239, 240, 255}, b \in 0 .. 7}),
               Calls("Big", BigOps, Pairs({0, 1, 8, 15, 16, 128, 240, 255})),
               Calls("Half", HalfOps, Pairs({0, 1, 3, 4, 7, 8, 12, 15})),
               Calls("Compare", CompareOps, {<<a, b, bits>> : a, b \in {0, 1, 3, 4, 15, 16, 60, 63}, bits \in {2, 4, 6, 8}}),
               Calls("Signed", SignedOps, Pairs({-63, -16, -15, -1, 0, 1, 15, 16, 63})),
               Calls("Signed", IntOps, Pairs({-255, -128, -16, -1, 0, 1, 15, 128, 255})),
               Calls("Loose", {"unsafe_big16_to_bigint"},
                     {<<[i \in 1 .. 3 |-> set_signed_target(a[i])], << >>>> : a \in Triples({-8, -4, -3, -1, 0, 1, 5, 8})}),
               Calls("Loose", {"mul_bigint_u16_and_target_unsafe"}, {<<<<set_signed_target(n)>>, << >>>> : n \in -63 .. 63}),
               Calls("Loose", {"unsafe_big32_to_biguint"}, Pairs(Pairs({0, 1, 7}))),
               Calls("NonNative", NonNativeOps, Pairs({0, 1, 2, 5, 128, ORDER - 1, ORDER, 255})) }

TakesHints(g) == g.kind \in {"Bits", "Big", "Signed", "NonNative"}

GeneratorWrites(g, x) == IF TakesHints(g) THEN Honest(g.op, x[1], x[2]) ELSE << >>

HintsOf(g, x, h) == IF TakesHints(g) THEN Hints(g.op, x[1], x[2], h) ELSE {h}

GadgetOutcome(g, x, h) ==
    CASE g.kind = "Word" -> WordOutcome(g.op, x[1], x[2], x[3])
      [] g.kind = "HalfWord" -> HalfWordOutcome(g.op, x[1], x[2], x[3])
      [] g.kind = "Bits" -> BitsOutcome(g.op, x[1], x[2], h)
      [] g.kind = "Big" -> BigOutcome(g.op, x[1], x[2], h)
      [] g.kind = "Half" -> HalfOutcome(g.op, x[1], x[2])
      [] g.kind = "Compare" -> CompareOutcome(g.op, x[1], x[2], x[3])
      [] g.kind = "Signed" -> SignedOutcome(g.op, x[1], x[2], h)
      [] g.kind = "Loose" -> LooseOutcome(g.op, x[1], x[2])
      [] g.kind = "NonNative" -> NonNativeOutcome(g.op, x[1], x[2], h)
=============================================================================
