------------------------------- MODULE Words -------------------------------
(***************************************************************************)
(* What the builder offers on words: it looks for a case that needs no     *)
(* gate (constants), else it places a gate of UintGates or BitGates, whose *)
(* result is then exact.  A wire is its value and whether the builder      *)
(* knows it as a constant.  The 16- and the 32-bit gadgets are the same    *)
(* code in two widths: HALF_BITS \div 2 and HALF_BITS.                     *)
(***************************************************************************)
EXTENDS UintGates

U16 == HALF_BITS \div 2
U32 == HALF_BITS
U48 == HALF_BITS + HALF_BITS \div 2
U64 == 2 * HALF_BITS

Const(v) == [v |-> v, c |-> TRUE]

Var(v) == [v |-> v, c |-> FALSE]

\* The results of the three gates, as GateSound has them.
ArithmeticGate(bits, x, y, z) ==
    << Var((x.v * y.v + z.v) % 2^bits), Var((x.v * y.v + z.v) \div 2^bits) >>

AddManyGate(bits, to_add, carry) ==
    LET sum == FoldLeft(LAMBDA acc, w : acc + w.v, carry.v, to_add)
    IN << Var(sum % 2^bits), Var(sum \div 2^bits) >>

SubtractionGate(bits, x, y, borrow) ==
    LET d == x.v - y.v - borrow.v
    IN << Var(d % 2^bits), Var(IF d < 0 THEN 1 ELSE 0) >>

\* x * y + z when the constants decide it, << >> when a gate is needed.
special_cases(bits, x, y, z) ==
    CASE x.c /\ y.c /\ z.c ->
           LET sum == Fp(Fp(x.v * y.v) + z.v)
           IN << Const(sum % 2^bits), Const((sum \div 2^bits) % 2^bits) >>
      [] Const(0) \in {x, y} -> <<z, Const(0)>>
      [] z = Const(0) /\ x = Const(1) -> <<y, Const(0)>>
      [] z = Const(0) /\ y = Const(1) -> <<x, Const(0)>>
      [] OTHER -> << >>

mul_add(bits, x, y, z) ==
    LET known == special_cases(bits, x, y, z)
    IN IF known # << >> THEN known ELSE ArithmeticGate(bits, x, y, z)

add(bits, a, b) == mul_add(bits, a, Const(1), b)

mul(bits, a, b) == mul_add(bits, a, b, Const(0))

\* Constant zeros are dropped before a gate for the others is placed.
adds_with_carry(bits, to_add, carry) ==
    LET kept == SelectSeq(to_add, LAMBDA w : w # Const(0))
    IN CASE to_add = << >> -> << Const(0), carry >>
         [] Len(to_add) = 1 -> add(bits, to_add[1], carry)
         [] Len(to_add) > 1 /\ kept = << >> -> add(bits, Const(0), carry)
         [] Len(to_add) > 1 /\ Len(kept) = 1 -> add(bits, kept[1], carry)
         [] Len(to_add) > 1 /\ Len(kept) > 1 -> AddManyGate(bits, kept, carry)

add_many(bits, to_add) ==
    CASE Len(to_add) = 0 -> << Const(0), Const(0) >>
      [] Len(to_add) = 1 -> << to_add[1], Const(0) >>
      [] Len(to_add) = 2 -> add(bits, to_add[1], to_add[2])
      [] OTHER -> adds_with_carry(bits, to_add, Const(0))

sub(bits, x, y, borrow) ==
    IF y = Const(0) /\ borrow = Const(0) THEN << x, Const(0) >>
    ELSE SubtractionGate(bits, x, y, borrow)

arithmetic_u16_special_cases(x, y, z) == special_cases(U16, x, y, z)

mul_add_u16(x, y, z) ==
    LET known == arithmetic_u16_special_cases(x, y, z)
    IN IF known # << >> THEN known ELSE ArithmeticGate(U16, x, y, z)

add_u16s_with_carry(to_add, carry) == adds_with_carry(U16, to_add, carry)

add_many_u16(to_add) == add_many(U16, to_add)

sub_u16(x, y, borrow) == sub(U16, x, y, borrow)

-----------------------------------------------------------------------------
(* Bit operations on words: shifts and rotations are multiplications, the    *)
(* bitwise ones add the interleaved words and take the sum apart.            *)

not_u32(a) == sub(U32, Const(2^U32 - 1), a, Const(0))[1]

lsh_u32(a, n) == mul(U32, a, Const(2^n))[1]

rsh_u32(a, n) == IF n = 0 THEN a ELSE mul(U32, a, Const(2^(U32 - n)))[2]

lrot_u32(a, n) == LET m == mul(U32, a, Const(2^n)) IN add(U32, m[1], m[2])[1]

rrot_u32(a, n) == lrot_u32(a, U32 - n)

lrot_u64(a, n) ==
    LET lo == IF n < U32 THEN a[1] ELSE a[2]
        hi == IF n < U32 THEN a[2] ELSE a[1]
        m0 == mul(U32, lo, Const(2^(n % U32)))
        m1 == mul_add(U32, hi, Const(2^(n % U32)), m0[2])
    IN << add(U32, m0[1], m1[2])[1], m1[1] >>

\* What the interleaving gates give: bit j at place 2j, and the way back.
interleave_u32(v) ==
    FoldLeft(LAMBDA acc, j : acc + Digits(v, 2, U32)[j] * 4^(j - 1), 0, [j \in 1 .. U32 |-> j])

uninterleave_to_u32(v) ==
    LET Half(first) == FoldLeft(LAMBDA acc, j : acc + Digits(v, 2, U64)[2 * j - 1 + first] * 2^(j - 1),
                                0, [j \in 1 .. U32 |-> j])
    IN << Half(1), Half(0) >>

and_xor_u32_to_u32(x, y) == uninterleave_to_u32(Fp(interleave_u32(x) + interleave_u32(y)))

conditional_u32(x, y, z) ==
    mul_add(U32, y, Var(1 - z), mul(U32, x, Var(z))[1])[1]

-----------------------------------------------------------------------------
(* A field element as two or four words.  Both x and x + P may fit; the last *)
(* constraint leaves one of them.                                            *)

\* What a prover may write: words that recompose to x in the field.
SplitHints(x, bits, n) ==
    {Digits(t, 2^bits, n) : t \in {u \in {x, x + P} : u < 2^U64}}

Canonical(low, high) == high = 2^U32 - 1 => low = 0

split_u64_to_u32s_le_ok(limbs, x) ==
    /\ Fp(limbs[2] * 2^U32 + limbs[1]) = x
    /\ Canonical(limbs[1], limbs[2])

SplitToU32Generator(x) == Digits(x, 2^U32, 2)

\* n words: fewer than four are only recomposed.
split_u64_to_u16s_le_ok(limbs, x, n) ==
    IF n # 4 THEN Recompose(limbs, 2^U16) = x
    ELSE LET low == limbs[2] * 2^U16 + limbs[1]
             high == limbs[4] * 2^U16 + limbs[3]
         IN Fp(high * 2^U32 + low) = x /\ Canonical(low, high)

SplitToU16Generator(x, n) == Digits(x, 2^U16, n)

\* A second call gets the first one's words, with zeros up to its own length.
CachedU16s(limbs, n) == limbs \o [j \in 1 .. n - Len(limbs) |-> 0]

\* Pairs of two-bit limbs make the four-bit limbs.
split_u32_to_4_bit_limbs_le(v) ==
    LET pair == Digits(v, LIMB_BASE, Limbs(U32))
    IN [j \in 1 .. Limbs(U32) \div 2 |-> Fp(pair[2 * j] * LIMB_BASE + pair[2 * j - 1])]
=============================================================================
