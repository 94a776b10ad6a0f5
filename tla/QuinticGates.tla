---------------------------- MODULE QuinticGates ----------------------------
(***************************************************************************)
(* Multiplication and squaring in the quintic extension of the field,      *)
(* u^5 = 3, on which the signature curve is defined.  An element is the    *)
(* sequence of its five coefficients.                                      *)
(***************************************************************************)
EXTENDS BitGates

\* d_k of the product before reduction, k = 0 .. 8.
Convolution(a, b, k) ==
    FoldLeft(LAMBDA acc, j : IF k - j \in 0 .. 4 THEN Fp(acc + Mul(a[j + 1], b[k - j + 1])) ELSE acc,
             0, <<0, 1, 2, 3, 4>>)

\* Reduction by u^5 = 3.
QuinticMulLimbs(a, b) ==
    [k \in 1 .. 5 |-> IF k = 5 THEN Convolution(a, b, 4)
                      ELSE Fp(Convolution(a, b, k - 1) + 3 * Convolution(a, b, k + 4))]

QuinticMulWires(g, i) == Packed(g.ops, i, 10, 15, 0)

QuinticMulOps(config) == NumOps(config, 15, 0)

Minus(s, t) == [k \in DOMAIN s |-> Fp(s[k] - t[k])]

QuinticMulEval(g, x, o, l) ==
    Minus(QuinticMulLimbs(SubSeq(x, 1, 5), SubSeq(x, 6, 10)), o)

QuinticMulAccumulate(g, x, o, l) == QuinticMulEval(g, x, o, l)

QuinticMulPacked(g, x, o, l) == QuinticMulEval(g, x, o, l)

\* The recursive verifier has chains of multiply-adds: the terms that wrap
\* around are collected first and tripled together, at the term with b0.
QuinticMulCircuit(g, x, o, l) ==
    LET a(j) == x[j + 1]
        b(j) == x[j + 6]
        wrapped(k) == FoldLeft(LAMBDA t, j : Fp(Mul(a(j), b(5 + k - j)) + t), 0,
                               Reverse([n \in 1 .. 4 - k |-> k + n]))
        direct(k) == FoldLeft(LAMBDA t, j : Fp(Mul(a(j), b(k - j)) + t),
                              Fp(Mul(a(k), b(0)) + 3 * wrapped(k)),
                              Reverse([n \in 1 .. k |-> n - 1]))
    IN [k \in 1 .. 5 |-> Fp(direct(k - 1) - o[k])]

QuinticMulRunOnce(g, x) ==
    [o |-> QuinticMulLimbs(SubSeq(x, 1, 5), SubSeq(x, 6, 10)), l |-> << >>]

-----------------------------------------------------------------------------
(* QuinticSquaringGate: three products per coefficient, the partial sums in  *)
(* ten limbs.  A term is <<factor, i, j>>, for factor * a_i * a_j.            *)

SquareTerms ==
    << <<<<1, 0, 0>>, <<6, 1, 4>>, <<6, 2, 3>>>>,
       <<<<3, 3, 3>>, <<2, 0, 1>>, <<6, 2, 4>>>>,
       <<<<1, 1, 1>>, <<2, 0, 2>>, <<6, 3, 4>>>>,
       <<<<3, 4, 4>>, <<2, 0, 3>>, <<2, 1, 2>>>>,
       <<<<1, 2, 2>>, <<2, 0, 4>>, <<2, 1, 3>>>> >>

QuinticSquareWires(g, i) == Packed(g.ops, i, 5, 10, 10)

QuinticSquareOps(config) == NumOps(config, 10, 10)

SquareTerm(x, k, n) ==
    LET t == SquareTerms[k][n] IN Fp(t[1] * Mul(x[t[2] + 1], x[t[3] + 1]))

\* Each limb adds a term to the limb before it; the output adds the third.
QuinticSquareEval(g, x, o, l) ==
    FlattenSeq([k \in 1 .. 5 |->
      << Fp(SquareTerm(x, k, 1) - l[2 * k - 1]),
         Fp(SquareTerm(x, k, 2) + l[2 * k - 1] - l[2 * k]),
         Fp(SquareTerm(x, k, 3) + l[2 * k] - o[k]) >>])

QuinticSquareAccumulate(g, x, o, l) == QuinticSquareEval(g, x, o, l)

QuinticSquareCircuit(g, x, o, l) == QuinticSquareEval(g, x, o, l)

QuinticSquarePacked(g, x, o, l) == QuinticSquareEval(g, x, o, l)

\* The generator multiplies by two, three and six with additions.
Repeated(factor, v) ==
    CASE factor = 1 -> v
      [] factor = 2 -> Fp(v + v)
      [] factor = 3 -> Fp(Fp(v + v) + v)
      [] factor = 6 -> LET t == Fp(Fp(v + v) + v) IN Fp(t + t)

QuinticSquareWiresOf(x) ==
    LET term(k, n) == LET t == SquareTerms[k][n]
                      IN Repeated(t[1], Mul(x[t[2] + 1], x[t[3] + 1]))
        partial(k, n) == FoldLeft(LAMBDA acc, i : Fp(term(k, i) + acc), 0, [i \in 1 .. n |-> i])
    IN [o |-> [k \in 1 .. 5 |-> partial(k, 3)],
        l |-> [j \in 1 .. 10 |-> partial((j + 1) \div 2, IF j % 2 = 1 THEN 1 ELSE 2)]]

QuinticSquareRunOnce(g, x) == QuinticSquareWiresOf(x)
=============================================================================
