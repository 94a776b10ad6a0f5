------------------------------- MODULE Gates -------------------------------
(***************************************************************************)
(* One operation of one gate: its inputs are given, the generator fills    *)
(* the other wires, or a prover fills them as it likes.  The verifier      *)
(* accepts when every constraint is zero.  Layouts are checked for the     *)
(* sizes of the code, constraints in the small field of UintGates.  Or one *)
(* call of a gadget of Gadgets, with the generators' hints or with others. *)
(***************************************************************************)
EXTENDS QuinticGates, Gadgets, FiniteSets

VARIABLES gate,    \* the gate, with its parameters
          stage,   \* of a gate "layout", "inputs", "generated", "forged" or "corrupted",
                   \* of a gadget "operands", "computed" or "guessed"
          x, o, l  \* values of the input, output and limb wires; a gadget's
                   \* operands, outcome and hint

vars == <<gate, stage, x, o, l>>

-----------------------------------------------------------------------------
(* The gates: in the sizes of the code, and in sizes the small field bears.  *)

CIRCUIT_CONFIG == [wires |-> 136, routed |-> 80]

SmallConfig == [wires |-> 40, routed |-> 24]

Gate(kind, bits, addends, chunks, bytes, aux, used, ops) ==
    [kind |-> kind, bits |-> bits, addends |-> addends, chunks |-> chunks,
     bytes |-> bytes, aux |-> aux, used |-> used, ops |-> ops]

Sized(config, u16, u32, u48, aux, bytes, ranges, comparisons) ==
    LET Plain(kind, bits, ops) == Gate(kind, bits, 0, 0, 0, 0, 0, ops)
    IN { Plain("ArithmeticU32", u32, ArithmeticU32Ops(config, u32)),
         Plain("ArithmeticU16", u16, ArithmeticU16Ops(config, u16)),
         Plain("SubtractionU16", u16, SubtractionOps(config, u16)),
         Plain("SubtractionU32", u32, SubtractionOps(config, u32)),
         Plain("SubtractionU48", u48, SubtractionOps(config, u48)),
         Plain("Interleave", u32, InterleaveOps(config, u32)),
         Plain("UninterleaveU32", u32, UninterleaveOps(config, u32)),
         Plain("UninterleaveB32", u32, UninterleaveOps(config, u32)),
         Plain("QuinticMul", u32, QuinticMulOps(config)),
         Plain("QuinticSquare", u32, QuinticSquareOps(config)) }
       \cup {Gate("AddManyU32", u32, n, 0, 0, 0, 0, AddManyOps(config, u32, n)) : n \in {2, 3}}
       \cup {Gate("AddManyU16", u16, n, 0, 0, 0, 0, AddManyOps(config, u16, n)) : n \in {2, 3}}
       \cup {Gate("RangeCheck", b, 0, 0, 0, 0, 0, RangeCheckOps(config, b)) : b \in ranges}
       \cup {Gate("Comparison", c[1], 0, c[2], 0, 0, 0, 1) : c \in comparisons}
       \cup {Gate("Bytes", 0, 0, 0, bytes, aux, n, BytesOps(config, aux, bytes)) : n \in {bytes - 1, bytes}}

CodeGates == Sized(CIRCUIT_CONFIG, 16, 32, 48, 4, 8, 1 .. 62, {<<32, 16>>, <<32, 8>>, <<30, 10>>})

SmallGates == Sized(SmallConfig, 2, HALF_BITS, HALF_BITS + 2, 1, HALF_BITS,
                    1 .. 7, {<<4, 2>>, <<3, 3>>, <<6, 2>>})

-----------------------------------------------------------------------------
(* Dispatch on the kind of gate.                                            *)

Wires(g, i) ==
    CASE g.kind = "ArithmeticU32" -> ArithmeticU32Wires(g, i)
      [] g.kind = "ArithmeticU16" -> ArithmeticU16Wires(g, i)
      [] g.kind = "AddManyU32" -> AddManyU32Wires(g, i)
      [] g.kind = "AddManyU16" -> AddManyU16Wires(g, i)
      [] g.kind = "SubtractionU32" -> SubtractionU32Wires(g, i)
      [] g.kind = "SubtractionU16" -> SubtractionU16Wires(g, i)
      [] g.kind = "SubtractionU48" -> SubtractionU48Wires(g, i)
      [] g.kind = "Comparison" -> ComparisonWires(g, i)
      [] g.kind = "RangeCheck" -> RangeCheckWires(g, i)
      [] g.kind = "Bytes" -> BytesWires(g, i)
      [] g.kind = "Interleave" -> InterleaveWires(g, i)
      [] g.kind = "UninterleaveU32" -> UninterleaveU32Wires(g, i)
      [] g.kind = "UninterleaveB32" -> UninterleaveB32Wires(g, i)
      [] g.kind = "QuinticMul" -> QuinticMulWires(g, i)
      [] g.kind = "QuinticSquare" -> QuinticSquareWires(g, i)

\* What the verifier evaluates.
Constraints(g, i, u, v) ==
    CASE g.kind = "ArithmeticU32" -> ArithmeticU32Eval(g, i, u, v)
      [] g.kind = "ArithmeticU16" -> ArithmeticU16Eval(g, i, u, v)
      [] g.kind = "AddManyU32" -> AddManyU32Eval(g, i, u, v)
      [] g.kind = "AddManyU16" -> AddManyU16Eval(g, i, u, v)
      [] g.kind = "SubtractionU32" -> SubtractionU32Eval(g, i, u, v)
      [] g.kind = "SubtractionU16" -> SubtractionU16Eval(g, i, u, v)
      [] g.kind = "SubtractionU48" -> SubtractionU48Eval(g, i, u, v)
      [] g.kind = "Comparison" -> ComparisonEval(g, i, u, v)
      [] g.kind = "RangeCheck" -> RangeCheckEval(g, i, u, v)
      [] g.kind = "Bytes" -> BytesEval(g, i, u, v)
      [] g.kind = "Interleave" -> InterleaveEval(g, i, u, v)
      [] g.kind = "UninterleaveU32" -> UninterleaveU32Eval(g, i, u, v)
      [] g.kind = "UninterleaveB32" -> UninterleaveB32Eval(g, i, u, v)
      [] g.kind = "QuinticMul" -> QuinticMulEval(g, i, u, v)
      [] g.kind = "QuinticSquare" -> QuinticSquareEval(g, i, u, v)

\* What the prover and the recursive verifier evaluate instead.
OtherEvaluators(g, i, u, v) ==
    CASE g.kind = "ArithmeticU32" ->
           {ArithmeticU32BaseBatch(g, i, u, v), ArithmeticU32Accumulate(g, i, u, v),
            ArithmeticU32Circuit(g, i, u, v), ArithmeticU32Packed(g, i, u, v)}
      [] g.kind = "ArithmeticU16" ->
           {ArithmeticU16Accumulate(g, i, u, v), ArithmeticU16Circuit(g, i, u, v),
            ArithmeticU16Packed(g, i, u, v)}
      [] g.kind = "AddManyU32" ->
           {AddManyU32BaseBatch(g, i, u, v), AddManyU32Accumulate(g, i, u, v),
            AddManyU32BaseOne(g, i, u, v), AddManyU32Circuit(g, i, u, v)}
      [] g.kind = "AddManyU16" ->
           {AddManyU16BaseBatch(g, i, u, v), AddManyU16Accumulate(g, i, u, v),
            AddManyU16BaseOne(g, i, u, v), AddManyU16Circuit(g, i, u, v)}
      [] g.kind = "SubtractionU32" ->
           {SubtractionU32BaseBatch(g, i, u, v), SubtractionU32Accumulate(g, i, u, v),
            SubtractionU32Circuit(g, i, u, v), SubtractionU32Packed(g, i, u, v)}
      [] g.kind = "SubtractionU16" ->
           {SubtractionU16BaseBatch(g, i, u, v), SubtractionU16Accumulate(g, i, u, v),
            SubtractionU16Circuit(g, i, u, v), SubtractionU16Packed(g, i, u, v)}
      [] g.kind = "SubtractionU48" ->
           {SubtractionU48BaseBatch(g, i, u, v), SubtractionU48Accumulate(g, i, u, v),
            SubtractionU48Circuit(g, i, u, v), SubtractionU48Packed(g, i, u, v)}
      [] g.kind = "Comparison" ->
           {ComparisonAccumulate(g, i, u, v), ComparisonCircuit(g, i, u, v),
            ComparisonPacked(g, i, u, v)}
      [] g.kind = "RangeCheck" ->
           {RangeCheckBaseOne(g, i, u, v), RangeCheckAccumulate(g, i, u, v),
            RangeCheckCircuit(g, i, u, v), RangeCheckPacked(g, i, u, v)}
      [] g.kind = "Bytes" ->
           {BytesBaseBatch(g, i, u, v), BytesAccumulate(g, i, u, v),
            BytesCircuit(g, i, u, v), BytesPacked(g, i, u, v)}
      [] g.kind = "Interleave" ->
           {InterleaveCircuit(g, i, u, v), InterleaveAccumulate(g, i, u, v),
            InterleavePacked(g, i, u, v)}
      [] g.kind = "UninterleaveU32" ->
           {UninterleaveU32Circuit(g, i, u, v), UninterleaveU32Accumulate(g, i, u, v),
            UninterleaveU32Packed(g, i, u, v)}
      [] g.kind = "UninterleaveB32" ->
           {UninterleaveB32Circuit(g, i, u, v), UninterleaveB32Packed(g, i, u, v)}
      [] g.kind = "QuinticMul" ->
           {QuinticMulAccumulate(g, i, u, v), QuinticMulCircuit(g, i, u, v),
            QuinticMulPacked(g, i, u, v)}
      [] g.kind = "QuinticSquare" ->
           {QuinticSquareAccumulate(g, i, u, v), QuinticSquareCircuit(g, i, u, v),
            QuinticSquarePacked(g, i, u, v)}

RunOnce(g, i) ==
    CASE g.kind = "ArithmeticU32" -> ArithmeticU32RunOnce(g, i)
      [] g.kind = "ArithmeticU16" -> ArithmeticU16RunOnce(g, i)
      [] g.kind = "AddManyU32" -> AddManyU32RunOnce(g, i)
      [] g.kind = "AddManyU16" -> AddManyU16RunOnce(g, i)
      [] g.kind = "SubtractionU32" -> SubtractionU32RunOnce(g, i)
      [] g.kind = "SubtractionU16" -> SubtractionU16RunOnce(g, i)
      [] g.kind = "SubtractionU48" -> SubtractionU48RunOnce(g, i)
      [] g.kind = "Comparison" -> ComparisonRunOnce(g, i)
      [] g.kind = "RangeCheck" -> RangeCheckRunOnce(g, i)
      [] g.kind = "Bytes" -> BytesRunOnce(g, i)
      [] g.kind = "Interleave" -> InterleaveRunOnce(g, i)
      [] g.kind = "UninterleaveU32" -> UninterleaveU32RunOnce(g, i)
      [] g.kind = "UninterleaveB32" -> UninterleaveB32RunOnce(g, i)
      [] g.kind = "QuinticMul" -> QuinticMulRunOnce(g, i)
      [] g.kind = "QuinticSquare" -> QuinticSquareRunOnce(g, i)

\* num_constraints, for one operation.
DeclaredConstraints(g) ==
    LET limbs == Len(Wires(g, 0).l)
    IN CASE g.kind \in {"ArithmeticU32", "ArithmeticU16"} -> 4 + limbs
         [] g.kind \in {"AddManyU32", "AddManyU16", "SubtractionU32",
                        "SubtractionU16", "SubtractionU48"} -> 3 + limbs
         [] g.kind = "Comparison" -> 6 + 5 * g.chunks + ChunkBits(g)
         [] g.kind = "RangeCheck" -> 1 + limbs
         [] g.kind = "Bytes" -> BytesConstraintCount(g.aux, g.bytes, 1)
         [] g.kind = "Interleave" -> limbs + 2
         [] g.kind \in {"UninterleaveU32", "UninterleaveB32"} -> limbs + 4
         [] g.kind = "QuinticMul" -> 5
         [] g.kind = "QuinticSquare" -> 15

-----------------------------------------------------------------------------
(* Inputs, and what a prover may put in the place of the generator's values. *)

Edge(bits) == {0, 1, 2^(bits - 1), 2^bits - 2, 2^bits - 1}

QuinticSample == {<<0, 0, 0, 0, 0>>, <<1, 0, 0, 0, 0>>, <<0, 0, 0, 0, 1>>,
                  <<1, 2, 3, 4, 5>>, <<P - 1, 7, 0, 100, P - 2>>}

Inputs(g) ==
    CASE g.kind \in {"ArithmeticU32", "ArithmeticU16"} ->
           {<<a, b, c>> : a, b \in Edge(g.bits), c \in {0, 2^g.bits - 1}}
      [] g.kind \in {"SubtractionU32", "SubtractionU16", "SubtractionU48"} ->
           {<<a, b, c>> : a, b \in Edge(g.bits), c \in {0, 1}}
      [] g.kind \in {"AddManyU32", "AddManyU16"} ->
           {[k \in 1 .. g.addends + 1 |-> IF k = g.addends + 1 THEN c ELSE IF k = 1 THEN a ELSE b] :
              a, b \in Edge(g.bits), c \in {0, 1}}
      [] g.kind = "Comparison" -> {<<a, b>> : a, b \in Edge(g.bits) \cup {5}}
      [] g.kind \in {"RangeCheck", "Bytes", "UninterleaveU32", "UninterleaveB32"} ->
           {<<a>> : a \in UNION {Edge(b) : b \in 1 .. 2 * HALF_BITS - 1} \cup {P - 17, P - 16, P - 2, P - 1}}
      [] g.kind = "Interleave" -> {<<a>> : a \in 0 .. 2^g.bits - 1}
      [] g.kind = "QuinticMul" -> {a \o b : a, b \in QuinticSample}
      [] g.kind = "QuinticSquare" -> QuinticSample

\* Inputs for which the gate promises that the constraints can be met.
Legal(g, i) ==
    CASE g.kind = "RangeCheck" -> i[1] < 2^g.bits
      [] g.kind = "Bytes" -> i[1] < ByteBase(g)^g.used
      [] OTHER -> TRUE

\* Outputs and limbs that are consistent with each other, whatever the inputs.
Forgeries(g, i) ==
    CASE g.kind = "ArithmeticU32" ->
           {[o |-> <<lo, hi, inv>>,
             l |-> Digits(lo, LIMB_BASE, Limbs(g.bits)) \o Digits(hi, LIMB_BASE, Limbs(g.bits))] :
              lo, hi \in 0 .. 2^g.bits - 1, inv \in {0, 1, 2}}
      [] g.kind = "ArithmeticU16" ->
           {[o |-> <<lo, hi>>,
             l |-> Digits(lo, LIMB_BASE, Limbs(g.bits)) \o Digits(hi, LIMB_BASE, Limbs(g.bits))] :
              lo, hi \in 0 .. 2^g.bits - 1}
      [] g.kind \in {"AddManyU32", "AddManyU16"} ->
           {[o |-> <<lo, c>>, l |-> Digits(lo, LIMB_BASE, Limbs(g.bits)) \o Digits(c, LIMB_BASE, 1)] :
              lo \in 0 .. 2^g.bits - 1, c \in 0 .. 3}
      [] g.kind \in {"SubtractionU32", "SubtractionU16", "SubtractionU48"} ->
           {[o |-> <<d, b>>, l |-> Digits(d, LIMB_BASE, Limbs(g.bits))] :
              d \in 0 .. 2^g.bits - 1, b \in {0, 1, 2, P - 1}}
      [] g.kind = "Comparison" ->
           {[o |-> <<b, d>>,
             l |-> SubSeq(RunOnce(g, i).l, 1, 5 * g.chunks) \o Digits(Fp(2^ChunkBits(g) + d), 2, ChunkBits(g) + 1)] :
              b \in {0, 1}, d \in {RunOnce(g, i).o[2], 0, 1, P - 1}}
      [] g.kind = "RangeCheck" ->
           {[o |-> << >>, l |-> SubSeq(Digits(a, LIMB_BASE, HALF_BITS), 1, AuxLimbs(g))] :
              a \in {i[1], i[1] + P}}
      [] g.kind = "Bytes" ->
           {[o |-> Digits(a, ByteBase(g), g.bytes), l |-> Digits(a, LIMB_BASE, g.aux * g.bytes)] :
              a \in {b \in {i[1], i[1] + P} : b < ByteBase(g)^g.used}}
      [] g.kind = "Interleave" ->
           {[o |-> <<v>>, l |-> Reverse(Digits(i[1], 2, g.bits))] : v \in Edge(2 * g.bits)}
      [] g.kind \in {"UninterleaveU32", "UninterleaveB32"} ->
           {LET r == RunOnce(g, <<a>>)
            IN [o |-> <<r.o[1], r.o[2], inv>>, l |-> r.l] :
              a \in {b \in {i[1], i[1] + P} : b < 2^(2 * g.bits)}, inv \in {0, 1, 2}}
      [] OTHER -> {}

\* Values a single wire is replaced by.
Wrong == {0, 1, 3, 4, P - 1}

-----------------------------------------------------------------------------
Init ==
    /\ \/ gate \in SmallGates /\ stage = "inputs" /\ x \in Inputs(gate)
       \/ gate \in CodeGates /\ stage = "layout" /\ x = << >>
       \/ \E call \in GadgetCalls : gate = call[1] /\ x = call[2] /\ stage = "operands"
    /\ o = << >> /\ l = << >>

\* SimpleGenerator::run_once fills the wires of the operation.
Generate ==
    /\ stage = "inputs"
    /\ stage' = "generated"
    /\ o' = RunOnce(gate, x).o
    /\ l' = RunOnce(gate, x).l
    /\ UNCHANGED <<gate, x>>

\* A prover commits to other values that fit together.
Forge ==
    /\ stage = "inputs"
    /\ stage' = "forged"
    /\ \E f \in Forgeries(gate, x) : o' = f.o /\ l' = f.l
    /\ UNCHANGED <<gate, x>>

\* One wire has another value than the generator gave it.
Corrupt ==
    /\ stage = "generated"
    /\ stage' = "corrupted"
    /\ \/ \E k \in DOMAIN o, v \in Wrong : o' = [o EXCEPT ![k] = v] /\ UNCHANGED l
       \/ \E k \in DOMAIN l, v \in Wrong : l' = [l EXCEPT ![k] = v] /\ UNCHANGED o
    /\ UNCHANGED <<gate, x>>

\* A gadget is evaluated with the hint its generator writes, or with another.
Call ==
    /\ stage = "operands"
    /\ \E w \in {GeneratorWrites(gate, x)} : \E h \in HintsOf(gate, x, w) :
         /\ stage' = IF h = w THEN "computed" ELSE "guessed"
         /\ l' = h
         /\ o' = GadgetOutcome(gate, x, h)
    /\ UNCHANGED <<gate, x>>

Next == Generate \/ Forge \/ Corrupt \/ Call

Spec == Init /\ [][Next]_vars

-----------------------------------------------------------------------------
Filled == stage \in {"generated", "forged", "corrupted"}

Zero(constraints) == \A k \in DOMAIN constraints : constraints[k] = 0

Accepted == Filled /\ Zero(Constraints(gate, x, o, l))

Called == stage \in {"computed", "guessed"}

SignedLimbsCalled == Called /\ gate.op = "unsafe_big16_to_bigint"

\* What the operation should have computed, over the integers.
IntSum(s) == FoldLeft(LAMBDA a, b : a + b, 0, s)

TimesU(a) == << Fp(3 * a[5]), a[1], a[2], a[3], a[4] >>

\* a * b as the sum of b_j * u^j * a.
QuinticProduct(a, b) ==
    LET shift[j \in 0 .. 4] == IF j = 0 THEN a ELSE TimesU(shift[j - 1])
    IN [k \in 1 .. 5 |-> FoldLeft(LAMBDA acc, j : Fp(acc + Mul(b[j + 1], shift[j][k])), 0, <<0, 1, 2, 3, 4>>)]

SpreadBits(v, bits) == IntSum([j \in 1 .. bits |-> Digits(v, 2, bits)[j] * 4^(j - 1)])

EveryOtherBit(v, first) == IntSum([j \in 1 .. HALF_BITS |-> ((v \div 2^(2 * (j - 1) + first)) % 2) * 2^(j - 1)])

Correct(g, i, u) ==
    CASE g.kind \in {"ArithmeticU32", "ArithmeticU16"} ->
           u[1] < 2^g.bits /\ u[2] * 2^g.bits + u[1] = i[1] * i[2] + i[3]
      [] g.kind \in {"AddManyU32", "AddManyU16"} -> u[2] * 2^g.bits + u[1] = IntSum(i) /\ u[1] < 2^g.bits
      [] g.kind \in {"SubtractionU32", "SubtractionU16", "SubtractionU48"} ->
           i[1] - i[2] - i[3] = u[1] - u[2] * 2^g.bits /\ u[1] < 2^g.bits
      [] g.kind = "Comparison" -> u[1] = IF i[1] <= i[2] THEN 1 ELSE 0
      [] g.kind = "RangeCheck" -> i[1] < 2^g.bits
      [] g.kind = "Bytes" -> IF g.used < g.bytes THEN u = Digits(i[1], ByteBase(g), g.bytes)
                             ELSE Recompose(u, ByteBase(g)) = i[1] /\ \A k \in DOMAIN u : u[k] < ByteBase(g)
      [] g.kind = "Interleave" -> u[1] = SpreadBits(i[1], g.bits)
      [] g.kind = "UninterleaveU32" -> u[1] = EveryOtherBit(i[1], 1) /\ u[2] = EveryOtherBit(i[1], 0)
      [] g.kind = "UninterleaveB32" -> /\ u[1] = SpreadBits(EveryOtherBit(i[1], 1), g.bits)
                                       /\ u[2] = SpreadBits(EveryOtherBit(i[1], 0), g.bits)
      [] g.kind = "QuinticMul" -> u = QuinticProduct(SubSeq(i, 1, 5), SubSeq(i, 6, 10))
      [] g.kind = "QuinticSquare" -> u = QuinticProduct(i, i)

(***************************************************************************)
(* No two operations of a row share a wire, all wires are in the row, the  *)
(* ones other gates connect to are in its routed part, and no evaluator    *)
(* yields more constraints than num_constraints makes room for.  In the    *)
(* sizes of the code: the layouts are computed from widths and counts, and *)
(* an overlap shows up only as a proof that cannot be made.                *)
(***************************************************************************)
LayoutSound ==
    LET all == FlattenSeq([i \in 1 .. gate.ops |->
                 LET w == Wires(gate, i - 1) IN w.x \o w.o \o w.l])
        routed == FlattenSeq([i \in 1 .. gate.ops |->
                    LET w == Wires(gate, i - 1) IN w.x \o w.o])
        config == IF stage = "layout" THEN CIRCUIT_CONFIG ELSE SmallConfig
    IN stage \in {"layout", "generated"} =>
         /\ gate.ops > 0
         /\ Cardinality({all[k] : k \in DOMAIN all}) = Len(all)
         /\ \A k \in DOMAIN all : all[k] < config.wires
         /\ \A k \in DOMAIN routed : routed[k] < config.routed
         /\ Filled => Len(Constraints(gate, x, o, l)) <= DeclaredConstraints(gate)

(***************************************************************************)
(* The prover's and the recursive verifier's forms of the constraints have *)
(* the values of the verifier's, in the same order, on good wires and bad. *)
(* The code says of several of them that they are "bit-identical" and only *)
(* tests on random rows would tell.                                        *)
(***************************************************************************)
EvaluatorsAgree ==
    Filled => OtherEvaluators(gate, x, o, l) = {Constraints(gate, x, o, l)}

(***************************************************************************)
(* If all constraints vanish, the outputs are the integer results: the     *)
(* field's wrap-around never lets a wrong result through, neither in one   *)
(* gate nor in the gadgets made of them, whatever the prover guesses.  The *)
(* one exception is the form of the result where SignedLimbsNormalize is   *)
(* about it; its value as a field element is right there too.              *)
(***************************************************************************)
GateSound ==
    /\ Accepted => Correct(gate, x, o)
    /\ Called /\ o.ok /\ ~(SignedLimbsCalled /\ SpoiltByFullLimbs(x[1])) => o.got = o.want
    /\ SignedLimbsCalled /\ o.ok => Fp(o.got[1]) = Fp(o.want[1])

(***************************************************************************)
(* What run_once and the hint generators write satisfies the constraints,  *)
(* for all operands the gadget is meant for, and the layouts leave room    *)
(* for it: an honest prover succeeds.                                      *)
(***************************************************************************)
GateComplete ==
    /\ LayoutSound
    /\ stage = "generated" /\ Legal(gate, x) => Accepted
    /\ stage = "computed" /\ o.legal => o.ok

(***************************************************************************)
(* unsafe_big16_to_bigint "interprets the limbs as signed integers and     *)
(* normalizes them to fit into a BigIntTarget": the result is the number   *)
(* the signed limbs stand for, in limbs of 32 bits, and zero has the sign  *)
(* of zero.                                                                *)
(***************************************************************************)
SignedLimbsNormalize ==
    SignedLimbsCalled /\ o.ok => o.got = o.want
=============================================================================
