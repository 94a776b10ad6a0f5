---------------------------- MODULE DeltaStream ----------------------------
(***************************************************************************)
(* How the changes of a batch reach the base chain.  The transaction       *)
(* circuits leave the root of a tree of account deltas.  The delta circuit *)
(* takes its leaves in order, a few per proof, builds the root again from  *)
(* left to right with only one path of hashes in hand, and digests every   *)
(* leaf as a sequence of numbers.  The wrapper circuit compares them with  *)
(* the blob, in which each number is a half-byte for its length and then   *)
(* its half-bytes; the exit tool reads the blob without knowing any of it. *)
(*                                                                         *)
(* A hash is the pair of what it covers.  The evaluation of a polynomial   *)
(* at a point drawn from both sides stands for its coefficients.  Numbers  *)
(* are packed as in the code, with fewer bits.                             *)
(***************************************************************************)
EXTENDS Integers, Sequences, SequencesExt

CONSTANTS
    ACCOUNT_MERKLE_LEVELS,      \* (48)
    LeavesPerProof,             \* leaves of one delta proof
    MaxProofs,                  \* bound: proofs of the delta chain
    NonEmptyLeaves,             \* what may be said of which account
    MinBlob,                    \* half-bytes of a blob: at least,
    MaxRest                     \* bound: half-bytes left after the data

Levels == 0 .. ACCOUNT_MERKLE_LEVELS - 1
NIL_ACCOUNT_INDEX == 2 ^ ACCOUNT_MERKLE_LEVELS - 1
MAX_ACCOUNT_INDEX == NIL_ACCOUNT_INDEX - 1
AccountIndexes == 0 .. NIL_ACCOUNT_INDEX
NEG_ONE == -1

Markets == 0 .. 1
Assets == 0 .. 3
MIN_ASSET_INDEX == 1
MAX_ASSET_INDEX == 2
ShareSlots == 1 .. 2

NoPosition == [position |-> 0, funding |-> 0]
NoShare == [pool |-> 0, delta |-> 0]
EmptyContent ==
    [l1_address |-> 0, type |-> 0, total |-> 0, operator |-> 0,
     positions |-> [m \in Markets |-> NoPosition],
     assets |-> [a \in Assets |-> 0],
     shares |-> [s \in ShareSlots |-> NoShare]]

VARIABLES
    aggregated,     \* AggregatedDelta: index, path matrix, digested numbers
    proofs,         \* delta proofs in the chain
    leaves,         \* history: the leaves that were digested
    blob            \* the half-bytes that were published, or NoBlob

deltaVars == <<aggregated, proofs, leaves, blob>>

NoBlob == <<>>

----------------------------------------------------------------------------
(***************************************************************************)
(* Packing.  In the model a byte has one bit, an address is 20 bytes in    *)
(* limbs of four, a funding sum has four limbs of four bits of which the   *)
(* last gives its highest bit away, a balance is two halves of three bits. *)
(***************************************************************************)
Abs(n) == IF n < 0 THEN -n ELSE n
Negative(n) == IF n < 0 THEN 1 ELSE 0
Bit(condition) == IF condition THEN 1 ELSE 0

LimbOf(address, i) == (address \div 2 ^ (4 * i)) % 2 ^ 4

pack_l1_address(address) ==
    << (LimbOf(address, 1) % 2 ^ 3) * 2 ^ 4 + LimbOf(address, 0),
       (LimbOf(address, 3) % 2 ^ 2) * 2 ^ 5 + LimbOf(address, 2) * 2 + LimbOf(address, 1) \div 2 ^ 3,
       LimbOf(address, 4) * 2 ^ 2 + LimbOf(address, 3) \div 2 ^ 2 >>

MARKET_BITS == 1
FUNDING_LOW == 2 ^ 15

pack_position(market, p) ==
    << (Abs(p.funding) \div FUNDING_LOW) * 2 ^ MARKET_BITS + market,
       Abs(p.funding) % FUNDING_LOW,
       (Abs(p.position) * 2 + Negative(p.position)) * 2 + Negative(p.funding) >>

ASSET_BITS == 2
BALANCE_LOW == 2 ^ 3

pack_asset_balance(asset, balance) ==
    << ((Abs(balance) % BALANCE_LOW) * 2 + Negative(balance)) * 2 ^ ASSET_BITS + asset,
       Abs(balance) \div BALANCE_LOW >>

HasPoolInfo(c) == c.total # 0 \/ c.operator # 0

pack_conditionals_with_account_type(c) ==
    (c.type * 2 + Bit(HasPoolInfo(c))) * 2 + Bit(c.l1_address # 0)

PackedPoolInfo(c) ==
    << Negative(c.total) * 2 + Negative(c.operator), Abs(c.total), Abs(c.operator) >>

PackedShare(s) == << (MAX_ACCOUNT_INDEX - s.pool) * 2 + Negative(s.delta), Abs(s.delta) >>

\* A list in the stream: how many are not empty, then each of these.
Listed(indexes, Empty(_), Packed(_)) ==
    LET present == SelectSeq(indexes, LAMBDA i : ~Empty(i))
    IN  <<Len(present)>> \o FlattenSeq([k \in 1 .. Len(present) |-> Packed(present[k])])

When(condition, numbers) == IF condition THEN numbers ELSE <<>>

\* The index that the next one is a difference to.
LastAccountIndex(index) == IF index = NEG_ONE THEN 0 ELSE index

\* What eval_delta_polynomial digests of a leaf that is not nil.
Digested(leaf, last) ==
    LET c == leaf.content
    IN  <<leaf.index - last, pack_conditionals_with_account_type(c)>>
        \o When(c.l1_address # 0, pack_l1_address(c.l1_address))
        \o When(HasPoolInfo(c), PackedPoolInfo(c))
        \o Listed(<<0, 1>>, LAMBDA m : c.positions[m] = NoPosition,
                  LAMBDA m : pack_position(m, c.positions[m]))
        \o Listed([k \in 1 .. MAX_ASSET_INDEX - MIN_ASSET_INDEX + 1 |-> MIN_ASSET_INDEX + k - 1],
                  LAMBDA a : c.assets[a] = 0,
                  LAMBDA a : pack_asset_balance(a, c.assets[a]))
        \o Listed(<<1, 2>>, LAMBDA s : c.shares[s].delta = 0,
                  LAMBDA s : PackedShare(c.shares[s]))

----------------------------------------------------------------------------
(***************************************************************************)
(* The tree of deltas, from left to right.  path_matrix holds, for each    *)
(* level, the two children on the path from the last leaf to the root.     *)
(***************************************************************************)
\* Shares count as empty by their amount; the pool they name does not matter.
IsEmpty(c) ==
    c = [EmptyContent EXCEPT !.shares = [s \in ShareSlots |-> [pool |-> c.shares[s].pool, delta |-> 0]]]

LeafHash(c) == IF IsEmpty(c) THEN <<>> ELSE <<c>>

EMPTY_DELTA_TREE_HASHES ==
    LET empty[j \in 0 .. ACCOUNT_MERKLE_LEVELS] ==
            IF j = 0 THEN <<>> ELSE <<empty[j - 1], empty[j - 1]>>
    IN  empty

RightChild(index, j) == (index \div 2 ^ j) % 2 = 1
SameSide(a, b, j) == RightChild(a, j) = RightChild(b, j)

(* Mutant: counts every level on which the paths agree. *)
LcaHeight_AllLevels(current, prev) ==
    ACCOUNT_MERKLE_LEVELS - Len(SelectSeq([j \in 1 .. ACCOUNT_MERKLE_LEVELS |-> j - 1],
                                          LAMBDA j : SameSide(current, prev, j)))

\* Height of the lowest common ancestor, 0 if the indices are the same.
LcaHeight(current, prev) ==
    CHOOSE h \in 0 .. ACCOUNT_MERKLE_LEVELS :
        /\ \A j \in h .. ACCOUNT_MERKLE_LEVELS - 1 : SameSide(current, prev, j)
        /\ h > 0 => ~SameSide(current, prev, h - 1)

EmptyMatrix == [side \in 0 .. 1 |-> [j \in Levels |-> EMPTY_DELTA_TREE_HASHES[j]]]

\* The path matrix after a leaf, which comes after the leaf at `prev`.
Inserted(matrix, leaf, prev) ==
    LET lca == LcaHeight(leaf.index, prev)
        has_common_parent(j) == lca \in 1 .. j + 1
        other(j) == IF ~has_common_parent(j) THEN EMPTY_DELTA_TREE_HASHES[j]
                    ELSE IF RightChild(leaf.index, j) THEN matrix[0][j] ELSE matrix[1][j]
        left(j, hash)  == IF RightChild(leaf.index, j) THEN other(j) ELSE hash
        right(j, hash) == IF RightChild(leaf.index, j) THEN hash ELSE other(j)
        hash[j \in 0 .. ACCOUNT_MERKLE_LEVELS] ==
            IF j = 0 THEN LeafHash(leaf.content)
            ELSE <<left(j - 1, hash[j - 1]), right(j - 1, hash[j - 1])>>
    IN  [side \in 0 .. 1 |-> [j \in Levels |-> hash[j + 1][side + 1]]]

get_root(matrix) ==
    <<matrix[0][ACCOUNT_MERKLE_LEVELS - 1], matrix[1][ACCOUNT_MERKLE_LEVELS - 1]>>

----------------------------------------------------------------------------
(***************************************************************************)
(* One proof of the delta circuit, and its place in the chain.             *)
(***************************************************************************)
Leaves == NonEmptyLeaves \cup [index : {0, NIL_ACCOUNT_INDEX}, content : {EmptyContent}]

ShouldEvaluate(leaf) == leaf.index # NIL_ACCOUNT_INDEX

\* Leaves are sorted, not empty, and followed only by nil leaves.
LeavesAccepted(ls) ==
    \A i \in 1 .. LeavesPerProof :
        LET prev == IF i = 1 THEN aggregated.account_index ELSE ls[i - 1].index
        IN  /\ (\E k \in 1 .. i : ~ShouldEvaluate(ls[k])) => ~ShouldEvaluate(ls[i])
            /\ IsEmpty(ls[i].content) <=> ~ShouldEvaluate(ls[i])
            /\ ShouldEvaluate(ls[i]) /\ prev # NEG_ONE => prev < ls[i].index

\* The state of the loops of populate_delta_tree and eval_delta_polynomial.
AfterLeaf(state, leaf) ==
    IF ShouldEvaluate(leaf)
    THEN [account_index |-> leaf.index,
          path_matrix |-> Inserted(state.path_matrix, leaf, LastAccountIndex(state.account_index)),
          numbers |-> state.numbers \o Digested(leaf, LastAccountIndex(state.account_index))]
    ELSE [state EXCEPT !.account_index = leaf.index]

DeltaInit ==
    /\ aggregated = [account_index |-> NEG_ONE, path_matrix |-> EmptyMatrix, numbers |-> <<>>]
    /\ proofs = 0
    /\ leaves = <<>>
    /\ blob = NoBlob

\* merge_evaluations appends what the proof digested to what the chain has.
DeltaProof(ls) ==
    /\ blob = NoBlob
    /\ proofs < MaxProofs
    /\ LeavesAccepted(ls)
    /\ aggregated' = FoldLeft(AfterLeaf, aggregated, ls)
    /\ proofs' = proofs + 1
    /\ leaves' = leaves \o SelectSeq(ls, ShouldEvaluate)
    /\ UNCHANGED blob

----------------------------------------------------------------------------
(***************************************************************************)
(* The blob.  The sequencer writes each number with its length in front    *)
(* and fills the rest with zeros; the wrapper lets it write leading zeros  *)
(* too, and does not see a number that the end of the blob cuts off.       *)
(***************************************************************************)
CHUNK_MAX == 16

number_to_chunks(number) ==
    LET digits[n \in Nat] == IF n = 0 THEN <<>> ELSE Append(digits[n \div CHUNK_MAX], n % CHUNK_MAX)
    IN  <<Len(digits[number])>> \o digits[number]

Widened(chunks) == <<chunks[1] + 1, 0>> \o Tail(chunks)

\* How a blob may be written: wide numbers, half-bytes left over, the last number cut off.
Styles == [wide : BOOLEAN, rest : 0 .. MaxRest, cut : BOOLEAN]

BlobOf(numbers, style) ==
    LET chunks(n) == IF style.wide THEN Widened(number_to_chunks(n)) ELSE number_to_chunks(n)
        rest == [i \in 1 .. style.rest |->
                    IF style.cut /\ i = (IF style.rest > 2 THEN style.rest ELSE 1)
                    THEN style.rest ELSE 0]
    IN  FlattenSeq([i \in 1 .. Len(numbers) |-> chunks(numbers[i])]) \o rest

\* A blob has whole bytes and room for an account without changes.
WellFormed(halfBytes) == Len(halfBytes) % 2 = 0 /\ Len(halfBytes) >= MinBlob

\* EvaluateBitstreamGate over the half-bytes (bitstream_single_digest).
BitstreamDigest(state, chunk) ==
    LET left == IF state.number_ending THEN chunk ELSE state.chunks_left - 1
        number == IF state.number_ending THEN 0 ELSE state.number_accumulator * CHUNK_MAX + chunk
    IN  [chunks_left |-> left, number_ending |-> left = 0, number_accumulator |-> number,
         numbers |-> IF left = 0 THEN Append(state.numbers, number) ELSE state.numbers]

Bitstream(halfBytes) ==
    FoldLeft(BitstreamDigest,
             [chunks_left |-> 0, number_ending |-> TRUE, number_accumulator |-> 0,
              numbers |-> <<>>], halfBytes).numbers

\* Equal polynomials once the shorter one is shifted by the difference of degrees.
verify_delta_polynomial_evaluation(halfBytes) ==
    LET numbers == Bitstream(halfBytes)
        difference == Len(numbers) - Len(aggregated.numbers)
    IN  /\ difference >= 0
        /\ numbers = aggregated.numbers \o [i \in 1 .. difference |-> 0]

PublishBlob(style) ==
    LET halfBytes == BlobOf(aggregated.numbers, style)
    IN  /\ blob = NoBlob
        /\ proofs > 0
        /\ WellFormed(halfBytes)
        /\ verify_delta_polynomial_evaluation(halfBytes)
        /\ blob' = [half_bytes |-> halfBytes, style |-> style]
        /\ UNCHANGED <<aggregated, proofs, leaves>>

DeltaNext ==
    \/ \E ls \in [1 .. LeavesPerProof -> Leaves] : DeltaProof(ls)
    \/ \E style \in Styles : PublishBlob(style)

----------------------------------------------------------------------------
(***************************************************************************)
(* The exit tool's reader.  Reading past the end ends the program.         *)
(***************************************************************************)
\* DecompressTarget: one more number of `limbs`, after those read so far.
DecompressTarget(limbs, reader) ==
    LET size == limbs[reader.offset]
        value == FoldLeft(LAMBDA v, limb : v * CHUNK_MAX + limb, 0,
                          SubSeq(limbs, reader.offset + 1, reader.offset + size))
    IN  IF ~reader.ok \/ reader.offset > Len(limbs) \/ reader.offset + size > Len(limbs)
        THEN [reader EXCEPT !.ok = FALSE]
        ELSE [reader EXCEPT !.offset = @ + size + 1, !.values = Append(@, value)]

Read(limbs, reader, count) ==
    FoldLeft(LAMBDA r, i : DecompressTarget(limbs, r), reader, [i \in 1 .. count |-> i])

\* A list with its length in front, each entry of `width` numbers.
ReadList(limbs, reader, width) ==
    LET counted == Read(limbs, reader, 1)
    IN  IF counted.ok THEN Read(limbs, counted, width * Last(counted.values)) ELSE counted

Signed(abs, negative) == IF negative = 1 THEN -abs ELSE abs

Entries(values, from, width) ==
    { [k \in 1 .. width |-> values[from + (i - 1) * width + k]] : i \in 1 .. values[from] }

EntryAt(entries, Key(_), key, default, Value(_)) ==
    IF \E e \in entries : Key(e) = key THEN Value(CHOOSE e \in entries : Key(e) = key) ELSE default

L1AddressRead(v, at) == (v[at] % 2 ^ 7) + (v[at + 1] % 2 ^ 7) * 2 ^ 7 + (v[at + 2] % 2 ^ 6) * 2 ^ 14

\* What the numbers of one account say.
ContentRead(v) ==
    LET hasL1 == v[2] % 2 = 1
        hasInfo == (v[2] \div 2) % 2 = 1
        info == IF hasL1 THEN 6 ELSE 3
        pos == IF hasInfo THEN info + 3 ELSE info
        ast == pos + 1 + 3 * v[pos]
        shr == ast + 1 + 2 * v[ast]
    IN  [l1_address |-> IF hasL1 THEN L1AddressRead(v, 3) ELSE 0,
         type |-> v[2] \div 4,
         total |-> IF hasInfo THEN Signed(v[info + 1], (v[info] \div 2) % 2) ELSE 0,
         operator |-> IF hasInfo THEN Signed(v[info + 2], v[info] % 2) ELSE 0,
         positions |-> [m \in Markets |->
            EntryAt(Entries(v, pos, 3), LAMBDA e : e[1] % 2 ^ MARKET_BITS, m, NoPosition,
                    LAMBDA e : [position |-> Signed(e[3] \div 4, (e[3] \div 2) % 2),
                                funding |-> Signed(e[2] + (e[1] \div 2 ^ MARKET_BITS) * FUNDING_LOW,
                                                   e[3] % 2)])],
         assets |-> [a \in Assets |->
            EntryAt(Entries(v, ast, 2), LAMBDA e : e[1] % 2 ^ ASSET_BITS, a, 0,
                    LAMBDA e : Signed(e[2] * BALANCE_LOW + e[1] \div 2 ^ (ASSET_BITS + 1),
                                      (e[1] \div 2 ^ ASSET_BITS) % 2))],
         shares |-> { [pool |-> MAX_ACCOUNT_INDEX - e[1] \div 2, delta |-> Signed(e[2], e[1] % 2)] :
                        e \in Entries(v, shr, 2) }]

RECURSIVE DeltasFrom(_, _, _, _)
DeltasFrom(limbs, offset, last, deltas) ==
    LET first == offset = 1
        started == [offset |-> offset, values |-> <<>>, ok |-> TRUE]
        diff == Read(limbs, started, 1)
        flags == Read(limbs, diff, 1)
        flag == IF flags.ok THEN Last(flags.values) ELSE 0
        optional == Read(limbs, flags, 3 * (flag % 2) + 3 * ((flag \div 2) % 2))
        end == ReadList(limbs, ReadList(limbs, ReadList(limbs, optional, 3), 2), 2)
        index == last + end.values[1]
    IN  IF Len(limbs) - offset + 1 <= 1 \/ (diff.ok /\ diff.values[1] = 0 /\ ~first)
        THEN [ok |-> TRUE, deltas |-> deltas]
        ELSE IF ~end.ok THEN [ok |-> FALSE, deltas |-> deltas]
        ELSE DeltasFrom(limbs, end.offset, index, (index :> ContentRead(end.values)) @@ deltas)

bytesToAccountDeltas(limbs) == DeltasFrom(limbs, 1, 0, <<>>)

----------------------------------------------------------------------------
\* What of a leaf matters to a reader: shares without amount are no shares.
Public(c) == [c EXCEPT !.shares = {c.shares[s] : s \in {t \in ShareSlots : c.shares[t].delta # 0}}]

ContentAt(index) ==
    IF \E i \in 1 .. Len(leaves) : leaves[i].index = index
    THEN leaves[CHOOSE i \in 1 .. Len(leaves) : leaves[i].index = index].content
    ELSE EmptyContent

\* The root of the whole tree, node by node.
SparseRoot ==
    LET node[j \in 0 .. ACCOUNT_MERKLE_LEVELS, p \in AccountIndexes] ==
            IF j = 0 THEN LeafHash(ContentAt(p)) ELSE <<node[j - 1, 2 * p], node[j - 1, 2 * p + 1]>>
    IN  node[ACCOUNT_MERKLE_LEVELS, 0]

DeltaAt(deltas, index) == IF index \in DOMAIN deltas THEN deltas[index] ELSE Public(EmptyContent)

\* The root that the delta chain computes from one path is that of the tree of
\* all its leaves, so that by comparing roots the wrapper has compared every
\* change; the blob as the sequencer writes it is accepted; and from any blob
\* that is accepted the exit tool reads exactly these changes, or nothing.
BlobDescribesDeltas ==
    /\ get_root(aggregated.path_matrix) = SparseRoot
    /\ blob = NoBlob => \A rest \in 0 .. MaxRest :
          LET halfBytes == BlobOf(aggregated.numbers, [wide |-> FALSE, rest |-> rest, cut |-> FALSE])
          IN  WellFormed(halfBytes) => verify_delta_polynomial_evaluation(halfBytes)
    /\ blob # NoBlob =>
          LET read == bytesToAccountDeltas(blob.half_bytes)
          IN  /\ ~read.ok => blob.style.cut
              /\ read.ok => \A index \in AccountIndexes :
                                DeltaAt(read.deltas, index) = Public(ContentAt(index))

============================================================================
