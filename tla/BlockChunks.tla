---------------------------- MODULE BlockChunks ----------------------------
(***************************************************************************)
(* The honest prover's side of BlockChains: from the list of a block's     *)
(* transactions to the chunks that the two chains prove.  Transactions get *)
(* their indices, are grouped by circuit type into chunks, and the last    *)
(* chunk of a type is filled with copies of the empty transaction that     *)
(* ends the list.  Roots are numbers: i is the root after i transactions.  *)
(***************************************************************************)
EXTENDS BlockChains, SequencesExt

CONSTANTS
    MaxBlockTxs,            \* bound: active transactions of a block
    HeavyEmptyTxCount,      \* padding of a block without active transactions
    LightEmptyTxCount

VARIABLES
    txs,        \* the block's active transactions, with their circuit types
    rest,       \* the ones not grouped yet
    buf,        \* the group of each type that is being filled
    chunks,     \* the finished groups
    pc          \* "chunk", then "prove"

chunkVars == <<txs, rest, buf, chunks, pc>>

EmptyTxCount == [light |-> LightEmptyTxCount, heavy |-> HeavyEmptyTxCount]

----------------------------------------------------------------------------
\* The transactions in order; each gets the next index.
IndexedTxs(types) ==
    [i \in DOMAIN types |->
        [empty |-> FALSE, index |-> i - 1, type |-> types[i], old |-> i - 1, new |-> i]]

OfType(c) == SelectSeq(txs, LAMBDA tx : tx.type = c)

(* Mutant: padding repeats the last index of the block. *)
LastIndex_OfBlock(c) == IF txs = <<>> THEN NEG_ONE ELSE Last(txs).index

\* Padding repeats the index of the last active transaction of its own type.
LastIndex(c) == IF OfType(c) = <<>> THEN NEG_ONE ELSE Last(OfType(c)).index
Padding(c) ==
    [empty |-> TRUE, index |-> LastIndex(c), type |-> c, old |-> Len(txs), new |-> Len(txs)]

PadTo(c, group) ==
    [k \in 1 .. TxPerProof[c] |-> IF k <= Len(group) THEN group[k] ELSE Padding(c)]

\* Both types contribute at least one group.
PaddedGroup(c) ==
    IF buf[c] = <<>> /\ OfType(c) # <<>> THEN <<>> ELSE <<PadTo(c, buf[c])>>

DivCeil(a, b) == (a + b - 1) \div b
EmptyGroups(c) ==
    LET needed == DivCeil(EmptyTxCount[c], TxPerProof[c])
    IN  [k \in 1 .. (IF needed = 0 THEN 1 ELSE needed) |-> PadTo(c, <<>>)]

\* A chunk belongs to the path of its first transaction.
ChunksOf(c) == SelectSeq(chunks, LAMBDA chunk : chunk[1].type = c)
Work(c) == FlattenSeq(ChunksOf(c))

----------------------------------------------------------------------------
ChunkInit ==
    /\ Init
    /\ \E n \in 0 .. MaxBlockTxs : \E types \in [1 .. n -> Chains] : txs = IndexedTxs(types)
    /\ rest = txs
    /\ buf = [c \in Chains |-> <<>>]
    /\ chunks = <<>>
    /\ pc = "chunk"

\* One round of the loop of chunk_txs: a group is emitted as soon as it is full.
GroupTx ==
    /\ pc = "chunk"
    /\ rest # <<>>
    /\ LET c == Head(rest).type
           group == Append(buf[c], Head(rest))
           full == Len(group) = TxPerProof[c]
       IN  /\ buf' = [buf EXCEPT ![c] = IF full THEN <<>> ELSE group]
           /\ chunks' = IF full THEN Append(chunks, group) ELSE chunks
    /\ rest' = Tail(rest)
    /\ UNCHANGED <<vars, txs, pc>>

PadGroups ==
    /\ pc = "chunk"
    /\ rest = <<>>
    /\ chunks' = IF txs = <<>> THEN EmptyGroups("heavy") \o EmptyGroups("light")
                 ELSE chunks \o PaddedGroup("heavy") \o PaddedGroup("light")
    /\ buf' = [c \in Chains |-> <<>>]
    /\ pc' = "prove"
    /\ UNCHANGED <<vars, txs, rest>>

\* The path c proves its next transaction.
ProveTx(c) ==
    /\ pc = "prove"
    /\ size[c] < Len(Work(c))
    /\ LET tx == Work(c)[size[c] + 1]
       IN  DefineTx(c, [empty |-> tx.empty, index |-> tx.index, old |-> tx.old, new |-> tx.new])
    /\ UNCHANGED chunkVars

ProveBlock ==
    /\ pc = "prove"
    /\ \A c \in Chains : size[c] = Len(Work(c))
    /\ DefineBlock
    /\ UNCHANGED chunkVars

ChunkNext ==
    \/ GroupTx
    \/ PadGroups
    \/ \E c \in Chains : ProveTx(c)
    \/ ProveBlock

----------------------------------------------------------------------------
\* However its transactions are distributed over the two types, every block is
\* proved: the prover is never left with a transaction that its chain's circuit
\* refuses or with chains that the block circuit refuses, and the block ends in
\* the root of the last transaction (from_json_with_empty_txs and chunk_txs
\* against define_jump_checks).  Each step uses up a transaction, so a prover
\* that can always go on does end.
EveryBlockIsProved == block = Len(txs) \/ ENABLED ChunkNext

============================================================================
