------------------------------ MODULE Batches ------------------------------
(***************************************************************************)
(* Blocks are folded into a segment one after the other (the cyclic        *)
(* recursion circuit), several segments are proved independently of each   *)
(* other, and the wrapper circuit merges them into the batch that the base *)
(* chain sees.  A segment proof says what it assumed of the on-chain       *)
(* operations before it (its segment info); whether that was true only the *)
(* wrapper can tell.  The prover may bring a proof of any valid block, so  *)
(* a block here is any transition between two roots at any height.         *)
(*                                                                         *)
(* A root is a pair of a state and an account delta tree, the hash of the  *)
(* on-chain operations is the sequence folded into it, and the prefix hash *)
(* of the priority operations is the number of them.  The new validium     *)
(* root is the number of the block it comes from, and so is the data of an *)
(* on-chain operation.                                                     *)
(***************************************************************************)
EXTENDS Integers, Sequences

CONSTANTS
    BatchRoots,             \* pairs of a state root and a delta tree root
    EmptyDeltaRoot,         \* EMPTY_ACCOUNT_DELTA_TREE_ROOT
    NUM_CHAINS_PER_BATCH,   \* segments a wrapper proof has room for
    OperationCounts,        \* on-chain and priority operations a block may have
    BlockNumbers, Timestamps, Prefixes,
    Infos,                  \* what a segment may assume to be published before it
    MaxBlocks               \* bound: blocks of a batch

ASSUME BatchAssumption ==
    /\ NUM_CHAINS_PER_BATCH \in Nat \ {0}
    /\ OperationCounts \subseteq [on_chain : {0, 1}, priority : {0, 1}]
    /\ BlockNumbers \cup Timestamps \cup Prefixes \subseteq Nat
    /\ \A info \in Infos : info \in Seq(BlockNumbers)
    /\ MaxBlocks \in Nat
    /\ \E root \in BatchRoots : root.delta = EmptyDeltaRoot
    /\ \A r, q \in BatchRoots : r.state = q.state /\ r.delta = q.delta => r = q

VARIABLES
    segment,        \* the segment that is being folded, or NoSegment
    merged,         \* the segments merged so far: number and batch
    described       \* history: the blocks of `merged` and of `segment`

batchVars == <<segment, merged, described>>

NoSegment == [size |-> 0]
NoBatch == [size |-> 0]

\* What the proof of a block says (BlockWitnessTarget).
Blocks ==
    [number : BlockNumbers, at : Timestamps,
     old : BatchRoots, new : BatchRoots,
     operations : OperationCounts, prefix : Prefixes]

\* The data of the operations a block publishes, in order.
PubData(block) == [i \in 1 .. block.operations.on_chain |-> block.number]
NewPrefix(block) == block.prefix + block.operations.priority

----------------------------------------------------------------------------
(***************************************************************************)
(* One step of the cyclic recursion.  The first one starts from an empty   *)
(* batch, with an assumed hash of on-chain operations.                     *)
(***************************************************************************)
aggregate_on_chain_operations_pub_data(hash, block) == hash \o PubData(block)

FirstBlock(info, block) ==
    [size |-> 1, end |-> block.number, info |-> info,
     start_at |-> block.at, end_at |-> block.at,
     old |-> block.old, new |-> block.new, validium |-> block.number,
     on_chain |-> aggregate_on_chain_operations_pub_data(info, block),
     priority_count |-> block.operations.priority,
     old_prefix |-> block.prefix, new_prefix |-> NewPrefix(block)]

perform_sanity_checks(batch, block) ==
    /\ block.number = batch.end + 1
    /\ batch.end_at <= block.at
    /\ batch.new.state = block.old.state
    /\ batch.new.delta = block.old.delta
    /\ batch.new_prefix = block.prefix

NextBlock(batch, block) ==
    [batch EXCEPT
        !.size = @ + 1, !.end = block.number, !.end_at = block.at,
        !.new = block.new, !.validium = block.number,
        !.on_chain = aggregate_on_chain_operations_pub_data(@, block),
        !.priority_count = @ + block.operations.priority, !.new_prefix = NewPrefix(block)]

BatchInit ==
    /\ segment = NoSegment
    /\ merged = [count |-> 0, batch |-> NoBatch]
    /\ described = [merged |-> <<>>, segment |-> <<>>]

Described(blocks) == Len(described.merged) + Len(described.segment) + blocks <= MaxBlocks

StartSegment(info, block) ==
    /\ segment = NoSegment
    /\ merged.count < NUM_CHAINS_PER_BATCH
    /\ Described(1)
    /\ segment' = FirstBlock(info, block)
    /\ described' = [described EXCEPT !.segment = <<block>>]
    /\ UNCHANGED merged

AggregateBlock(block) ==
    /\ segment # NoSegment
    /\ Described(1)
    /\ perform_sanity_checks(segment, block)
    /\ segment' = NextBlock(segment, block)
    /\ described' = [described EXCEPT !.segment = Append(@, block)]
    /\ UNCHANGED merged

----------------------------------------------------------------------------
(***************************************************************************)
(* The wrapper.  The first segment begins the batch, so that nothing may   *)
(* have been published before it; every other one continues it.  Slots     *)
(* from segment_count on are disabled and merge nothing.                   *)
(***************************************************************************)
(* Mutant: nobody compares what the segment assumed. *)
FirstSegmentAccepted_AnyInfo == segment.old.delta = EmptyDeltaRoot

FirstSegmentAccepted ==
    /\ segment.info = <<>>
    /\ segment.old.delta = EmptyDeltaRoot

ConsecutiveAccepted(a, b) ==
    /\ a.end = b.end - b.size
    /\ a.end_at <= b.start_at
    /\ a.new.state = b.old.state
    /\ a.new.delta = b.old.delta
    /\ a.new_prefix = b.old_prefix

merge_consecutive(a, b) ==
    [a EXCEPT
        !.end = b.end, !.size = @ + b.size, !.end_at = b.end_at,
        !.new = b.new, !.validium = b.validium, !.on_chain = b.on_chain,
        !.priority_count = @ + b.priority_count, !.new_prefix = b.new_prefix]

NextSegmentAccepted ==
    /\ segment.info = merged.batch.on_chain
    /\ ConsecutiveAccepted(merged.batch, segment)

\* handle_segment_proofs: the segment goes into the next enabled slot.
MergeSegment ==
    /\ segment # NoSegment
    /\ IF merged.count = 0 THEN FirstSegmentAccepted ELSE NextSegmentAccepted
    /\ merged' = [count |-> merged.count + 1,
                  batch |-> IF merged.count = 0 THEN segment
                            ELSE merge_consecutive(merged.batch, segment)]
    /\ described' = [merged |-> described.merged \o described.segment, segment |-> <<>>]
    /\ segment' = NoSegment

BatchNext ==
    \/ \E info \in Infos, block \in Blocks : StartSegment(info, block)
    \/ \E block \in Blocks : AggregateBlock(block)
    \/ MergeSegment

BatchSpec == BatchInit /\ [][BatchNext]_batchVars

----------------------------------------------------------------------------
\* The block b takes up where the block a left off.
Continues(a, b) ==
    /\ b.number = a.number + 1
    /\ a.at <= b.at
    /\ a.new = b.old
    /\ NewPrefix(a) = b.prefix

\* The sequence has the numbers of S, each once and in order.
Enumerates(seq, S) ==
    /\ {seq[i] : i \in 1 .. Len(seq)} = S
    /\ \A i, j \in 1 .. Len(seq) : i < j => seq[i] < seq[j]

\* The blocks that have an on-chain operation.
Publishing(blocks) ==
    {blocks[i].number : i \in {k \in 1 .. Len(blocks) : blocks[k].operations.on_chain = 1}}

\* Whatever segments a prover brings, in the batch of a wrapper proof every block
\* continues the one before it (height, time, state, changes, priority
\* operations), the changes are those since the last batch, and what is committed
\* to on the base chain (verify_batch_commitment) describes exactly these blocks:
\* no operation of a block in an earlier segment is lost or taken twice.
BatchIsItsBlocks ==
    LET blocks == described.merged
        batch == merged.batch
        n == Len(blocks)
    IN  merged.count > 0 =>
            /\ \A i \in 1 .. n - 1 : Continues(blocks[i], blocks[i + 1])
            /\ blocks[1].old.delta = EmptyDeltaRoot
            /\ batch.size = n /\ batch.end = blocks[n].number
            /\ batch.start_at = blocks[1].at /\ batch.end_at = blocks[n].at
            /\ batch.old = blocks[1].old /\ batch.new = blocks[n].new
            /\ batch.validium = blocks[n].number
            /\ Enumerates(batch.on_chain, Publishing(blocks))
            /\ batch.new_prefix = NewPrefix(blocks[n])
            /\ batch.priority_count = NewPrefix(blocks[n]) - blocks[1].prefix

============================================================================
