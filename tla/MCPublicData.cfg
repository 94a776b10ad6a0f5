\* Trees: three accounts, one of them still empty, in every arrangement of the
\* slots; two transactions, the second with any part of its witness out of date.
\* Batches: three blocks in up to three segments.  Stream: up to four changed
\* accounts of five in two proofs.
CONSTANTS
    Accounts = {1, 2, 3}
    Treasury = 0
    MaxTx = 2
    BatchRoots <- TwoRoots
    EmptyDeltaRoot = 0
    NUM_CHAINS_PER_BATCH = 3
    OperationCounts <- OneOperation
    BlockNumbers = {1, 2, 3}
    Timestamps = {0, 1}
    Prefixes = {0, 1}
    Infos <- AnyInfos
    MaxBlocks = 3
    MaxDeltaProofs = 2
    MaxRest = 6
SPECIFICATION ViewSpec
INVARIANTS
    RootsCommitToLedger
    NothingStaleIsRead
    CurrentWitnessIsProved
    PublicDataIsExplained
    BatchIsItsBlocks
CHECK_DEADLOCK FALSE
