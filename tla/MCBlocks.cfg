CONSTANTS
    Open = Open
    Roots = {0, 1, 2, 3, 4, 5, 6}
    InitialRoot = 0
    FieldOrder = 101
    GapRange = 8
    LIGHT_TX_PER_PROOF = 3
    HEAVY_TX_PER_PROOF = 2
    MaxLightTxs = 6
    MaxHeavyTxs = 6
    MaxBlockTxs = 6
    HeavyEmptyTxCount = 0
    LightEmptyTxCount = 4
    AnyRoots = {0, 1}
    AnyFieldOrder = 11
    AnyGapRange = 3
    AnyMaxTxs = 3
    Accounts = {0, 1}
    ON_CHAIN_OPERATIONS_LIMIT = 2
    MaxSegments = 2
SPECIFICATION ViewSpec
INVARIANTS BlockIsSequential NoGoodBlockRefused PublishesExactly
CHECK_DEADLOCK FALSE
