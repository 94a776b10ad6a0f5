CONSTANTS
    LightChunks = 5
    HeavyChunks = 2
    Window = 3
    LIGHT_TX_PROOF_OVERLAP_START_STEP = 2
SPECIFICATION FairSpec
INVARIANTS ExclusivePhaseIsAlone ReleasedIsUnused CountersExact
PROPERTIES RefinesBlockProof ProofIsWritten
