------------------------------ MODULE MCBlocks ------------------------------
(***************************************************************************)
(* A block for TLC, seen in three ways, each from initial states of its    *)
(* own: two chains made by any sequencer (BlockChains), the chains of the  *)
(* repository's own prover (BlockChunks), and what the heavy chain         *)
(* publishes (BlockOperations).  The first needs a smaller field and       *)
(* shorter chunks than the second, since it tries every index and root.    *)
(***************************************************************************)
EXTENDS BlockChunks, BlockOperations

CONSTANTS
    AnyRoots,                   \* what any sequencer may choose from
    AnyFieldOrder,
    AnyGapRange,
    AnyMaxTxs                   \* bound: transactions of each chain

VARIABLE view                   \* "any", "own" or "operations"

allVars == <<vars, chunkVars, view, opVars>>

AnyChains ==
    INSTANCE BlockChains WITH
        Roots <- AnyRoots, FieldOrder <- AnyFieldOrder, GapRange <- AnyGapRange,
        LIGHT_TX_PER_PROOF <- 1, HEAVY_TX_PER_PROOF <- 1,
        MaxLightTxs <- AnyMaxTxs, MaxHeavyTxs <- AnyMaxTxs

ASSUME AnyChainsAssumption == AnyChains!ConstantsAssumption

----------------------------------------------------------------------------
ViewInit ==
    /\ view \in {"any", "own", "operations"}
    /\ IF view = "own" THEN ChunkInit
       ELSE /\ AnyChains!Init
            /\ txs = <<>> /\ rest = <<>> /\ chunks = <<>> /\ pc = "idle"
            /\ buf = [c \in Chains |-> <<>>]
    /\ OperationsInit

ViewNext ==
    /\ UNCHANGED view
    /\ \/ view = "any" /\ AnyChains!Next /\ UNCHANGED <<chunkVars, opVars>>
       \/ view = "own" /\ ChunkNext /\ UNCHANGED opVars
       \/ view = "operations" /\ OperationsNext /\ UNCHANGED <<vars, chunkVars>>

ViewSpec == ViewInit /\ [][ViewNext]_allVars

----------------------------------------------------------------------------
\* No block that is one sequential execution is refused.  Of any sequencer's
\* chains the block circuit accepts those that are one execution; the chains of
\* the repository's own prover always are (define_jump_checks, chunk_txs).  And
\* of what the heavy chain publishes, only what is too much for one block is
\* refused (BlockOperations).
NoGoodBlockRefused ==
    CASE view = "any" -> AnyChains!EverySplitIsAccepted
      [] view = "own" -> EverySplitIsAccepted /\ EveryBlockIsProved
      [] OTHER        -> OnlyExcessIsRefused

============================================================================
