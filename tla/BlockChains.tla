---------------------------- MODULE BlockChains ----------------------------
(***************************************************************************)
(* A block is proved by two chains of transaction proofs, one for the      *)
(* light and one for the heavy transactions.  Neither chain sees the       *)
(* other's transactions.  Each carries a jump state: what it covered       *)
(* (runs of consecutive transaction indices with the roots before and      *)
(* after) and what it claims of the other chain (the runs it jumped over). *)
(* The block circuit accepts the two chains if each covers exactly what    *)
(* the other claims.  The sequencer chooses indices, roots and padding;    *)
(* the model lets it choose anything that the circuits accept.             *)
(*                                                                         *)
(* A root stands for the pair of state root and account delta tree root,   *)
(* which the code always handles side by side.  A folded hash is the       *)
(* sequence of the records folded into it: the hash is collision free.     *)
(* What the transactions publish besides is in BlockOperations.            *)
(***************************************************************************)
EXTENDS Integers, Sequences, FiniteSets

CONSTANTS
    Roots,                  \* roots of valid states
    InitialRoot,            \* the root after pre-execution
    Open,                   \* no root: the block is not proved yet
    FieldOrder,             \* the field of indices and counters (2^64 - 2^32 + 1)
    GapRange,               \* bound of the range check of a gap (2^32)
    LIGHT_TX_PER_PROOF,
    HEAVY_TX_PER_PROOF,
    MaxLightTxs,            \* transactions of a block, padding included (490)
    MaxHeavyTxs             \* (12)

\* Indices never wrap around the field: a chain is too short for its gaps.
ASSUME ConstantsAssumption ==
    /\ InitialRoot \in Roots
    /\ Open \notin Roots
    /\ {LIGHT_TX_PER_PROOF, HEAVY_TX_PER_PROOF, MaxLightTxs, MaxHeavyTxs,
        GapRange, FieldOrder} \subseteq Nat \ {0}
    /\ MaxLightTxs * GapRange < FieldOrder - 1
    /\ MaxHeavyTxs * GapRange < FieldOrder - 1
    /\ MaxLightTxs + MaxHeavyTxs < FieldOrder - 1

Chains == {"light", "heavy"}

TxPerProof == [light |-> LIGHT_TX_PER_PROOF, heavy |-> HEAVY_TX_PER_PROOF]
MaxTxs == [light |-> MaxLightTxs, heavy |-> MaxHeavyTxs]

VARIABLES
    jump,       \* the chain's jump state
    exposed,    \* the root after the chain's last transaction, padding included
    size,       \* transactions in the chain, padding included
    log,        \* history: the chain's active transactions
    block       \* the new root of the proved block, or Open

vars == <<jump, exposed, size, log, block>>

----------------------------------------------------------------------------
\* Field arithmetic.
Field == 0 .. FieldOrder - 1
Add(a, b) == (a + b) % FieldOrder
Sub(a, b) == (a - b) % FieldOrder
NEG_ONE == FieldOrder - 1

Record(from, to, old, new) == [from |-> from, to |-> to, old |-> old, new |-> new]

InitialJump ==
    [last_active_tx_index |-> NEG_ONE, prev_new_root |-> InitialRoot,
     run_start_prev_index |-> NEG_ONE, run_start_old_root |-> InitialRoot,
     coverage |-> <<>>, claims |-> <<>>, tx_count |-> 0]

\* The open run of a chain: the indices after its start up to the last one.
CoverageRecord(j) ==
    Record(j.run_start_prev_index, Add(j.last_active_tx_index, 1),
           j.run_start_old_root, j.prev_new_root)

\* The chain claims that the other one leads from its last root to `root`.
ClaimRecord(j, index, root) ==
    Record(j.last_active_tx_index, index, j.prev_new_root, root)

RunNonempty(j) == j.last_active_tx_index # j.run_start_prev_index
FoldIf(condition, hash, record) == IF condition THEN Append(hash, record) ELSE hash

----------------------------------------------------------------------------
(***************************************************************************)
(* One transaction of a chain.  An empty transaction is padding, and only  *)
(* padding repeats the last index.                                         *)
(***************************************************************************)
GapMinusOne(j, tx) == Sub(Sub(tx.index, j.last_active_tx_index), 1)

JumpStepAccepted(j, tx) ==
    /\ tx.empty <=> tx.index = j.last_active_tx_index
    /\ ~tx.empty => GapMinusOne(j, tx) < GapRange
    /\ ~tx.empty /\ GapMinusOne(j, tx) = 0 => tx.old = j.prev_new_root

DefineJumpStep(j, tx) ==
    LET jumped == GapMinusOne(j, tx) # 0
    IN  IF tx.empty THEN j
        ELSE [last_active_tx_index |-> tx.index,
              prev_new_root        |-> tx.new,
              run_start_prev_index |-> IF jumped THEN Sub(tx.index, 1) ELSE j.run_start_prev_index,
              run_start_old_root   |-> IF jumped THEN tx.old ELSE j.run_start_old_root,
              coverage |-> FoldIf(jumped /\ RunNonempty(j), j.coverage, CoverageRecord(j)),
              claims   |-> FoldIf(jumped, j.claims, ClaimRecord(j, tx.index, tx.old)),
              tx_count |-> Add(j.tx_count, 1)]

\* Closes the open run, and claims what comes after it unless it ends the block.
FinalizeJump(j, total, root) ==
    [coverage |-> FoldIf(RunNonempty(j), j.coverage, CoverageRecord(j)),
     claims   |-> FoldIf(Add(j.last_active_tx_index, 1) # total, j.claims,
                         ClaimRecord(j, total, root))]

TotalTxCount == Add(jump["light"].tx_count, jump["heavy"].tx_count)
IsEnd(c) == Add(jump[c].last_active_tx_index, 1) = TotalTxCount
EndChain == IF IsEnd("heavy") THEN "heavy" ELSE "light"

(* Mutant: padding may end the block in a root of its own. *)
JumpChecksAccepted_PaddedRoot ==
    LET final(c) == FinalizeJump(jump[c], TotalTxCount, exposed[EndChain])
    IN  /\ \E c \in Chains : IsEnd(c)
        /\ final("heavy").coverage = final("light").claims
        /\ final("light").coverage = final("heavy").claims

JumpChecksAccepted ==
    LET final(c) == FinalizeJump(jump[c], TotalTxCount, exposed[EndChain])
    IN  /\ \E c \in Chains : IsEnd(c)
        /\ exposed[EndChain] = jump[EndChain].prev_new_root
        /\ final("heavy").coverage = final("light").claims
        /\ final("light").coverage = final("heavy").claims

----------------------------------------------------------------------------
Init ==
    /\ jump = [c \in Chains |-> InitialJump]
    /\ exposed = [c \in Chains |-> InitialRoot]
    /\ size = [c \in Chains |-> 0]
    /\ log = [c \in Chains |-> <<>>]
    /\ block = Open

\* The chain c takes the transaction tx; a root's transition is proved elsewhere.
DefineTx(c, tx) ==
    /\ block = Open
    /\ size[c] < MaxTxs[c]
    /\ JumpStepAccepted(jump[c], tx)
    /\ jump' = [jump EXCEPT ![c] = DefineJumpStep(@, tx)]
    /\ exposed' = [exposed EXCEPT ![c] = tx.new]
    /\ size' = [size EXCEPT ![c] = @ + 1]
    /\ log' = [log EXCEPT ![c] = IF tx.empty THEN @ ELSE Append(@, tx)]
    /\ UNCHANGED block

ActiveTx(c) ==
    \E tx \in [empty : {FALSE}, index : Field, old : Roots, new : Roots] : DefineTx(c, tx)

\* Padding changes nothing, but it may start from any valid state.
PaddingTx(c) ==
    \E tx \in [empty : {TRUE}, index : {jump[c].last_active_tx_index}, old : Roots, new : Roots] :
        tx.old = tx.new /\ DefineTx(c, tx)

\* A chain consists of whole chunks, at least one.
WholeChunks(c) == size[c] > 0 /\ size[c] % TxPerProof[c] = 0

DefineBlock ==
    /\ block = Open
    /\ \A c \in Chains : WholeChunks(c)
    /\ JumpChecksAccepted
    /\ block' = exposed[EndChain]
    /\ UNCHANGED <<jump, exposed, size, log>>

Next ==
    \/ \E c \in Chains : ActiveTx(c) \/ PaddingTx(c)
    \/ DefineBlock

Spec == Init /\ [][Next]_vars

----------------------------------------------------------------------------
AllTxs == UNION {{log[c][k] : k \in 1 .. Len(log[c])} : c \in Chains}
TxTotal == Len(log["light"]) + Len(log["heavy"])

\* The transactions of both chains are one execution from the initial root:
\* the indices are the first TxTotal numbers (so each occurs once, in one
\* chain), and each transaction starts from the root the one before it left.
Sequential ==
    /\ {tx.index : tx \in AllTxs} = 0 .. TxTotal - 1
    /\ \A tx \in AllTxs : tx.index = 0 => tx.old = InitialRoot
    /\ \A tx, next \in AllTxs : next.index = tx.index + 1 => next.old = tx.new

\* The root after the last transaction, in whichever chain it is.
LastRoot ==
    IF TxTotal = 0 THEN InitialRoot
    ELSE (CHOOSE tx \in AllTxs : tx.index = TxTotal - 1).new

\* A proved block is one sequential execution of the transactions of both
\* chains, and its new root is the root after the last of them, whatever
\* indices, roots and padding the sequencer chose (define_jump_checks).
BlockIsSequential ==
    block # Open => Sequential /\ block = LastRoot

\* Conversely the block circuit refuses no sequential execution, however it is
\* divided between the chains, if the ending chain's padding keeps its root.
EverySplitIsAccepted ==
    Sequential /\ exposed[EndChain] = LastRoot => JumpChecksAccepted

============================================================================
