-------------------------- MODULE BlockOperations --------------------------
(***************************************************************************)
(* What a block tells the base chain: its on-chain operations, its         *)
(* priority operation and the one message that an L1 key has signed.       *)
(* A heavy proof collects them over the transactions of one segment, the   *)
(* chain over the segments, and the block circuit publishes them.  Each    *)
(* level has room for a few and selects or refuses; an operation that fell *)
(* out between two levels would be executed without the base chain.  Light *)
(* proofs carry none: the light circuit admits no type that has any.  The  *)
(* jump states of the same chain are in BlockChains.                       *)
(*                                                                         *)
(* An operation's data is the number of its transaction in the chain.  A   *)
(* message is empty when its account index is 0, as in the code.           *)
(***************************************************************************)
EXTENDS BlockChains

CONSTANTS
    Accounts,                   \* account indices
    ON_CHAIN_OPERATIONS_LIMIT,  \* (1)
    MaxSegments                 \* bound: segments of a chain

ASSUME OperationsAssumption == ON_CHAIN_OPERATIONS_LIMIT \in Nat

TREASURY_ACCOUNT_INDEX == 0

MessageKinds == {"change_pub_key", "transfer", "approve_integrator"}
NoData == 0
NoMessage == [account |-> 0, tx |-> NoData]
Slots == 0 .. ON_CHAIN_OPERATIONS_LIMIT - 1

VARIABLES
    opLog,      \* history: the transactions of the heavy chain
    segment,    \* what the transactions of the current segment gave
    chain,      \* what the segments so far gave
    segments,   \* number of segments in the chain
    published   \* what the block publishes, or Open

opVars == <<opLog, segment, chain, segments, published>>

----------------------------------------------------------------------------
(***************************************************************************)
(* Transactions.  "layer1" stands for every priority transaction, which    *)
(* may have on-chain data too (withdrawals, deposits that are returned);   *)
(* "l2_withdraw" has on-chain data only.                                   *)
(***************************************************************************)
Types == MessageKinds \cup {"layer1", "l2_withdraw", "other"}

Txs == [type : Types, account : Accounts, same_master : BOOLEAN,
        no_fees : BOOLEAN, on_chain : BOOLEAN]

\* What a transaction's fields mean nothing for is fixed, so that it is there once.
WellFormed(tx) ==
    /\ tx.type \notin {"transfer", "approve_integrator"} => ~tx.same_master
    /\ tx.type # "approve_integrator" => ~tx.no_fees
    /\ tx.type # "layer1" => tx.on_chain = (tx.type = "l2_withdraw")

(* Mutant: the treasury may do anything. *)
TreasuryAllowed_Any(tx) == TRUE

\* The treasury may transfer and withdraw, but sign no message.
TreasuryAllowed(tx) ==
    tx.account = TREASURY_ACCOUNT_INDEX => tx.type \notin {"change_pub_key", "approve_integrator"}

\* A transfer of the treasury stays among its own accounts.
TransferAllowed(tx) ==
    tx.type = "transfer" /\ tx.account = TREASURY_ACCOUNT_INDEX => tx.same_master

ExistsPriority(tx) == tx.type = "layer1"
ExistsOnChain(tx) == tx.on_chain

\* Which message of an L1 key a transaction needs, if any.
NeedsL1Signature(tx, kind) ==
    /\ tx.type = kind
    /\ kind = "transfer" => ~tx.same_master
    /\ kind = "approve_integrator" => ~(tx.same_master \/ tx.no_fees)

----------------------------------------------------------------------------
(***************************************************************************)
(* A segment: the transactions of one proof.                               *)
(***************************************************************************)
EmptySegment ==
    [size |-> 0, on_chain_count |-> 0, on_chain |-> NoData,
     priority_count |-> 0, priority |-> NoData,
     message_count |-> [kind \in MessageKinds |-> 0],
     message |-> [kind \in MessageKinds |-> NoMessage]]

EmptyChain ==
    [on_chain_count |-> 0, on_chain |-> [i \in Slots |-> NoData],
     priority_count |-> 0, priority |-> NoData,
     message |-> [kind \in MessageKinds |-> NoMessage]]

OperationsInit ==
    /\ opLog = <<>>
    /\ segment = EmptySegment
    /\ chain = EmptyChain
    /\ segments = 0
    /\ published = Open

One(condition) == IF condition THEN 1 ELSE 0
Select(condition, a, b) == IF condition THEN a ELSE b

\* Data of a later transaction replaces that of an earlier one; the counts tell.
DefineHeavyTx(tx) ==
    LET id == Len(opLog) + 1
        needs(kind) == NeedsL1Signature(tx, kind)
    IN  /\ published = Open
        /\ segments < MaxSegments
        /\ segment.size < HEAVY_TX_PER_PROOF
        /\ WellFormed(tx) /\ TreasuryAllowed(tx) /\ TransferAllowed(tx)
        /\ segment' =
              [size |-> segment.size + 1,
               on_chain_count |-> segment.on_chain_count + One(ExistsOnChain(tx)),
               on_chain |-> Select(ExistsOnChain(tx), id, segment.on_chain),
               priority_count |-> segment.priority_count + One(ExistsPriority(tx)),
               priority |-> Select(ExistsPriority(tx), id, segment.priority),
               message_count |-> [kind \in MessageKinds |->
                    segment.message_count[kind] + One(needs(kind))],
               message |-> [kind \in MessageKinds |->
                    Select(needs(kind), [account |-> tx.account, tx |-> id], segment.message[kind])]]
        /\ opLog' = Append(opLog, tx)
        /\ UNCHANGED <<chain, segments, published>>

\* define_post_tx_batch: at most one message of each kind in a segment.
PostTxBatchAccepted == \A kind \in MessageKinds : segment.message_count[kind] <= 1

----------------------------------------------------------------------------
(***************************************************************************)
(* A step of the chain takes the proof of one segment.                     *)
(***************************************************************************)
MessageExists(message) == message.account # 0

MessagesAccepted ==
    \A kind \in MessageKinds :
        MessageExists(segment.message[kind]) => ~MessageExists(chain.message[kind])

PriorityAccepted ==
    /\ segment.priority_count # 0 => chain.priority_count = 0
    /\ segment.priority_count <= 1

OnChainAccepted ==
    /\ segment.on_chain_count # 0 => chain.on_chain_count # ON_CHAIN_OPERATIONS_LIMIT
    /\ segment.on_chain_count <= 1

SegmentAccepted ==
    PostTxBatchAccepted /\ MessagesAccepted /\ PriorityAccepted /\ OnChainAccepted

DefineChainStep ==
    /\ published = Open
    /\ segment.size = HEAVY_TX_PER_PROOF
    /\ SegmentAccepted
    /\ chain' =
          [on_chain_count |-> chain.on_chain_count + segment.on_chain_count,
           on_chain |-> [i \in Slots |->
                Select(segment.on_chain_count # 0 /\ i = chain.on_chain_count,
                       segment.on_chain, chain.on_chain[i])],
           priority_count |-> chain.priority_count + segment.priority_count,
           priority |-> Select(segment.priority_count # 0, segment.priority, chain.priority),
           message |-> [kind \in MessageKinds |->
                Select(MessageExists(segment.message[kind]),
                       segment.message[kind], chain.message[kind])]]
    /\ segments' = segments + 1
    /\ segment' = EmptySegment
    /\ UNCHANGED <<opLog, published>>

----------------------------------------------------------------------------
(***************************************************************************)
(* The block circuit verifies one signature and publishes the operations.  *)
(***************************************************************************)
ExistingKinds == {kind \in MessageKinds : MessageExists(chain.message[kind])}

\* A block can have only one L1 signature.
AtMostOneMessage == Cardinality(ExistingKinds) <= 1

PublishBlock ==
    /\ published = Open
    /\ segments > 0 /\ segment.size = 0
    /\ AtMostOneMessage
    /\ published' = [on_chain |-> [i \in 1 .. chain.on_chain_count |-> chain.on_chain[i - 1]],
                 priority |-> Select(chain.priority_count # 0, <<chain.priority>>, <<>>),
                 signed   |-> {chain.message[kind].tx : kind \in ExistingKinds}]
    /\ UNCHANGED <<opLog, segment, chain, segments>>

OperationsNext ==
    \/ \E tx \in Txs : DefineHeavyTx(tx)
    \/ DefineChainStep
    \/ PublishBlock

OperationsSpec == OperationsInit /\ [][OperationsNext]_opVars

----------------------------------------------------------------------------
OnChainTxs == {i \in 1 .. Len(opLog) : ExistsOnChain(opLog[i])}
PriorityTxs == {i \in 1 .. Len(opLog) : ExistsPriority(opLog[i])}
Signable == {i \in 1 .. Len(opLog) : \E kind \in MessageKinds : NeedsL1Signature(opLog[i], kind)}

\* The sequence has the numbers of S, each once and in order.
Enumerates(seq, S) ==
    /\ {seq[i] : i \in 1 .. Len(seq)} = S
    /\ \A i, j \in 1 .. Len(seq) : i < j => seq[i] < seq[j]

\* A proved block tells the base chain exactly what its transactions did: every
\* on-chain operation, in order, the priority operation, and every transaction
\* that needs the signature of an L1 key has been checked for one.
PublishesExactly ==
    published # Open =>
        /\ Enumerates(published.on_chain, OnChainTxs)
        /\ Enumerates(published.priority, PriorityTxs)
        /\ published.signed = Signable

\* Conversely nothing that fits is refused: a chain is refused only if the
\* transactions have more operations than the limits allow.
OnlyExcessIsRefused ==
    /\ Cardinality(OnChainTxs) <= ON_CHAIN_OPERATIONS_LIMIT
    /\ Cardinality(PriorityTxs) <= 1
    /\ Cardinality(Signable) <= 1
    => (segment.on_chain_count <= 1 => SegmentAccepted) /\ AtMostOneMessage

============================================================================
