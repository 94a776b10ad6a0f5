---------------------------- MODULE MCPublicData ----------------------------
(***************************************************************************)
(* For TLC: how what the transactions change reaches the base chain, seen  *)
(* in three ways, each from an initial state of its own: the roots that a  *)
(* transaction leaves (StateTrees), the batch made of the blocks (Batches) *)
(* and the stream of the changes of a batch (DeltaStream).                 *)
(***************************************************************************)
EXTENDS StateTrees, Batches

CONSTANTS MaxDeltaProofs, MaxRest

VARIABLES view,             \* "trees", "batch" or "stream"
          aggregated, proofs, leaves, blob

streamVars == <<aggregated, proofs, leaves, blob>>
allVars == <<vars, batchVars, streamVars, view>>

\* Changes of every kind, with numbers that fill and overflow their limbs.
Unchanged ==
    [l1_address |-> 0, type |-> 0, total |-> 0, operator |-> 0,
     positions |-> [m \in 0 .. 1 |-> [position |-> 0, funding |-> 0]],
     assets |-> [a \in 0 .. 3 |-> 0],
     shares |-> [s \in 1 .. 2 |-> [pool |-> 0, delta |-> 0]]]
Changes ==
    << [Unchanged EXCEPT !.l1_address = 678975, !.type = 2, !.total = -3, !.operator = 1],
       [Unchanged EXCEPT !.positions[0] = [position |-> -1, funding |-> 40000],
                         !.positions[1] = [position |-> 0, funding |-> -5],
                         !.assets[1] = -37],
       [Unchanged EXCEPT !.assets[2] = 9, !.shares[1].pool = 3,
                         !.shares[2] = [pool |-> 6, delta |-> -2]] >>

Stream ==
    INSTANCE DeltaStream WITH
        ACCOUNT_MERKLE_LEVELS <- 3, LeavesPerProof <- 2, MaxProofs <- MaxDeltaProofs,
        NonEmptyLeaves <- { [index |-> i, content |-> Changes[(i % 3) + 1]] : i \in {0, 1, 2, 5, 6} },
        MinBlob <- 6

\* The delta tree of a batch begins empty, and may become empty again.
TwoRoots == [state : {0}, delta : {0, 1}] \cup [state : {1}, delta : {1}]
OneOperation == { [on_chain |-> 1, priority |-> 0], [on_chain |-> 0, priority |-> 1] }
AnyInfos == { <<>>, <<1>> }

\* WLOG a batch begins with the first block at the first time.
BeginsAtFirst ==
    described.merged = <<>> /\ Len(described.segment) = 1 =>
        LET block == described.segment[1]
        IN  block.number = 1 /\ block.at = 0 /\ block.prefix = 0

----------------------------------------------------------------------------
ViewInit ==
    /\ view \in {"trees", "batch", "stream"}
    /\ Init /\ BatchInit /\ Stream!DeltaInit

ViewNext ==
    /\ UNCHANGED view
    /\ \/ view = "trees" /\ Next /\ UNCHANGED <<batchVars, streamVars>>
       \/ view = "batch" /\ BatchNext /\ BeginsAtFirst' /\ UNCHANGED <<vars, streamVars>>
       \/ view = "stream" /\ Stream!DeltaNext /\ UNCHANGED <<vars, batchVars>>

ViewSpec == ViewInit /\ [][ViewNext]_allVars

----------------------------------------------------------------------------
\* The changes of accounts reach the base chain as they are: the tree of changes
\* explains the tree of public data (ChangesExplainPublicData), and the blob of a
\* batch describes exactly the changes (BlobDescribesDeltas).
PublicDataIsExplained ==
    CASE view = "trees"  -> ChangesExplainPublicData
      [] view = "stream" -> Stream!BlobDescribesDeltas
      [] OTHER           -> TRUE

=============================================================================
