----------------------------- MODULE BlockProof -----------------------------
(***************************************************************************)
(* What the proving pipeline promises: each path's chain proof grows by    *)
(* one transaction proof at a time, in the order of its chunks, and the    *)
(* block is proved once, from the complete chain proofs of all paths.      *)
(***************************************************************************)
EXTENDS Integers, Sequences

CONSTANTS Paths, ChunkCount

VARIABLES
    chain,      \* for each path the steps folded into its latest chain proof
    proved      \* the final block proof exists

Init ==
    /\ chain = [p \in Paths |-> <<>>]
    /\ proved = FALSE

Fold(p) ==
    /\ Len(chain[p]) < ChunkCount[p]
    /\ chain' = [chain EXCEPT ![p] = Append(@, Len(@))]
    /\ UNCHANGED proved

Prove ==
    /\ ~proved
    /\ \A p \in Paths : Len(chain[p]) = ChunkCount[p]
    /\ proved' = TRUE
    /\ UNCHANGED chain

Next == (\E p \in Paths : Fold(p)) \/ Prove

Spec == Init /\ [][Next]_<<chain, proved>>
=============================================================================
