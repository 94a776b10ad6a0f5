-------------------------- MODULE InstructionStack --------------------------
(***************************************************************************)
(* What the register stack promises: a bounded LIFO of instructions.       *)
(* Whatever lies below the top is never lost, duplicated, reordered or     *)
(* changed.                                                                *)
(***************************************************************************)
EXTENDS Integers, Sequences

CONSTANT MaxDepth

VARIABLE pending            \* pending[1] is executed first

Init == pending = <<>>

(* One operation per step: the top is dropped, or rewritten, or new        *)
(* instructions are put in front of all others.                            *)
Pop     == pending # <<>> /\ pending' = Tail(pending)

Rewrite == /\ pending # <<>> /\ pending' # <<>>
           /\ Tail(pending') = Tail(pending)

Push    == /\ Len(pending') \in Len(pending) .. MaxDepth
           /\ pending' = SubSeq(pending', 1, Len(pending') - Len(pending)) \o pending

Next == Pop \/ Rewrite \/ Push

Spec == Init /\ [][Next]_pending
=============================================================================
