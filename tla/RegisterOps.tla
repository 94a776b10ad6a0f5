---------------------------- MODULE RegisterOps ----------------------------
(***************************************************************************)
(* The instruction register stack of the circuit, as pure operators        *)
(* (src/circuit/src/types/register/register_stack.rs).                     *)
(*                                                                         *)
(* A transaction that cannot do all of its work in one step leaves         *)
(* instructions in the register stack; slot 0 is executed first and no     *)
(* new user transaction is accepted before the stack is empty.  An order   *)
(* or a cancel that reaches the stack is lost for good if the stack loses  *)
(* it, so the shifting below has to be exactly a push on a stack.          *)
(***************************************************************************)
EXTENDS Integers, FiniteSets

CONSTANT EmptyRegister      \* a register whose fields are all zero

REGISTER_STACK_SIZE == 9
NEW_INSTRUCTIONS_MAX_SIZE == 8

Slots    == 0 .. REGISTER_STACK_SIZE - 1
NewSlots == 0 .. NEW_INSTRUCTIONS_MAX_SIZE - 1

EmptyStack == [stack |-> [i \in Slots |-> EmptyRegister], count |-> 0]

NoNewInstructions ==
  [slot |-> [i \in NewSlots |-> EmptyRegister], count |-> 0]

(***************************************************************************)
(* put_to_instruction_stack_unsafe: the counter grows even when the slot   *)
(* is already taken, which the push below then refuses.                    *)
(***************************************************************************)
PutToInstructionStack(new, instruction, i) ==
  [slot |-> [new.slot EXCEPT ![i] = instruction], count |-> new.count + 1]

IsEmpty(rs) == \A i \in Slots : rs.stack[i] = EmptyRegister

(***************************************************************************)
(* pop_front; the circuit asserts count # 0.                               *)
(***************************************************************************)
PopFront(rs) ==
  [stack |-> [i \in Slots |-> IF i = REGISTER_STACK_SIZE - 1
                              THEN EmptyRegister ELSE rs.stack[i + 1]],
   count |-> rs.count - 1]

(***************************************************************************)
(* push_instructions::<max>.  The new instructions are first stacked to    *)
(* the left without holes: slot i goes to the place given by the number of *)
(* non-empty slots before it.                                              *)
(***************************************************************************)
PlacedCount(slot, i) == Cardinality({k \in 0 .. i - 1 : slot[k] # EmptyRegister})

NewStack(slot, max) ==
  [j \in NewSlots |->
     IF j < PlacedCount(slot, max)
     THEN slot[CHOOSE i \in 0 .. max - 1 :
                 slot[i] # EmptyRegister /\ PlacedCount(slot, i) = j]
     ELSE EmptyRegister]

PushAllowed(rs, new, max) ==
  new.count # 0 => /\ new.count = PlacedCount(new.slot, max)
                   /\ rs.count + new.count <= REGISTER_STACK_SIZE

(***************************************************************************)
(* The existing stack is shifted to the right by the number of new         *)
(* instructions, one less when its first register is empty.  The loop      *)
(* only knows the shifts 1 .. max - 1.                                     *)
(***************************************************************************)
ShiftRight(rs, new, max) ==
  LET shift == new.count - (IF rs.stack[0] = EmptyRegister THEN 1 ELSE 0)
  IN  [k \in Slots |-> IF new.count # 0 /\ shift \in 1 .. max - 1 /\ k >= shift
                       THEN rs.stack[k - shift] ELSE rs.stack[k]]

(* Mutant: the new instructions go behind the old ones. *)
PushInstructions_Behind(rs, new, max) ==
  [stack |-> [k \in Slots |-> IF k \in rs.count .. rs.count + new.count - 1
                              THEN NewStack(new.slot, max)[k - rs.count] ELSE rs.stack[k]],
   count |-> rs.count + new.count]

PushInstructions(rs, new, max) ==
  [stack |-> [k \in Slots |-> IF k < new.count /\ k < max
                              THEN NewStack(new.slot, max)[k]
                              ELSE ShiftRight(rs, new, max)[k]],
   count |-> rs.count + new.count]

(***************************************************************************)
(* Only the register on top is ever rewritten in place (pending sizes).    *)
(***************************************************************************)
SetTop(rs, instruction) == [rs EXCEPT !.stack[0] = instruction]
=============================================================================
