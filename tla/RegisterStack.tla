--------------------------- MODULE RegisterStack ---------------------------
(***************************************************************************)
(* The register stack as its users drive it, one operation per step.       *)
(* Every transaction of the circuit ends with push_instructions::<3>, the  *)
(* matching engine, and push_instructions::<8> (tx_constraints.rs,         *)
(* define).  Here an instruction is an element of Instr and what a handler *)
(* wants to push is arbitrary; OrderFlow drives the same operators with    *)
(* the real handlers.                                                      *)
(***************************************************************************)
EXTENDS RegisterOps, Sequences

CONSTANT Instr              \* the non-empty instructions

ASSUME EmptyIsNoInstruction == EmptyRegister \notin Instr

VARIABLE rs

Register == Instr \cup {EmptyRegister}

(* The instructions a handler has put aside, in any of the first max slots. *)
NewInstructions(max) ==
  { [slot |-> s, count |-> PlacedCount(s, NEW_INSTRUCTIONS_MAX_SIZE)] :
      s \in { t \in [NewSlots -> Register] :
                \A i \in NewSlots : i >= max => t[i] = EmptyRegister } }

APPLY_MAX == 3
MATCH_MAX == NEW_INSTRUCTIONS_MAX_SIZE

Init == rs = EmptyStack

(* pop_front: the instruction on top is done.                              *)
Consume ==
  /\ rs.count # 0
  /\ rs' = PopFront(rs)

(* There is progress on the instruction on top: a pending size goes down.  *)
Progress ==
  /\ rs.count # 0
  /\ \E instruction \in Instr : rs' = SetTop(rs, instruction)

(* The push after the transaction's handler, which puts instructions aside *)
(* only when the stack is empty.                                           *)
ApplyPush ==
  /\ IsEmpty(rs)
  /\ \E new \in NewInstructions(APPLY_MAX) :
       /\ PushAllowed(rs, new, APPLY_MAX)
       /\ rs' = PushInstructions(rs, new, APPLY_MAX)

(* The slots for the children of the taker.  They are put aside only when  *)
(* the taker has been popped.                                              *)
TAKER_CHILD_SLOTS == {4, 5}

(* Mutant: the engine matches an order with others below it. *)
MatchPush_Deeper ==
  \E new \in NewInstructions(MATCH_MAX) :
    /\ rs.count # 0 => \A i \in TAKER_CHILD_SLOTS : new.slot[i] = EmptyRegister
    /\ PushAllowed(rs, new, MATCH_MAX)
    /\ rs' = PushInstructions(rs, new, MATCH_MAX)

(* The push after the matching engine.  An order that can trade has        *)
(* nothing below it (OrderFlow, MatchesAlone), so the stack holds at most  *)
(* that order.  All of the eight slots may be in use: children of the      *)
(* maker and of the taker, position tied orders and fees of both.          *)
MatchPush ==
  /\ rs.count <= 1
  /\ \E new \in NewInstructions(MATCH_MAX) :
       /\ rs.count = 1 => \A i \in TAKER_CHILD_SLOTS : new.slot[i] = EmptyRegister
       /\ PushAllowed(rs, new, MATCH_MAX)
       /\ rs' = PushInstructions(rs, new, MATCH_MAX)

Next == Consume \/ Progress \/ ApplyPush \/ MatchPush

Spec == Init /\ [][Next]_rs

-----------------------------------------------------------------------------
(* The stack holds registers and its count fits.                           *)
TypeOK == /\ rs.stack \in [Slots -> Register]
          /\ rs.count \in 0 .. REGISTER_STACK_SIZE
          /\ DOMAIN rs = {"stack", "count"}

(* The occupied slots are exactly the first count ones: no instruction     *)
(* hides behind an empty register (where it would never be executed, as    *)
(* slot 0 decides what runs) and none is counted that is not there.        *)
NoHoles == \A i \in Slots : (rs.stack[i] # EmptyRegister) <=> (i < rs.count)

(* The last register stays free, as push_instructions assumes when it does *)
(* not shift it ("it has to be empty by business logic").                  *)
LastRegisterFree == rs.stack[REGISTER_STACK_SIZE - 1] = EmptyRegister

Pending == [i \in 1 .. rs.count |-> rs.stack[i - 1]]

Abstract == INSTANCE InstructionStack
              WITH pending <- Pending, MaxDepth <- REGISTER_STACK_SIZE - 1

(* The shifting and compacting of push_instructions and pop_front          *)
(* implement the LIFO of InstructionStack.                                 *)
RefinesInstructionStack == Abstract!Spec
=============================================================================
