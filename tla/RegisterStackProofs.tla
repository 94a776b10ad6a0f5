------------------------ MODULE RegisterStackProofs ------------------------
(***************************************************************************)
(* Proofs about the register stack, for every set of instructions: the     *)
(* compaction and the shift of push_instructions are a push on a stack,    *)
(* the stack never has a hole, its last register stays free, and it        *)
(* implements the bounded LIFO of InstructionStack.                        *)
(***************************************************************************)
EXTENDS RegisterStack, FiniteSetTheorems, TLAPS

-----------------------------------------------------------------------------
(* The places the compaction loop hands out.                               *)

(* The loop's counter goes up by one for every occupied slot it passes.    *)
LEMMA PlacedStep ==
  ASSUME NEW slot \in [NewSlots -> Register]
  PROVE  /\ PlacedCount(slot, 0) = 0
         /\ \A i \in 0 .. NEW_INSTRUCTIONS_MAX_SIZE : PlacedCount(slot, i) \in Nat
         /\ \A i \in NewSlots :
              PlacedCount(slot, i + 1) =
                PlacedCount(slot, i) + (IF slot[i] # EmptyRegister THEN 1 ELSE 0)
<1> DEFINE S(i) == {k \in 0 .. i - 1 : slot[k] # EmptyRegister}
<1>1. \A i \in 0 .. NEW_INSTRUCTIONS_MAX_SIZE :
        IsFiniteSet(S(i)) /\ Cardinality(S(i)) \in Nat
  <2> TAKE i \in 0 .. NEW_INSTRUCTIONS_MAX_SIZE
  <2>1. IsFiniteSet(0 .. i - 1)
    BY FS_Interval DEF NEW_INSTRUCTIONS_MAX_SIZE
  <2>2. S(i) \subseteq 0 .. i - 1
    OBVIOUS
  <2> HIDE DEF S
  <2> QED
    BY <2>1, <2>2, FS_Subset, FS_CardinalityType
<1>2. S(0) = {}
  OBVIOUS
<1>3. \A i \in NewSlots :
        Cardinality(S(i + 1)) =
          Cardinality(S(i)) + (IF slot[i] # EmptyRegister THEN 1 ELSE 0)
  <2> TAKE i \in NewSlots
  <2>1. i \in 0 .. NEW_INSTRUCTIONS_MAX_SIZE /\ i \notin S(i)
    BY DEF NewSlots, NEW_INSTRUCTIONS_MAX_SIZE
  <2>2. CASE slot[i] # EmptyRegister
    <3>1. S(i + 1) = S(i) \cup {i}
      BY <2>2 DEF NewSlots, NEW_INSTRUCTIONS_MAX_SIZE
    <3> HIDE DEF S
    <3> QED
      BY <1>1, <2>1, <2>2, <3>1, FS_AddElement
  <2>3. CASE slot[i] = EmptyRegister
    <3>1. S(i + 1) = S(i)
      BY <2>3 DEF NewSlots, NEW_INSTRUCTIONS_MAX_SIZE
    <3> HIDE DEF S
    <3> QED
      BY <1>1, <2>1, <2>3, <3>1
  <2> QED
    BY <2>2, <2>3
<1> QED
  BY <1>1, <1>2, <1>3, FS_EmptySet DEF PlacedCount

(* Every place below the final counter was handed out to an occupied slot. *)
LEMMA PlaceIsTaken ==
  ASSUME NEW slot \in [NewSlots -> Register],
         NEW max \in {APPLY_MAX, MATCH_MAX},
         NEW j \in Nat, j < PlacedCount(slot, max)
  PROVE  \E i \in 0 .. max - 1 : /\ slot[i] # EmptyRegister
                                 /\ PlacedCount(slot, i) = j
<1> DEFINE p(i) == PlacedCount(slot, i)
<1>1. /\ p(0) = 0
      /\ \A i \in 0 .. 8 : p(i) \in Nat
      /\ \A i \in 0 .. 7 : p(i + 1) = p(i) + (IF slot[i] # EmptyRegister THEN 1 ELSE 0)
  BY PlacedStep DEF NewSlots, NEW_INSTRUCTIONS_MAX_SIZE
<1>2. SUFFICES ASSUME \A i \in 0 .. max - 1 :
                        p(i) = j => slot[i] = EmptyRegister
               PROVE  FALSE
  OBVIOUS
<1>3. max \in {3, 8}
  BY DEF APPLY_MAX, MATCH_MAX, NEW_INSTRUCTIONS_MAX_SIZE
<1> HIDE DEF p
<1>4. \A i \in 0 .. max - 1 : p(i) <= j => p(i + 1) <= j
  BY <1>1, <1>2, <1>3
<1>5. p(1) <= j /\ p(2) <= j /\ p(3) <= j
  BY <1>1, <1>3, <1>4
<1>6. CASE max = 8
  <2>1. p(4) <= j /\ p(5) <= j /\ p(6) <= j
    BY <1>4, <1>5, <1>6
  <2>2. p(7) <= j /\ p(8) <= j
    BY <1>4, <1>6, <2>1
  <2> QED
    BY <1>1, <1>6, <2>2 DEF p
<1> QED
  BY <1>1, <1>3, <1>5, <1>6 DEF p

(* The compacted new instructions: as many as the counter says, without a  *)
(* hole.                                                                   *)
LEMMA NewStackCompact ==
  ASSUME NEW slot \in [NewSlots -> Register],
         NEW max \in {APPLY_MAX, MATCH_MAX}
  PROVE  \A j \in NewSlots :
           NewStack(slot, max)[j] \in
             IF j < PlacedCount(slot, max) THEN Instr ELSE {EmptyRegister}
<1> TAKE j \in NewSlots
<1>1. CASE j < PlacedCount(slot, max)
  <2> DEFINE i == CHOOSE i \in 0 .. max - 1 :
                     slot[i] # EmptyRegister /\ PlacedCount(slot, i) = j
  <2>0. \E k \in 0 .. max - 1 :
          slot[k] # EmptyRegister /\ PlacedCount(slot, k) = j
    BY <1>1, PlaceIsTaken DEF NewSlots, NEW_INSTRUCTIONS_MAX_SIZE
  <2>1. i \in 0 .. max - 1 /\ slot[i] # EmptyRegister
    BY <2>0
  <2>2. i \in NewSlots
    BY <2>1 DEF NewSlots, APPLY_MAX, MATCH_MAX, NEW_INSTRUCTIONS_MAX_SIZE
  <2>3. NewStack(slot, max)[j] = slot[i]
    BY <1>1 DEF NewStack
  <2> HIDE DEF i
  <2> QED
    BY <1>1, <2>1, <2>2, <2>3 DEF Register
<1>2. CASE ~(j < PlacedCount(slot, max))
  BY <1>2 DEF NewStack
<1> QED
  BY <1>1, <1>2

-----------------------------------------------------------------------------
(* Push and pop on a stack without holes.                                  *)

WellFormed(r) ==
  /\ r = [stack |-> r.stack, count |-> r.count]
  /\ r.stack \in [Slots -> Register]
  /\ r.count \in 0 .. REGISTER_STACK_SIZE - 1
  /\ \A i \in Slots : (r.stack[i] # EmptyRegister) <=> (i < r.count)

Contents(r) == [i \in 1 .. r.count |-> r.stack[i - 1]]

(* No more new instructions are counted than there are slots to use.       *)
LEMMA NewCountBound ==
  ASSUME NEW max \in {APPLY_MAX, MATCH_MAX}, NEW new \in NewInstructions(max)
  PROVE  new.count \in 0 .. max /\ new.count = PlacedCount(new.slot, max)
<1>1. PICK s \in [NewSlots -> Register] :
        /\ \A i \in NewSlots : i >= max => s[i] = EmptyRegister
        /\ new = [slot |-> s, count |-> PlacedCount(s, NEW_INSTRUCTIONS_MAX_SIZE)]
  BY DEF NewInstructions
<1>2. max \in {3, 8} /\ NewSlots = 0 .. 7
  BY DEF APPLY_MAX, MATCH_MAX, NEW_INSTRUCTIONS_MAX_SIZE, NewSlots
<1>3. new.count \in 0 .. max /\ new.count = PlacedCount(s, max)
  <2> DEFINE p(i) == PlacedCount(s, i)
  <2>1. /\ p(0) = 0
        /\ \A i \in 0 .. 8 : p(i) \in Nat
        /\ \A i \in 0 .. 7 : p(i + 1) = p(i) + (IF s[i] # EmptyRegister THEN 1 ELSE 0)
    BY PlacedStep DEF NewSlots, NEW_INSTRUCTIONS_MAX_SIZE
  <2>2. new.count = p(8)
    BY <1>1 DEF NEW_INSTRUCTIONS_MAX_SIZE
  <2> HIDE DEF p
  <2>3. p(1) \in 0 .. 1 /\ p(2) \in 0 .. 2 /\ p(3) \in 0 .. 3
    BY <2>1
  <2>4. p(4) \in 0 .. 4 /\ p(5) \in 0 .. 5 /\ p(6) \in 0 .. 6
    BY <2>1, <2>3
  <2>5. p(7) \in 0 .. 7 /\ p(8) \in 0 .. 8
    BY <2>1, <2>4
  <2>6. CASE max = 3
    <3>1. s[3] = EmptyRegister /\ s[4] = EmptyRegister /\ s[5] = EmptyRegister
          /\ s[6] = EmptyRegister /\ s[7] = EmptyRegister
      BY <1>1, <1>2, <2>6
    <3>2. p(4) = p(3) /\ p(5) = p(4) /\ p(6) = p(5) /\ p(7) = p(6) /\ p(8) = p(7)
      BY <2>1, <2>3, <2>4, <2>5, <3>1
    <3> QED
      BY <2>2, <2>3, <2>6, <3>2 DEF p
  <2>7. CASE max = 8
    BY <2>2, <2>5, <2>7 DEF p
  <2> QED
    BY <1>2, <2>6, <2>7
<1> QED
  BY <1>1, <1>3

(* Without the children of the taker there are at most six.                *)
LEMMA StayCountBound ==
  ASSUME NEW new \in NewInstructions(MATCH_MAX),
         \A i \in TAKER_CHILD_SLOTS : new.slot[i] = EmptyRegister
  PROVE  new.count \in 0 .. 6
<1>1. PICK s \in [NewSlots -> Register] :
        new = [slot |-> s, count |-> PlacedCount(s, NEW_INSTRUCTIONS_MAX_SIZE)]
  BY DEF NewInstructions
<1> DEFINE p(i) == PlacedCount(s, i)
<1>2. /\ p(0) = 0
      /\ \A i \in 0 .. 8 : p(i) \in Nat
      /\ \A i \in 0 .. 7 : p(i + 1) = p(i) + (IF s[i] # EmptyRegister THEN 1 ELSE 0)
  BY PlacedStep DEF NewSlots, NEW_INSTRUCTIONS_MAX_SIZE
<1>3. new.count = p(8) /\ s[4] = EmptyRegister /\ s[5] = EmptyRegister
  BY <1>1 DEF NEW_INSTRUCTIONS_MAX_SIZE, TAKER_CHILD_SLOTS
<1> HIDE DEF p
<1>4. p(1) \in 0 .. 1 /\ p(2) \in 0 .. 2 /\ p(3) \in 0 .. 3 /\ p(4) \in 0 .. 4
  BY <1>2
<1>5. p(5) = p(4) /\ p(6) = p(5)
  BY <1>2, <1>3, <1>4
<1>6. p(7) \in 0 .. 5 /\ p(8) \in 0 .. 6
  BY <1>2, <1>4, <1>5
<1> QED
  BY <1>3, <1>6

(* What a push leaves in every slot: the new instructions first, then the  *)
(* old ones in their order.  It needs a shift the loop knows: either the   *)
(* stack is empty or fewer instructions than slots are pushed.             *)
LEMMA PushShifts ==
  ASSUME NEW r, WellFormed(r),
         NEW max \in {APPLY_MAX, MATCH_MAX},
         NEW new \in NewInstructions(max),
         PushAllowed(r, new, max),
         r.count = 0 \/ new.count < max,
         r.count + new.count <= REGISTER_STACK_SIZE - 1
  PROVE  LET q == PushInstructions(r, new, max)
         IN  /\ new.count \in 0 .. max
             /\ q = [stack |-> q.stack, count |-> r.count + new.count]
             /\ q.stack \in [Slots -> Register]
             /\ \A k \in Slots : k < new.count => q.stack[k] \in Instr
             /\ \A k \in Slots : k >= new.count => q.stack[k] = r.stack[k - new.count]
<1> DEFINE q == PushInstructions(r, new, max)
<1>1. PICK s \in [NewSlots -> Register] :
        /\ \A i \in NewSlots : i >= max => s[i] = EmptyRegister
        /\ new = [slot |-> s, count |-> PlacedCount(s, NEW_INSTRUCTIONS_MAX_SIZE)]
  BY DEF NewInstructions
<1>2. max \in {3, 8} /\ NewSlots = 0 .. 7 /\ Slots = 0 .. 8
  BY DEF APPLY_MAX, MATCH_MAX, NEW_INSTRUCTIONS_MAX_SIZE, NewSlots, Slots,
         REGISTER_STACK_SIZE
<1>3. new.count \in 0 .. max /\ new.count = PlacedCount(s, max)
  BY <1>1, NewCountBound
<1>4. /\ r.count \in 0 .. 8 /\ r.count + new.count <= 8
      /\ r.stack \in [0 .. 8 -> Register]
      /\ \A i \in 0 .. 8 : (r.stack[i] # EmptyRegister) <=> (i < r.count)
  BY <1>2 DEF WellFormed, REGISTER_STACK_SIZE
<1>5. q.count = r.count + new.count /\ q = [stack |-> q.stack, count |-> q.count]
  BY DEF PushInstructions
<1>6. \A k \in 0 .. 8 : k < new.count =>
        q.stack[k] = NewStack(s, max)[k] /\ NewStack(s, max)[k] \in Instr
  <2> TAKE k \in 0 .. 8
  <2> HAVE k < new.count
  <2>1. k \in NewSlots /\ k < max
    BY <1>2, <1>3
  <2>2. NewStack(s, max)[k] \in Instr
    BY <1>3, <2>1, NewStackCompact
  <2>3. q.stack[k] = NewStack(new.slot, max)[k]
    BY <1>2, <2>1 DEF PushInstructions
  <2> QED
    BY <1>1, <2>2, <2>3
<1>7. \A k \in 0 .. 8 : k >= new.count => q.stack[k] = ShiftRight(r, new, max)[k]
  <2> TAKE k \in 0 .. 8
  <2> HAVE k >= new.count
  <2> QED
    BY <1>2, <1>3 DEF PushInstructions
<1>8. \A k \in 0 .. 8 : k >= new.count =>
        ShiftRight(r, new, max)[k] = r.stack[k - new.count]
  <2> TAKE k \in 0 .. 8
  <2> HAVE k >= new.count
  <2>1. CASE new.count = 0
    BY <1>2, <2>1 DEF ShiftRight
  <2>2. CASE new.count # 0 /\ r.count # 0
    <3>1. r.stack[0] # EmptyRegister
      BY <1>4, <2>2
    <3>2. new.count \in 1 .. max - 1
      BY <1>2, <1>3, <2>2
    <3> QED
      BY <1>2, <1>3, <3>1, <3>2 DEF ShiftRight
  <2>3. CASE new.count # 0 /\ r.count = 0
    <3>1. \A i \in 0 .. 8 : r.stack[i] = EmptyRegister
      BY <1>4, <2>3
    <3>2. ShiftRight(r, new, max)[k] = EmptyRegister
      BY <1>2, <1>3, <2>3, <3>1 DEF ShiftRight
    <3>3. k - new.count \in 0 .. 8
      BY <1>2, <1>3
    <3> QED
      BY <3>1, <3>2, <3>3
  <2> QED
    BY <2>1, <2>2, <2>3
<1>9. q.stack \in [Slots -> Register]
  <2>1. DOMAIN q.stack = Slots /\ q.stack = [k \in Slots |-> q.stack[k]]
    BY DEF PushInstructions
  <2>2. \A k \in 0 .. 8 : q.stack[k] \in Register
    <3> TAKE k \in 0 .. 8
    <3>1. CASE k < new.count
      BY <1>6, <3>1 DEF Register
    <3>2. CASE k >= new.count
      <4>1. k - new.count \in 0 .. 8
        BY <1>2, <1>3, <3>2
      <4> QED
        BY <1>4, <1>7, <1>8, <3>2, <4>1
    <3> QED
      BY <1>2, <1>3, <3>1, <3>2
  <2> QED
    BY <1>2, <2>1, <2>2
<1> HIDE DEF q
<1>10. \A k \in Slots : k < new.count => q.stack[k] \in Instr
  BY <1>2, <1>6
<1>11. \A k \in Slots : k >= new.count => q.stack[k] = r.stack[k - new.count]
  BY <1>2, <1>7, <1>8
<1> QED
  BY <1>3, <1>5, <1>9, <1>10, <1>11 DEF q

(* A push keeps the stack without holes and puts the new instructions in   *)
(* front of the old ones.                                                  *)
LEMMA PushIsPrepend ==
  ASSUME NEW r, WellFormed(r),
         NEW max \in {APPLY_MAX, MATCH_MAX},
         NEW new \in NewInstructions(max),
         PushAllowed(r, new, max),
         r.count = 0 \/ new.count < max,
         r.count + new.count <= REGISTER_STACK_SIZE - 1
  PROVE  LET q == PushInstructions(r, new, max)
         IN  /\ WellFormed(q)
             /\ q.count = r.count + new.count
             /\ \A k \in 1 .. r.count : Contents(q)[new.count + k] = Contents(r)[k]
<1> DEFINE q == PushInstructions(r, new, max)
<1>1. /\ new.count \in 0 .. max
      /\ q = [stack |-> q.stack, count |-> r.count + new.count]
      /\ q.stack \in [Slots -> Register]
      /\ \A k \in Slots : k < new.count => q.stack[k] \in Instr
      /\ \A k \in Slots : k >= new.count => q.stack[k] = r.stack[k - new.count]
  BY PushShifts
<1> HIDE DEF q
<1>2. max \in {3, 8} /\ Slots = 0 .. 8 /\ REGISTER_STACK_SIZE = 9
  BY DEF APPLY_MAX, MATCH_MAX, NEW_INSTRUCTIONS_MAX_SIZE, Slots, REGISTER_STACK_SIZE
<1>3. /\ r.count \in 0 .. 8 /\ r.count + new.count <= 8
      /\ \A i \in 0 .. 8 : (r.stack[i] # EmptyRegister) <=> (i < r.count)
  BY <1>2 DEF WellFormed
<1>4. q.count = r.count + new.count /\ q = [stack |-> q.stack, count |-> q.count]
  BY <1>1
<1>5. \A k \in 0 .. 8 : (q.stack[k] # EmptyRegister) <=> (k < q.count)
  <2> TAKE k \in 0 .. 8
  <2>1. CASE k < new.count
    BY <1>1, <1>2, <1>3, <1>4, <2>1, EmptyIsNoInstruction
  <2>2. CASE k >= new.count
    <3>1. k - new.count \in 0 .. 8
      BY <1>1, <1>2, <2>2
    <3>2. q.stack[k] = r.stack[k - new.count]
      BY <1>1, <1>2, <2>2
    <3>3. (r.stack[k - new.count] # EmptyRegister) <=> (k - new.count < r.count)
      BY <1>3, <3>1
    <3>4. (k - new.count < r.count) <=> (k < q.count)
      BY <1>1, <1>2, <1>3, <1>4
    <3> QED
      BY <3>2, <3>3, <3>4
  <2> QED
    BY <1>1, <1>2, <2>1, <2>2
<1>6. WellFormed(q)
  BY <1>1, <1>2, <1>3, <1>4, <1>5 DEF WellFormed
<1>7. \A k \in 1 .. r.count : Contents(q)[new.count + k] = Contents(r)[k]
  <2> TAKE k \in 1 .. r.count
  <2> DEFINE n == new.count
             c == r.count
  <2>0. n \in 0 .. 8 /\ c \in 0 .. 8 /\ n + c <= 8 /\ k \in 1 .. c /\ q.count = c + n
    BY <1>1, <1>2, <1>3, <1>4
  <2> HIDE DEF n, c
  <2>1a. /\ n + k \in 1 .. c + n /\ (n + k) - 1 \in 0 .. 8
         /\ (n + k) - 1 >= n /\ ((n + k) - 1) - n = k - 1
    BY <2>0
  <2>1. /\ new.count + k \in 1 .. q.count /\ (new.count + k) - 1 \in 0 .. 8
        /\ (new.count + k) - 1 >= new.count
        /\ ((new.count + k) - 1) - new.count = k - 1
    BY <2>0, <2>1a DEF n, c
  <2>2. q.stack[(new.count + k) - 1] = r.stack[k - 1]
    BY <1>1, <1>2, <2>1
  <2>3. \A i \in 1 .. q.count : Contents(q)[i] = q.stack[i - 1]
    BY DEF Contents
  <2>4. Contents(q)[new.count + k] = q.stack[(new.count + k) - 1]
    BY <2>1, <2>3
  <2>5. Contents(r)[k] = r.stack[k - 1]
    BY DEF Contents
  <2> QED
    BY <2>2, <2>4, <2>5
<1> QED
  BY <1>4, <1>6, <1>7 DEF q

(* A pop drops exactly the first instruction.                              *)
LEMMA PopIsTail ==
  ASSUME NEW r, WellFormed(r), r.count # 0
  PROVE  LET q == PopFront(r)
         IN  /\ WellFormed(q)
             /\ q.count = r.count - 1
             /\ \A k \in 1 .. q.count : Contents(q)[k] = Contents(r)[k + 1]
<1> DEFINE q == PopFront(r)
<1>1. Slots = 0 .. 8 /\ REGISTER_STACK_SIZE = 9
  BY DEF Slots, REGISTER_STACK_SIZE
<1>2. /\ r.count \in 1 .. 8
      /\ r.stack \in [0 .. 8 -> Register]
      /\ \A i \in 0 .. 8 : (r.stack[i] # EmptyRegister) <=> (i < r.count)
  BY <1>1 DEF WellFormed
<1>3. /\ q = [stack |-> q.stack, count |-> q.count]
      /\ q.count = r.count - 1
      /\ q.stack = [i \in 0 .. 8 |-> IF i = 8 THEN EmptyRegister ELSE r.stack[i + 1]]
  BY <1>1 DEF PopFront
<1> HIDE DEF q
<1>4. q.stack \in [Slots -> Register]
  BY <1>1, <1>2, <1>3 DEF Register
<1>5. \A i \in 0 .. 8 : (q.stack[i] # EmptyRegister) <=> (i < q.count)
  BY <1>2, <1>3
<1>6. \A k \in 1 .. q.count : Contents(q)[k] = Contents(r)[k + 1]
  <2> TAKE k \in 1 .. q.count
  <2>1. k \in 1 .. 7 /\ k + 1 \in 1 .. r.count /\ (k + 1) - 1 = k
    BY <1>2, <1>3
  <2>2. Contents(q)[k] = q.stack[k - 1] /\ q.stack[k - 1] = r.stack[k]
    BY <1>3, <2>1 DEF Contents
  <2>3. Contents(r)[k + 1] = r.stack[(k + 1) - 1]
    BY <2>1 DEF Contents
  <2> QED
    BY <2>1, <2>2, <2>3
<1> QED
  BY <1>1, <1>2, <1>3, <1>4, <1>5, <1>6 DEF WellFormed, q

(* Rewriting the register on top touches nothing below it.                 *)
LEMMA SetTopKeepsRest ==
  ASSUME NEW r, WellFormed(r), r.count # 0, NEW instruction \in Instr
  PROVE  LET q == SetTop(r, instruction)
         IN  /\ WellFormed(q)
             /\ q.count = r.count
             /\ \A k \in 2 .. r.count : Contents(q)[k] = Contents(r)[k]
<1> DEFINE q == SetTop(r, instruction)
<1>1. Slots = 0 .. 8 /\ REGISTER_STACK_SIZE = 9
  BY DEF Slots, REGISTER_STACK_SIZE
<1>2. /\ r = [stack |-> r.stack, count |-> r.count]
      /\ r.count \in 1 .. 8
      /\ r.stack \in [0 .. 8 -> Register]
      /\ \A i \in 0 .. 8 : (r.stack[i] # EmptyRegister) <=> (i < r.count)
  BY <1>1 DEF WellFormed
<1>3. /\ q = [stack |-> q.stack, count |-> q.count]
      /\ q.count = r.count
      /\ q.stack = [r.stack EXCEPT ![0] = instruction]
  BY <1>2 DEF SetTop
<1> HIDE DEF q
<1>4. q.stack \in [Slots -> Register]
  BY <1>1, <1>2, <1>3 DEF Register
<1>5. \A i \in 0 .. 8 : (q.stack[i] # EmptyRegister) <=> (i < q.count)
  BY <1>2, <1>3, EmptyIsNoInstruction
<1>6. \A k \in 2 .. r.count : Contents(q)[k] = Contents(r)[k]
  BY <1>2, <1>3 DEF Contents
<1> QED
  BY <1>1, <1>2, <1>3, <1>4, <1>5, <1>6 DEF WellFormed, q

-----------------------------------------------------------------------------
(* The invariant: the stack is well-formed, which includes that it is      *)
(* never full.                                                             *)
IInv == WellFormed(rs)

(* The stack starts well-formed.                                           *)
LEMMA InitIInv == Init => IInv
<1> SUFFICES ASSUME Init PROVE WellFormed(rs)
  BY DEF IInv
<1> QED
  BY DEF Init, EmptyStack, WellFormed, Slots, REGISTER_STACK_SIZE, Register

(* Every step leaves a well-formed stack and is, seen as a sequence, a pop, *)
(* a rewriting of the first element, or a push.                            *)
LEMMA StepIsStackOperation ==
  ASSUME IInv, Next
  PROVE  /\ IInv'
         /\ \/ /\ rs.count # 0 /\ rs'.count = rs.count - 1
               /\ \A k \in 1 .. rs'.count : Contents(rs')[k] = Contents(rs)[k + 1]
            \/ /\ rs.count # 0 /\ rs'.count = rs.count
               /\ \A k \in 2 .. rs.count : Contents(rs')[k] = Contents(rs)[k]
            \/ /\ rs'.count >= rs.count
               /\ \A k \in 1 .. rs.count :
                    Contents(rs')[rs'.count - rs.count + k] = Contents(rs)[k]
<1>1. /\ WellFormed(rs) /\ rs.count \in 0 .. 8
      /\ MATCH_MAX = 8 /\ APPLY_MAX = 3 /\ REGISTER_STACK_SIZE = 9 /\ Slots = 0 .. 8
  BY DEF IInv, WellFormed, MATCH_MAX, APPLY_MAX, NEW_INSTRUCTIONS_MAX_SIZE,
         REGISTER_STACK_SIZE, Slots
<1>2. CASE Consume
  <2>1. rs.count # 0 /\ rs' = PopFront(rs)
    BY <1>2 DEF Consume
  <2>2. /\ WellFormed(rs')
        /\ rs'.count = rs.count - 1
        /\ \A k \in 1 .. rs'.count : Contents(rs')[k] = Contents(rs)[k + 1]
    BY <1>1, <2>1, PopIsTail
  <2> QED
    BY <2>1, <2>2 DEF IInv
<1>3. CASE Progress
  <2>1. PICK instruction \in Instr : rs.count # 0 /\ rs' = SetTop(rs, instruction)
    BY <1>3 DEF Progress
  <2>2. /\ WellFormed(rs')
        /\ rs'.count = rs.count
        /\ \A k \in 2 .. rs.count : Contents(rs')[k] = Contents(rs)[k]
    BY <1>1, <2>1, SetTopKeepsRest
  <2> QED
    BY <2>1, <2>2 DEF IInv
<1>4. ASSUME NEW max \in {APPLY_MAX, MATCH_MAX}, NEW new \in NewInstructions(max),
             PushAllowed(rs, new, max), rs' = PushInstructions(rs, new, max),
             rs.count = 0 \/ new.count < max,
             rs.count + new.count <= REGISTER_STACK_SIZE - 1
      PROVE  /\ WellFormed(rs')
             /\ rs'.count >= rs.count
             /\ \A k \in 1 .. rs.count :
                  Contents(rs')[rs'.count - rs.count + k] = Contents(rs)[k]
  <2>1. /\ WellFormed(rs')
        /\ rs'.count = rs.count + new.count
        /\ \A k \in 1 .. rs.count : Contents(rs')[new.count + k] = Contents(rs)[k]
    BY <1>1, <1>4, PushIsPrepend
  <2>2. new.count \in Nat
    BY <1>1, NewCountBound
  <2>3. rs'.count >= rs.count /\ rs'.count - rs.count = new.count
    BY <1>1, <2>1, <2>2
  <2> QED
    BY <2>1, <2>3
<1>5. CASE ApplyPush
  <2>1. rs.count = 0
    BY <1>1, <1>5 DEF ApplyPush, IsEmpty, WellFormed
  <2>2. PICK new \in NewInstructions(APPLY_MAX) :
          /\ PushAllowed(rs, new, APPLY_MAX)
          /\ rs' = PushInstructions(rs, new, APPLY_MAX)
    BY <1>5 DEF ApplyPush
  <2>3. new.count \in 0 .. 3
    BY NewCountBound, <1>1
  <2>4. rs.count + new.count <= REGISTER_STACK_SIZE - 1
    BY <1>1, <2>1, <2>3
  <2> QED
    BY <1>4, <2>1, <2>2, <2>4 DEF IInv
<1>6. CASE MatchPush
  <2>1. PICK new \in NewInstructions(MATCH_MAX) :
          /\ rs.count = 1 => \A i \in TAKER_CHILD_SLOTS : new.slot[i] = EmptyRegister
          /\ PushAllowed(rs, new, MATCH_MAX)
          /\ rs' = PushInstructions(rs, new, MATCH_MAX)
    BY <1>6 DEF MatchPush
  <2>2. rs.count \in {0, 1}
    BY <1>1, <1>6 DEF MatchPush
  <2>3. new.count \in 0 .. 8
    BY NewCountBound, <1>1
  <2>4. rs.count = 1 => new.count \in 0 .. 6
    BY <2>1, StayCountBound
  <2>5. rs.count + new.count <= REGISTER_STACK_SIZE - 1 /\ (rs.count = 0 \/ new.count < MATCH_MAX)
    BY <1>1, <2>2, <2>3, <2>4
  <2> QED
    BY <1>4, <2>1, <2>5 DEF IInv
<1> QED
  BY <1>2, <1>3, <1>5, <1>6 DEF Next

(* The occupied registers of the stack are always the first count ones,    *)
(* and never all nine, for every set of instructions.                      *)
THEOREM StackInvariant == Spec => []IInv
<1>1. IInv /\ [Next]_rs => IInv'
  BY StepIsStackOperation DEF IInv, WellFormed
<1> QED
  BY <1>1, InitIInv, PTL DEF Spec

(* The stack has its type: registers in its slots, a count that fits.      *)
THEOREM TypeCorrect == Spec => []TypeOK
<1>1. IInv => TypeOK
  <2> SUFFICES ASSUME WellFormed(rs) PROVE TypeOK
    BY DEF IInv
  <2>1. DOMAIN rs = {"stack", "count"}
    BY DEF WellFormed
  <2> QED
    BY <2>1 DEF WellFormed, TypeOK, REGISTER_STACK_SIZE
<1> QED
  BY <1>1, StackInvariant, PTL

(* No instruction hides behind an empty register (NoHoles).                *)
THEOREM StackHasNoHoles == Spec => []NoHoles
<1>1. IInv => NoHoles
  BY DEF IInv, WellFormed, NoHoles
<1> QED
  BY <1>1, StackInvariant, PTL

(* The register that push_instructions never shifts is empty whenever      *)
(* instructions are pushed (LastRegisterFree).                             *)
THEOREM StackNeverFull == Spec => []LastRegisterFree
<1>1. IInv => LastRegisterFree
  BY DEF IInv, WellFormed, LastRegisterFree, Slots, REGISTER_STACK_SIZE
<1> QED
  BY <1>1, StackInvariant, PTL

-----------------------------------------------------------------------------
(* The stack as a sequence.                                                *)
LEMMA ContentsIsSequence ==
  ASSUME NEW r, WellFormed(r)
  PROVE  Contents(r) \in Seq(Register) /\ Len(Contents(r)) = r.count
<1>1. r.count \in 0 .. 8 /\ \A k \in 1 .. r.count : r.stack[k - 1] \in Register
  BY DEF WellFormed, Slots, REGISTER_STACK_SIZE
<1> QED
  BY <1>1 DEF Contents

(* A sequence whose last elements are those of another one is some new     *)
(* elements followed by that one.                                          *)
LEMMA SplitAtRest ==
  ASSUME NEW R, NEW s \in Seq(R), NEW t \in Seq(R), Len(t) >= Len(s),
         \A k \in 1 .. Len(s) : t[Len(t) - Len(s) + k] = s[k]
  PROVE  t = SubSeq(t, 1, Len(t) - Len(s)) \o s
<1> DEFINE n == Len(t) - Len(s)
           u == SubSeq(t, 1, n) \o s
<1>1. Len(s) \in Nat /\ Len(t) \in Nat /\ n \in 0 .. Len(t)
  OBVIOUS
<1>2. /\ SubSeq(t, 1, n) \in Seq(R) /\ Len(SubSeq(t, 1, n)) = n
      /\ \A k \in 1 .. n : SubSeq(t, 1, n)[k] = t[k]
  BY <1>1
<1>3. u \in Seq(R) /\ Len(u) = Len(t)
  BY <1>1, <1>2
<1>4. \A k \in 1 .. Len(t) : u[k] = t[k]
  <2> TAKE k \in 1 .. Len(t)
  <2>1. CASE k \in 1 .. n
    BY <1>1, <1>2, <2>1
  <2>2. CASE k \in n + 1 .. Len(t)
    <3>1. u[k] = s[k - n] /\ k - n \in 1 .. Len(s)
      BY <1>1, <1>2, <2>2
    <3>2. n + (k - n) = k
      BY <1>1, <2>2
    <3> QED
      BY <3>1, <3>2
  <2> QED
    BY <1>1, <2>1, <2>2
<1> HIDE DEF n, u
<1>5. u = t
  BY <1>3, <1>4
<1> QED
  BY <1>5 DEF u, n

(* push_instructions and pop_front, as the transactions use them,          *)
(* implement the bounded LIFO of InstructionStack.                         *)
THEOREM StackRefinesLIFO == Spec => RefinesInstructionStack
<1>1. Init => Abstract!Init
  BY DEF Init, Abstract!Init, Pending, EmptyStack
<1>2. IInv /\ [Next]_rs => [Abstract!Next]_Pending
  <2> SUFFICES ASSUME IInv, [Next]_rs PROVE [Abstract!Next]_Pending
    OBVIOUS
  <2>1. CASE UNCHANGED rs
    BY <2>1 DEF Pending
  <2>2. CASE Next
    <3> DEFINE p == Contents(rs)
               q == Contents(rs')
    <3>1. WellFormed(rs) /\ WellFormed(rs')
      BY <2>2, StepIsStackOperation DEF IInv
    <3>2. \/ /\ rs.count # 0 /\ rs'.count = rs.count - 1
             /\ \A k \in 1 .. rs'.count : q[k] = p[k + 1]
          \/ /\ rs.count # 0 /\ rs'.count = rs.count
             /\ \A k \in 2 .. rs.count : q[k] = p[k]
          \/ /\ rs'.count >= rs.count
             /\ \A k \in 1 .. rs.count : q[rs'.count - rs.count + k] = p[k]
      BY <2>2, StepIsStackOperation
    <3>3. Pending = p /\ Pending' = q
      BY DEF Pending, Contents
    <3>4. /\ p \in Seq(Register) /\ Len(p) = rs.count
          /\ q \in Seq(Register) /\ Len(q) = rs'.count
      BY <3>1, ContentsIsSequence
    <3>5. rs.count \in 0 .. 8 /\ rs'.count \in 0 .. 8 /\ REGISTER_STACK_SIZE - 1 = 8
      BY <3>1 DEF WellFormed, REGISTER_STACK_SIZE
    <3> HIDE DEF Pending, p, q
    <3>6. CASE rs.count # 0 /\ rs'.count = rs.count - 1
               /\ \A k \in 1 .. rs'.count : q[k] = p[k + 1]
      <4>1. p # <<>>
        BY <3>4, <3>5, <3>6
      <4>2. /\ Tail(p) \in Seq(Register) /\ Len(Tail(p)) = Len(q)
            /\ \A k \in 1 .. Len(q) : Tail(p)[k] = q[k]
        BY <3>4, <3>5, <3>6, <4>1
      <4>3. q = Tail(p)
        BY <3>4, <4>2
      <4> QED
        BY <3>3, <4>1, <4>3 DEF Abstract!Next, Abstract!Pop
    <3>7. CASE rs.count # 0 /\ rs'.count = rs.count
               /\ \A k \in 2 .. rs.count : q[k] = p[k]
      <4>1. p # <<>> /\ q # <<>> /\ Tail(q) = Tail(p)
        BY <3>4, <3>5, <3>7
      <4> QED
        BY <3>3, <4>1 DEF Abstract!Next, Abstract!Rewrite
    <3>8. CASE rs'.count >= rs.count
               /\ \A k \in 1 .. rs.count : q[rs'.count - rs.count + k] = p[k]
      <4>1. q = SubSeq(q, 1, Len(q) - Len(p)) \o p
        BY <3>4, <3>8, SplitAtRest
      <4>2. Len(q) \in Len(p) .. REGISTER_STACK_SIZE - 1
        BY <3>4, <3>5, <3>8
      <4>3. Abstract!Push
        BY <3>3, <4>1, <4>2, Zenon DEF Abstract!Push
      <4> QED
        BY <4>3 DEF Abstract!Next
    <3> QED
      BY <3>2, <3>6, <3>7, <3>8
  <2> QED
    BY <2>1, <2>2
<1> QED
  BY <1>1, <1>2, StackInvariant, PTL DEF Spec, RefinesInstructionStack, Abstract!Spec
=============================================================================
