-------------------------- MODULE OrderFlowProofs --------------------------
(***************************************************************************)
(* Proofs about the order flow, for every number of accounts, order        *)
(* nonces and requests.  The invariant IInv says of every state:           *)
(*                                                                         *)
(*   TreeInv   the account orders are orders, each at an index that the    *)
(*             market has handed out, active ones with nonces of their     *)
(*             own;                                                        *)
(*   BookInv   the order book is exactly the leaves of the active orders,  *)
(*             and asks stand above bids;                                  *)
(*   StackInv  the first count places of the stack hold instructions; a    *)
(*             pending order has its index still free and a nonce that no  *)
(*             active order has, no two share an index, and one that can   *)
(*             trade is at the bottom of the stack: it is matched alone;   *)
(*   NewInv    the same of what a transaction has put aside so far.        *)
(*                                                                         *)
(* Without the part about pending orders nothing is inductive: an order    *)
(* enters the book from its instruction, several transactions after its    *)
(* nonce was taken.  GoodStep says what a step does to the positions and   *)
(* the open interest: nothing, or one good trade.                          *)
(***************************************************************************)
EXTENDS OrderFlow, FiniteSetTheorems, WellFoundedInduction, TLAPS

-----------------------------------------------------------------------------
(* The types, for a setup u.                                               *)
NoncesOf(u) == 1 .. u.max_nonce

(* Only a TWAP order can be sliced below zero, and only an active order    *)
(* has a nonce.                                                            *)
SizedOrder(o) ==
  /\ o.remaining <= o.initial
  /\ o.trigger_status # "TWAP" => o.remaining >= 0
  /\ o.trigger_status # "NA" => o.nonce = NIL

InRange(u, o) == {o.nonce, o.child0, o.child1, o.cancel0} \subseteq 0 .. u.max_nonce

OrderSet(u) == {o \in OrderRecords : SizedOrder(o) /\ InRange(u, o)}

OrderTree(u) == [NoncesOf(u) -> OrderSet(u) \cup {NoOrder}]

Instructions(u) ==
  {reg \in InstructionRecords : reg.index \in 0 .. u.max_nonce /\ reg.order \in OrderSet(u) \cup {NoOrder}}

Registers(u) == Instructions(u) \cup {EmptyRegister}

MarketSet(u) == [ask_nonce : NoncesOf(u), bid_nonce : NoncesOf(u),
                 total_order_count : Int, open_interest : Int]

AcctTree == [Accounts -> [total_order_count : Int, total_non_cross_order_count : Int,
                          cancel_all_time : Nat]]

PosSet == [position : Int, total_order_count : Int, total_position_tied_order_count : Int,
           isolated : BOOLEAN, margin_set : BOOLEAN]

PosTree == [Accounts -> PosSet]

LockTree == [Accounts -> [base : Int, quote : Int]]

-----------------------------------------------------------------------------
(* The order book and the account orders.                                  *)
Active(tree, i) == tree[i] # NoOrder /\ tree[i].trigger_status = "NA"

NonceTaken(u, mkt, o) ==
  IF o.is_ask THEN o.nonce \in 1 .. mkt.ask_nonce - 1
              ELSE o.nonce \in mkt.bid_nonce + 1 .. u.max_nonce

IndexTaken(u, mkt, i) == i \in NoncesOf(u) /\ (i < mkt.ask_nonce \/ i > mkt.bid_nonce)

LeavesOf(u, tree) ==
  {Leaf(tree[i]) : i \in {j \in NoncesOf(u) : Active(tree, j) /\ tree[j].remaining # 0}}

NotCrossed(leaves) == \A l, m \in leaves : (l.is_ask /\ ~m.is_ask) => l.price > m.price

TreeInv(u, mkt, tree) ==
  /\ mkt \in MarketSet(u) /\ mkt.ask_nonce <= mkt.bid_nonce
  /\ tree \in OrderTree(u)
  /\ \A i \in NoncesOf(u) : tree[i] # NoOrder => IndexTaken(u, mkt, i)
  /\ \A i \in NoncesOf(u) : Active(tree, i) => NonceTaken(u, mkt, tree[i])
  /\ \A i, j \in NoncesOf(u) :
       (Active(tree, i) /\ Active(tree, j) /\ tree[i].nonce = tree[j].nonce) => i = j

BookInv(u, tree, leaves) == leaves = LeavesOf(u, tree) /\ NotCrossed(leaves)

(* A nonce that no active order has.                                       *)
Fresh(u, tree, n) == \A j \in NoncesOf(u) : Active(tree, j) => tree[j].nonce # n

-----------------------------------------------------------------------------
(* The instructions.                                                       *)
IsInsert(reg) == reg # EmptyRegister /\ reg.type = "INSERT_ORDER"

CanTrade(reg) == IsInsert(reg) /\ reg.order.trigger_status = "NA"

RegisterInv(u, mkt, tree, reg) ==
  /\ IsInsert(reg) =>
       /\ reg.order \in OrderSet(u) /\ reg.account = reg.order.owner
       /\ IndexTaken(u, mkt, reg.index) /\ tree[reg.index] = NoOrder
  /\ CanTrade(reg) => NonceTaken(u, mkt, reg.order) /\ Fresh(u, tree, reg.order.nonce)
  /\ reg.type \in {"TRIGGER_CHILD_ORDER", "CANCEL_SINGLE_ACCOUNT_ORDER"} =>
       reg.index \in NoncesOf(u) /\ reg.account \in Accounts /\ reg.size \in Nat
  /\ reg.type \in CancelAllKinds => reg.account \in Accounts

StackInv(u, mkt, tree, r) ==
  /\ DOMAIN r = {"stack", "count"}
  /\ r.stack \in [Slots -> Registers(u)] /\ r.count \in 0 .. 8
  /\ \A k \in Slots : r.stack[k] # EmptyRegister <=> k < r.count
  /\ \A k \in Slots : k < r.count => RegisterInv(u, mkt, tree, r.stack[k])
  /\ \A k \in Slots : CanTrade(r.stack[k]) => k = r.count - 1
  /\ \A k, j \in Slots :
       (IsInsert(r.stack[k]) /\ IsInsert(r.stack[j]) /\ r.stack[k].index = r.stack[j].index) => k = j

NewInv(u, mkt, tree, r, new) ==
  /\ DOMAIN new = {"slot", "count"}
  /\ new.slot \in [NewSlots -> Registers(u)] /\ new.count \in Nat
  /\ new.count = 0 => \A i \in NewSlots : new.slot[i] = EmptyRegister
  /\ \A i \in NewSlots : new.slot[i] # EmptyRegister => RegisterInv(u, mkt, tree, new.slot[i])
  /\ \A i \in NewSlots : IsInsert(new.slot[i]) => r.count = 0
  /\ \A i, k \in NewSlots : (CanTrade(new.slot[i]) /\ k > i) => new.slot[k] = EmptyRegister
  /\ \A i, k \in NewSlots :
       (IsInsert(new.slot[i]) /\ IsInsert(new.slot[k]) /\ new.slot[i].index = new.slot[k].index) => i = k

-----------------------------------------------------------------------------
(* The state of a transaction.                                             *)
TxFields == {"rs", "new", "market", "acct", "pos", "orders", "book", "locked", "ok"}

Typed(s) == /\ DOMAIN s = TxFields /\ s.ok \in BOOLEAN
            /\ s.acct \in AcctTree /\ s.pos \in PosTree /\ s.locked \in LockTree

TreesInv(u, s) ==
  /\ Typed(s)
  /\ TreeInv(u, s.market, s.orders) /\ BookInv(u, s.orders, s.book)
  /\ StackInv(u, s.market, s.orders, s.rs)

StateInv(u, s) == TreesInv(u, s) /\ NewInv(u, s.market, s.orders, s.rs, s.new)

SetupInv == setup \in {Setups[n] : n \in DOMAIN Setups}

IInv == /\ SetupInv /\ now \in Nat /\ mark \in Nat \ {0}
        /\ StateInv(setup, Tx) /\ OpenInterestFits

-----------------------------------------------------------------------------
(* The places push_instructions hands out to the new instructions.         *)
LEMMA PlacedSteps ==
  ASSUME NEW slot
  PROVE  /\ PlacedCount(slot, 0) = 0
         /\ \A i \in 0 .. 8 : PlacedCount(slot, i) \in Nat
         /\ \A i \in 0 .. 7 : PlacedCount(slot, i + 1) =
              PlacedCount(slot, i) + (IF slot[i] # EmptyRegister THEN 1 ELSE 0)
<1> DEFINE Filled(i) == {k \in 0 .. i - 1 : slot[k] # EmptyRegister}
<1>1. ASSUME NEW i \in 0 .. 8 PROVE IsFiniteSet(Filled(i)) /\ Cardinality(Filled(i)) \in Nat
  <2>1. IsFiniteSet(0 .. i - 1) /\ Filled(i) \subseteq 0 .. i - 1
    BY FS_Interval
  <2> HIDE DEF Filled
  <2> QED
    BY <2>1, FS_Subset, FS_CardinalityType
<1>2. ASSUME NEW i \in 0 .. 7
      PROVE  Cardinality(Filled(i + 1)) =
               Cardinality(Filled(i)) + (IF slot[i] # EmptyRegister THEN 1 ELSE 0)
  <2>1. i \in 0 .. 8 /\ i \notin Filled(i)
    OBVIOUS
  <2>2. Filled(i + 1) = IF slot[i] # EmptyRegister THEN Filled(i) \cup {i} ELSE Filled(i)
    OBVIOUS
  <2>3. IsFiniteSet(Filled(i)) /\ Cardinality(Filled(i)) \in Nat
    BY <1>1, <2>1
  <2> HIDE DEF Filled
  <2> QED
    BY <2>1, <2>2, <2>3, FS_AddElement
<1>3. Filled(0) = {}
  OBVIOUS
<1> QED
  BY <1>1, <1>2, <1>3, FS_EmptySet DEF PlacedCount

(* Every place below the number of new instructions is handed out:         *)
(* push_instructions leaves no hole.                                       *)
LEMMA PlacesAreTaken ==
  ASSUME NEW slot, NEW max \in {3, 8}, NEW j \in Nat, j < PlacedCount(slot, max)
  PROVE  \E i \in 0 .. max - 1 : slot[i] # EmptyRegister /\ PlacedCount(slot, i) = j
<1> DEFINE p(i) == PlacedCount(slot, i)
<1>1. /\ p(0) = 0 /\ \A i \in 0 .. 8 : p(i) \in Nat
      /\ \A i \in 0 .. 7 : p(i + 1) = p(i) + (IF slot[i] # EmptyRegister THEN 1 ELSE 0)
  BY PlacedSteps
<1>2. j < p(max)
  OBVIOUS
<1> SUFFICES ASSUME \A i \in 0 .. max - 1 : p(i) = j => slot[i] = EmptyRegister PROVE FALSE
  OBVIOUS
<1> HIDE DEF p
<1>3. \A i \in 0 .. max - 1 : p(i) <= j => p(i + 1) <= j
  BY <1>1
<1>4. p(1) <= j /\ p(2) <= j /\ p(3) <= j
  BY <1>1, <1>3
<1>5. max = 8 => p(4) <= j /\ p(5) <= j /\ p(6) <= j
  BY <1>3, <1>4
<1>6. max = 8 => p(7) <= j /\ p(8) <= j
  BY <1>3, <1>5
<1> QED
  BY <1>1, <1>2, <1>4, <1>6

(* How many instructions there may be, and where the last one goes.        *)
LEMMA PlacedBounds ==
  ASSUME NEW slot, NEW max \in {3, 8}
  PROVE  /\ PlacedCount(slot, max) \in 0 .. max
         /\ (max = 8 /\ slot[4] = EmptyRegister /\ slot[5] = EmptyRegister) =>
              PlacedCount(slot, max) <= 6
         /\ \A i \in 0 .. max - 1 :
              (slot[i] # EmptyRegister /\ \A k \in NewSlots : k > i => slot[k] = EmptyRegister) =>
                PlacedCount(slot, max) = PlacedCount(slot, i) + 1
<1> DEFINE p(i) == PlacedCount(slot, i)
           b(i) == IF slot[i] # EmptyRegister THEN 1 ELSE 0
<1>1. p(0) = 0 /\ \A i \in 0 .. 7 : p(i + 1) = p(i) + b(i)
  BY PlacedSteps
<1>2. NewSlots = 0 .. 7
  BY DEF NewSlots, NEW_INSTRUCTIONS_MAX_SIZE
<1>3. \A i \in 0 .. 7 : b(i) \in {0, 1} /\ (slot[i] = EmptyRegister => b(i) = 0)
                        /\ (slot[i] # EmptyRegister => b(i) = 1)
  OBVIOUS
<1> HIDE DEF p, b
<1>4. /\ p(1) = p(0) + b(0) /\ p(2) = p(1) + b(1) /\ p(3) = p(2) + b(2) /\ p(4) = p(3) + b(3)
      /\ p(5) = p(4) + b(4) /\ p(6) = p(5) + b(5) /\ p(7) = p(6) + b(6) /\ p(8) = p(7) + b(7)
  <2>1. ASSUME NEW i \in 0 .. 7, NEW j, j = i + 1 PROVE p(j) = p(i) + b(i)
    BY <1>1, <2>1
  <2> QED
    BY <2>1
<1>5. p(3) \in 0 .. 3 /\ p(8) \in 0 .. 8
  BY <1>1, <1>3, <1>4
<1>6. (slot[4] = EmptyRegister /\ slot[5] = EmptyRegister) => p(8) <= 6
  BY <1>1, <1>3, <1>4
<1>7. ASSUME NEW i \in 0 .. max - 1, slot[i] # EmptyRegister,
             \A k \in NewSlots : k > i => slot[k] = EmptyRegister
      PROVE  p(max) = p(i) + 1
  <2>1. b(i) = 1 /\ \A k \in 0 .. 7 : k > i => b(k) = 0
    BY <1>2, <1>3, <1>7
  <2>2. i \in {0, 1, 2, 3, 4, 5, 6, 7} /\ (max = 3 => i \in {0, 1, 2})
    BY <1>7
  <2> QED
    BY <1>1, <1>3, <1>4, <2>1, <2>2
<1> QED
  BY <1>5, <1>6, <1>7 DEF p

(* The instruction that the compaction puts in place k.                    *)
LEMMA PlacedInstruction ==
  ASSUME NEW slot, NEW max \in {3, 8}, NEW k \in NewSlots, k < PlacedCount(slot, max)
  PROVE  \E i \in NewSlots : /\ i < max /\ slot[i] # EmptyRegister /\ PlacedCount(slot, i) = k
                             /\ NewStack(slot, max)[k] = slot[i]
<1> DEFINE Q(i) == slot[i] # EmptyRegister /\ PlacedCount(slot, i) = k
           c == CHOOSE i \in 0 .. max - 1 : Q(i)
<1>1. NewSlots = 0 .. 7 /\ k \in Nat
  BY DEF NewSlots, NEW_INSTRUCTIONS_MAX_SIZE
<1>2. \E i \in 0 .. max - 1 : Q(i)
  BY <1>1, PlacesAreTaken
<1>3. c \in 0 .. max - 1 /\ Q(c)
  <2> HIDE DEF Q
  <2> QED
    BY <1>2
<1>4. NewStack(slot, max)[k] = slot[c]
  BY DEF NewStack
<1>5. c \in NewSlots /\ c < max
  BY <1>1, <1>3
<1> HIDE DEF c
<1> QED
  BY <1>3, <1>4, <1>5

(* What push_instructions leaves is a sound stack, with the pending order  *)
(* of a transaction on top, if what is pushed fits.                        *)
LEMMA PushIsStack ==
  ASSUME NEW u, NEW mkt, NEW tree, NEW r, NEW new, NEW max \in {3, 8},
         StackInv(u, mkt, tree, r), NewInv(u, mkt, tree, r, new), PushAllowed(r, new, max),
         \/ r.count = 0 \/ new.count = 0
         \/ r.count = 1 /\ max = 8 /\ new.slot[4] = EmptyRegister /\ new.slot[5] = EmptyRegister
  PROVE  LET q == PushInstructions(r, new, max)
         IN  /\ StackInv(u, mkt, tree, q)
             /\ q.count = r.count + new.count
             /\ new.count = 0 => q.stack = r.stack
             /\ new.count # 0 => \E i \in NewSlots : /\ new.slot[i] # EmptyRegister
                                                     /\ q.stack[0] = new.slot[i]
<1> DEFINE q == PushInstructions(r, new, max)
           n == new.count
<1> SUFFICES /\ StackInv(u, mkt, tree, q) /\ q.count = r.count + n
             /\ n = 0 => q.stack = r.stack
             /\ n # 0 => \E i \in NewSlots : /\ new.slot[i] # EmptyRegister
                                             /\ q.stack[0] = new.slot[i]
  OBVIOUS
<1>1. Slots = 0 .. 8 /\ NewSlots = 0 .. 7 /\ REGISTER_STACK_SIZE = 9
  BY DEF Slots, NewSlots, NEW_INSTRUCTIONS_MAX_SIZE, REGISTER_STACK_SIZE
<1>2. /\ r.stack \in [Slots -> Registers(u)] /\ r.count \in 0 .. 8 /\ n \in Nat
      /\ new.slot \in [NewSlots -> Registers(u)]
      /\ \A k \in Slots : r.stack[k] # EmptyRegister <=> k < r.count
  BY DEF StackInv, NewInv
<1>3. /\ DOMAIN q = {"stack", "count"} /\ q.count = r.count + n
      /\ q.stack = [k \in Slots |-> IF k < n /\ k < max THEN NewStack(new.slot, max)[k]
                                    ELSE ShiftRight(r, new, max)[k]]
  BY DEF PushInstructions
<1>4. CASE n = 0
  <2>1. ASSUME NEW k \in Slots PROVE q.stack[k] = r.stack[k]
    BY <1>1, <1>2, <1>3, <1>4, <2>1 DEF ShiftRight
  <2>2. q.stack = r.stack /\ q.count = r.count
    <3> HIDE DEF q
    <3> QED
      BY <1>2, <1>3, <1>4, <2>1
  <2> HIDE DEF q
  <2> QED
    BY <1>3, <1>4, <2>2 DEF StackInv
<1>5. CASE n # 0
  <2>1. n = PlacedCount(new.slot, max) /\ n \in 1 .. max
    BY <1>2, <1>5, PlacedBounds DEF PushAllowed
  <2>2. r.count = 0 \/ (r.count = 1 /\ max = 8 /\ n \in 1 .. 6)
    BY <1>2, <1>5, <2>1, PlacedBounds
  <2>3. q.count \in 0 .. 8
    BY <1>2, <1>3, <2>1, <2>2
  <2>4. ASSUME NEW k \in Slots, k < n
        PROVE  \E i \in NewSlots : /\ i < max /\ new.slot[i] # EmptyRegister
                                   /\ PlacedCount(new.slot, i) = k /\ q.stack[k] = new.slot[i]
    <3>1. k \in NewSlots /\ k < max
      BY <1>1, <2>1, <2>4
    <3>2. q.stack[k] = NewStack(new.slot, max)[k]
      BY <1>3, <2>4, <3>1
    <3> HIDE DEF q
    <3> QED
      BY <2>1, <2>4, <3>1, <3>2, PlacedInstruction
  <2>5. ASSUME NEW k \in Slots, k >= n
        PROVE  q.stack[k] = IF r.count = 1 /\ k = n THEN r.stack[0] ELSE EmptyRegister
    <3>1. q.stack[k] = ShiftRight(r, new, max)[k]
      BY <1>1, <1>2, <1>3, <2>5
    <3>2. CASE r.count = 0
      <4>1. \A j \in Slots : r.stack[j] = EmptyRegister
        BY <1>1, <1>2, <3>2
      <4>2. r.stack[0] = EmptyRegister
        BY <1>1, <4>1
      <4>3. k \in Slots /\ (k - (n - 1) \in 0 .. 8)
        BY <1>1, <1>2, <2>1, <2>5
      <4>4. ShiftRight(r, new, max)[k] \in {r.stack[k - (n - 1)], r.stack[k]}
        BY <4>2 DEF ShiftRight
      <4> QED
        BY <1>1, <3>1, <3>2, <4>1, <4>3, <4>4
    <3>3. CASE r.count = 1
      <4>1. /\ r.stack[0] # EmptyRegister /\ n \in 1 .. 7 /\ max = 8
            /\ \A j \in Slots : j > 0 => r.stack[j] = EmptyRegister
        BY <1>1, <1>2, <2>2, <3>3
      <4>2. ShiftRight(r, new, max)[k] = r.stack[k - n]
        BY <1>1, <1>2, <2>5, <4>1 DEF ShiftRight
      <4>3. k - n \in Slots /\ (k - n = 0 <=> k = n)
        BY <1>1, <2>1, <2>5
      <4> QED
        BY <1>1, <3>1, <3>3, <4>1, <4>2, <4>3
    <3> QED
      BY <2>2, <3>2, <3>3
  <2> HIDE DEF q
  <2>6. ASSUME NEW k \in Slots, k < n
        PROVE  /\ q.stack[k] \in Registers(u) /\ q.stack[k] # EmptyRegister
               /\ RegisterInv(u, mkt, tree, q.stack[k])
               /\ CanTrade(q.stack[k]) => r.count = 0 /\ k = n - 1
               /\ IsInsert(q.stack[k]) => r.count = 0
    <3>1. PICK i \in NewSlots : /\ i < max /\ new.slot[i] # EmptyRegister
                                /\ PlacedCount(new.slot, i) = k /\ q.stack[k] = new.slot[i]
      BY <2>4, <2>6
    <3>2. RegisterInv(u, mkt, tree, new.slot[i]) /\ (IsInsert(new.slot[i]) => r.count = 0)
      BY <3>1 DEF NewInv
    <3>3. ASSUME CanTrade(new.slot[i]) PROVE k = n - 1
      <4>1. \A j \in NewSlots : j > i => new.slot[j] = EmptyRegister
        BY <3>3 DEF NewInv
      <4>2. i \in 0 .. max - 1
        BY <1>1, <3>1
      <4>3. PlacedCount(new.slot, max) = PlacedCount(new.slot, i) + 1
        BY <3>1, <4>1, <4>2, PlacedBounds
      <4> QED
        BY <1>1, <1>2, <2>1, <3>1, <4>3
    <3> QED
      BY <1>2, <3>1, <3>2, <3>3 DEF CanTrade
  <2>7. q.stack \in [Slots -> Registers(u)]
    <3>1. EmptyRegister \in Registers(u) /\ 0 \in Slots
      BY <1>1 DEF Registers
    <3>2. ASSUME NEW k \in Slots PROVE q.stack[k] \in Registers(u)
      BY <1>1, <1>2, <2>5, <2>6, <3>1
    <3> QED
      BY <1>3, <3>2
  <2>8. ASSUME NEW k \in Slots PROVE q.stack[k] # EmptyRegister <=> k < q.count
    BY <1>1, <1>2, <1>3, <2>1, <2>2, <2>5, <2>6
  <2>9. ASSUME NEW k \in Slots, k < q.count PROVE RegisterInv(u, mkt, tree, q.stack[k])
    <3>1. CASE k < n
      BY <2>6, <3>1
    <3>2. CASE k >= n
      <4>1. r.count = 1 /\ k = n /\ q.stack[k] = r.stack[0] /\ 0 \in Slots
        BY <1>1, <1>2, <1>3, <2>1, <2>2, <2>5, <2>9, <3>2
      <4> QED
        BY <4>1 DEF StackInv
    <3> QED
      BY <1>1, <1>2, <3>1, <3>2
  <2>10. ASSUME NEW k \in Slots, CanTrade(q.stack[k]) PROVE k = q.count - 1
    <3>1. CASE k < n
      BY <1>2, <1>3, <2>6, <2>10, <3>1
    <3>2. CASE k >= n
      <4>1. q.stack[k] # EmptyRegister
        BY <2>10 DEF CanTrade, IsInsert
      <4> QED
        BY <1>1, <1>2, <1>3, <2>1, <2>5, <3>2, <4>1
    <3> QED
      BY <1>1, <1>2, <3>1, <3>2
  <2>11. ASSUME NEW k \in Slots, NEW j \in Slots, IsInsert(q.stack[k]), IsInsert(q.stack[j]),
               q.stack[k].index = q.stack[j].index
        PROVE  k = j
    <3>1. \A h \in Slots : (h >= n /\ IsInsert(q.stack[h])) => r.count = 1 /\ h = n
      BY <2>5 DEF IsInsert
    <3>2. CASE k < n /\ j < n
      <4>1. PICK i \in NewSlots : PlacedCount(new.slot, i) = k /\ q.stack[k] = new.slot[i]
        BY <2>4, <3>2
      <4>2. PICK h \in NewSlots : PlacedCount(new.slot, h) = j /\ q.stack[j] = new.slot[h]
        BY <2>4, <3>2
      <4>3. i = h
        BY <2>11, <4>1, <4>2 DEF NewInv
      <4> QED
        BY <4>1, <4>2, <4>3
    <3>3. ASSUME NEW h \in Slots, IsInsert(q.stack[h]), h < n PROVE r.count = 0
      BY <2>6, <3>3
    <3> QED
      BY <1>1, <1>2, <2>11, <3>1, <3>2, <3>3
  <2>12. \E i \in NewSlots : new.slot[i] # EmptyRegister /\ q.stack[0] = new.slot[i]
    BY <1>1, <2>1, <2>4
  <2> QED
    BY <1>3, <1>5, <2>3, <2>7, <2>8, <2>9, <2>10, <2>11, <2>12 DEF StackInv
<1> QED
  BY <1>4, <1>5

(* pop_front shifts the stack by one and keeps it sound.                   *)
LEMMA PopIsStack ==
  ASSUME NEW u, NEW mkt, NEW tree, NEW r, StackInv(u, mkt, tree, r), r.count # 0
  PROVE  LET q == PopFront(r)
         IN  /\ StackInv(u, mkt, tree, q) /\ q.count = r.count - 1
             /\ \A k \in Slots : k < q.count => k + 1 \in Slots /\ q.stack[k] = r.stack[k + 1]
<1> DEFINE q == PopFront(r)
<1> SUFFICES /\ StackInv(u, mkt, tree, q) /\ q.count = r.count - 1
             /\ \A k \in Slots : k < q.count => k + 1 \in Slots /\ q.stack[k] = r.stack[k + 1]
  OBVIOUS
<1>1. Slots = 0 .. 8 /\ REGISTER_STACK_SIZE = 9
  BY DEF Slots, REGISTER_STACK_SIZE
<1>2. /\ r.stack \in [Slots -> Registers(u)] /\ r.count \in 0 .. 8
      /\ \A k \in Slots : r.stack[k] # EmptyRegister <=> k < r.count
      /\ \A k \in Slots : k < r.count => RegisterInv(u, mkt, tree, r.stack[k])
      /\ \A k \in Slots : CanTrade(r.stack[k]) => k = r.count - 1
      /\ \A k, j \in Slots :
           (IsInsert(r.stack[k]) /\ IsInsert(r.stack[j]) /\ r.stack[k].index = r.stack[j].index) => k = j
  BY DEF StackInv
<1>3. /\ DOMAIN q = {"stack", "count"} /\ q.count = r.count - 1
      /\ q.stack = [i \in Slots |-> IF i = 8 THEN EmptyRegister ELSE r.stack[i + 1]]
  BY <1>1 DEF PopFront
<1> HIDE DEF q
<1>4. EmptyRegister \in Registers(u)
  BY DEF Registers
<1>5. q.stack \in [Slots -> Registers(u)] /\ q.count \in 0 .. 8
  BY <1>1, <1>2, <1>3, <1>4
<1>6. ASSUME NEW k \in Slots
      PROVE  IF k < 8 THEN k + 1 \in Slots /\ q.stack[k] = r.stack[k + 1] ELSE q.stack[k] = EmptyRegister
  BY <1>1, <1>3
<1>7. ASSUME NEW k \in Slots PROVE q.stack[k] # EmptyRegister <=> k < q.count
  BY <1>1, <1>2, <1>3, <1>6
<1>8. ASSUME NEW k \in Slots, k < q.count PROVE RegisterInv(u, mkt, tree, q.stack[k])
  BY <1>1, <1>2, <1>3, <1>6, <1>8
<1>9. ASSUME NEW k \in Slots, CanTrade(q.stack[k]) PROVE k = q.count - 1
  <2>1. k < 8
    BY <1>1, <1>6, <1>9 DEF CanTrade, IsInsert
  <2> QED
    BY <1>1, <1>2, <1>3, <1>6, <1>9, <2>1
<1>10. ASSUME NEW k \in Slots, NEW j \in Slots, IsInsert(q.stack[k]), IsInsert(q.stack[j]),
             q.stack[k].index = q.stack[j].index
       PROVE  k = j
  <2>1. k < 8 /\ j < 8
    BY <1>1, <1>6, <1>10 DEF IsInsert
  <2>2. /\ k + 1 \in Slots /\ j + 1 \in Slots /\ q.stack[k] = r.stack[k + 1] /\ q.stack[j] = r.stack[j + 1]
    BY <1>6, <2>1
  <2>3. k + 1 = j + 1
    BY <1>2, <1>10, <2>2
  <2> QED
    BY <1>1, <2>3
<1>11. \A k \in Slots : k < q.count => k + 1 \in Slots /\ q.stack[k] = r.stack[k + 1]
  BY <1>1, <1>2, <1>3, <1>6
<1> QED
  BY <1>3, <1>5, <1>7, <1>8, <1>9, <1>10, <1>11 DEF StackInv

(* The instruction on top is rewritten in place.                           *)
LEMMA TopRewritten ==
  ASSUME NEW u, NEW mkt, NEW tree, NEW r, StackInv(u, mkt, tree, r), r.count # 0,
         NEW reg \in Instructions(u), RegisterInv(u, mkt, tree, reg),
         IsInsert(reg) => IsInsert(r.stack[0]) /\ reg.index = r.stack[0].index,
         CanTrade(reg) => CanTrade(r.stack[0])
  PROVE  LET q == [r EXCEPT !.stack = [r.stack EXCEPT ![0] = reg]]
         IN  /\ StackInv(u, mkt, tree, q) /\ q.count = r.count /\ q.stack[0] = reg
             /\ \A k \in Slots : k # 0 => q.stack[k] = r.stack[k]
<1> DEFINE q == [r EXCEPT !.stack = [r.stack EXCEPT ![0] = reg]]
<1> SUFFICES /\ StackInv(u, mkt, tree, q) /\ q.count = r.count /\ q.stack[0] = reg
             /\ \A k \in Slots : k # 0 => q.stack[k] = r.stack[k]
  OBVIOUS
<1>1. Slots = 0 .. 8
  BY DEF Slots, REGISTER_STACK_SIZE
<1>2. /\ DOMAIN r = {"stack", "count"}
      /\ r.stack \in [Slots -> Registers(u)] /\ r.count \in 0 .. 8
      /\ \A k \in Slots : r.stack[k] # EmptyRegister <=> k < r.count
      /\ \A k \in Slots : k < r.count => RegisterInv(u, mkt, tree, r.stack[k])
      /\ \A k \in Slots : CanTrade(r.stack[k]) => k = r.count - 1
      /\ \A k, j \in Slots :
           (IsInsert(r.stack[k]) /\ IsInsert(r.stack[j]) /\ r.stack[k].index = r.stack[j].index) => k = j
  BY DEF StackInv
<1>3. /\ DOMAIN q = {"stack", "count"} /\ q.count = r.count
      /\ q.stack = [r.stack EXCEPT ![0] = reg]
  BY <1>2
<1> HIDE DEF q
<1>4. reg \in Registers(u) /\ reg # EmptyRegister
  BY EmptyAssumption DEF Registers, Instructions
<1>5. /\ q.stack \in [Slots -> Registers(u)] /\ q.stack[0] = reg
      /\ \A k \in Slots : k # 0 => q.stack[k] = r.stack[k]
  BY <1>1, <1>2, <1>3, <1>4
<1>6. ASSUME NEW k \in Slots PROVE q.stack[k] # EmptyRegister <=> k < q.count
  BY <1>1, <1>2, <1>3, <1>4, <1>5
<1>7. ASSUME NEW k \in Slots, k < q.count PROVE RegisterInv(u, mkt, tree, q.stack[k])
  BY <1>2, <1>3, <1>5, <1>7
<1>8. ASSUME NEW k \in Slots, CanTrade(q.stack[k]) PROVE k = q.count - 1
  BY <1>1, <1>2, <1>3, <1>5, <1>8
<1>9. ASSUME NEW k \in Slots, IsInsert(q.stack[k])
      PROVE  IsInsert(r.stack[k]) /\ q.stack[k].index = r.stack[k].index
  BY <1>5, <1>9
<1>10. ASSUME NEW k \in Slots, NEW j \in Slots, IsInsert(q.stack[k]), IsInsert(q.stack[j]),
             q.stack[k].index = q.stack[j].index
       PROVE  k = j
  BY <1>2, <1>9, <1>10
<1> QED
  BY <1>2, <1>3, <1>5, <1>6, <1>7, <1>8, <1>10 DEF StackInv

-----------------------------------------------------------------------------
(* Instructions stay good while orders go and nonces are handed out.       *)
Fewer(u, tree, t2) ==
  \A i \in NoncesOf(u) :
    /\ t2[i] # NoOrder => tree[i] # NoOrder
    /\ Active(t2, i) => Active(tree, i) /\ t2[i].nonce = tree[i].nonce

Later(u, mkt, m2) ==
  /\ mkt \in MarketSet(u) /\ m2 \in MarketSet(u) /\ u.max_nonce \in Nat
  /\ mkt.ask_nonce <= m2.ask_nonce /\ m2.bid_nonce <= mkt.bid_nonce

(* Nonces and indices that were taken stay taken.                          *)
LEMMA LaterTaken ==
  ASSUME NEW u, NEW mkt, NEW m2, Later(u, mkt, m2)
  PROVE  /\ \A i : IndexTaken(u, mkt, i) => IndexTaken(u, m2, i)
         /\ \A o : NonceTaken(u, mkt, o) => NonceTaken(u, m2, o)
<1>1. /\ mkt.ask_nonce \in Nat /\ mkt.bid_nonce \in Nat /\ m2.ask_nonce \in Nat /\ m2.bid_nonce \in Nat
      /\ mkt.ask_nonce <= m2.ask_nonce /\ m2.bid_nonce <= mkt.bid_nonce /\ u.max_nonce \in Nat
  BY DEF Later, MarketSet, NoncesOf
<1> QED
  BY <1>1 DEF IndexTaken, NonceTaken, NoncesOf

(* An instruction stays good while orders leave the trees and nonces are   *)
(* handed out.                                                             *)
LEMMA RegisterStays ==
  ASSUME NEW u, NEW mkt, NEW m2, NEW tree, NEW t2, NEW reg,
         Later(u, mkt, m2), Fewer(u, tree, t2), RegisterInv(u, mkt, tree, reg)
  PROVE  RegisterInv(u, m2, t2, reg)
<1>1. /\ \A i : IndexTaken(u, mkt, i) => IndexTaken(u, m2, i)
      /\ \A o : NonceTaken(u, mkt, o) => NonceTaken(u, m2, o)
  BY LaterTaken
<1>2. \A i : IndexTaken(u, mkt, i) => i \in NoncesOf(u)
  BY DEF IndexTaken
<1>3. \A n : Fresh(u, tree, n) => Fresh(u, t2, n)
  BY DEF Fewer, Fresh
<1>4. \A i \in NoncesOf(u) : tree[i] = NoOrder => t2[i] = NoOrder
  BY DEF Fewer
<1> QED
  BY <1>1, <1>2, <1>3, <1>4 DEF RegisterInv

(* So does the whole stack ...                                             *)
LEMMA StackStays ==
  ASSUME NEW u, NEW mkt, NEW m2, NEW tree, NEW t2, NEW r,
         Later(u, mkt, m2), Fewer(u, tree, t2), StackInv(u, mkt, tree, r)
  PROVE  StackInv(u, m2, t2, r)
BY RegisterStays DEF StackInv

(* ... and what is put aside for it.                                       *)
LEMMA NewStays ==
  ASSUME NEW u, NEW mkt, NEW m2, NEW tree, NEW t2, NEW r, NEW q, NEW new,
         Later(u, mkt, m2), Fewer(u, tree, t2), NewInv(u, mkt, tree, r, new),
         r.count = 0 => q.count = 0
  PROVE  NewInv(u, m2, t2, q, new)
BY RegisterStays DEF NewInv

-----------------------------------------------------------------------------
(* The trees, when an order goes, is filled in part, or is added.          *)
LEMMA LeafFields ==
  ASSUME NEW o
  PROVE  /\ Leaf(o).price = o.price /\ Leaf(o).nonce = o.nonce
         /\ Leaf(o).is_ask = o.is_ask /\ Leaf(o).size = o.remaining
BY DEF Leaf

(* The types of an order's fields, one by one.                             *)
LEMMA OrderFacts ==
  ASSUME NEW u, NEW o \in OrderSet(u)
  PROVE  /\ o # NoOrder /\ o.owner \in Accounts /\ o.is_ask \in BOOLEAN /\ o.reduce_only \in BOOLEAN
         /\ o.price \in Nat /\ o.initial \in Nat /\ o.remaining \in Int /\ o.remaining <= o.initial
         /\ o.nonce \in 0 .. u.max_nonce /\ o.child0 \in 0 .. u.max_nonce
         /\ o.child1 \in 0 .. u.max_nonce /\ o.cancel0 \in 0 .. u.max_nonce
         /\ o.by_master \in BOOLEAN /\ o.integrator \in BOOLEAN /\ o.stp \in SelfTradeModes
         /\ o.expiry \in Nat /\ o.trigger_status \in TriggerStatuses
         /\ o.trigger_status # "TWAP" => o.remaining \in Nat
         /\ o.trigger_status # "NA" => o.nonce = 0
<1>1. o \in OrderRecords /\ SizedOrder(o) /\ InRange(u, o)
  BY DEF OrderSet
<1>2. o # NoOrder
  BY <1>1, EmptyAssumption
<1>3. /\ o.owner \in Accounts /\ o.is_ask \in BOOLEAN /\ o.reduce_only \in BOOLEAN
      /\ o.price \in Nat /\ o.initial \in Nat /\ o.remaining \in Int
      /\ o.by_master \in BOOLEAN /\ o.integrator \in BOOLEAN /\ o.stp \in SelfTradeModes
      /\ o.expiry \in Nat /\ o.trigger_status \in TriggerStatuses
  BY <1>1 DEF OrderRecords
<1> QED
  BY <1>1, <1>2, <1>3 DEF SizedOrder, InRange, NIL

(* An order filled in part is still an order of the same owner, side,      *)
(* price and nonce.                                                        *)
LEMMA Remaining ==
  ASSUME NEW u, NEW o \in OrderSet(u), NEW x \in Nat, x <= o.remaining,
         NEW p, p = [o EXCEPT !.remaining = x]
  PROVE  /\ p \in OrderSet(u) /\ p.remaining = x /\ p.owner = o.owner /\ p.is_ask = o.is_ask
         /\ p.price = o.price /\ p.nonce = o.nonce /\ p.trigger_status = o.trigger_status
         /\ p.initial = o.initial /\ p.child0 = o.child0 /\ p.child1 = o.child1
         /\ p.type = o.type /\ p.reduce_only = o.reduce_only
         /\ Leaf(p) = [Leaf(o) EXCEPT !.size = x]
<1>1. o \in OrderRecords /\ SizedOrder(o) /\ InRange(u, o)
  BY DEF OrderSet
<1>2. p \in OrderRecords
  BY <1>1 DEF OrderRecords
<1>3. /\ p.remaining = x /\ p.owner = o.owner /\ p.is_ask = o.is_ask
      /\ p.price = o.price /\ p.nonce = o.nonce /\ p.trigger_status = o.trigger_status
      /\ p.initial = o.initial /\ p.child0 = o.child0 /\ p.child1 = o.child1
      /\ p.cancel0 = o.cancel0 /\ p.type = o.type /\ p.reduce_only = o.reduce_only
  BY <1>1 DEF OrderRecords
<1>4. o.remaining \in Int /\ o.initial \in Nat
  BY OrderFacts
<1>5. SizedOrder(p) /\ InRange(u, p)
  BY <1>1, <1>3, <1>4 DEF SizedOrder, InRange
<1>6. Leaf(p) = [Leaf(o) EXCEPT !.size = x]
  BY <1>3 DEF Leaf
<1> QED
  BY <1>2, <1>3, <1>5, <1>6 DEF OrderSet

(* What a leaf of the order book is.                                       *)
LEMMA IsLeaf ==
  ASSUME NEW u, NEW tree, NEW l
  PROVE  l \in LeavesOf(u, tree) <=>
           \E i \in NoncesOf(u) : Active(tree, i) /\ tree[i].remaining # 0 /\ l = Leaf(tree[i])
BY DEF LeavesOf

(* The leaf of an active order is the only one with its price and nonce,   *)
(* and no leaf has the nonce of an order that is not active.               *)
LEMMA LeafIsUnique ==
  ASSUME NEW u, u.max_nonce \in Nat, NEW mkt, NEW tree, TreeInv(u, mkt, tree),
         NEW i \in NoncesOf(u), tree[i] # NoOrder,
         NEW j \in NoncesOf(u), Active(tree, j)
  PROVE  tree[j].nonce = tree[i].nonce <=> i = j
<1>1. tree[i] \in OrderSet(u) /\ tree[j] \in OrderSet(u)
  BY DEF TreeInv, OrderTree, Active
<1>2. NonceTaken(u, mkt, tree[j]) /\ mkt \in MarketSet(u)
  BY DEF TreeInv
<1>3. tree[j].nonce # 0
  BY <1>2 DEF NonceTaken, MarketSet, NoncesOf
<1>4. ~Active(tree, i) => tree[i].nonce = 0
  BY <1>1, OrderFacts DEF Active
<1> QED
  BY <1>3, <1>4 DEF TreeInv

(* A removed order takes its leaf with it.                                 *)
LEMMA OrderGone ==
  ASSUME NEW u, u.max_nonce \in Nat, NEW mkt, NEW tree, NEW leaves,
         TreeInv(u, mkt, tree), BookInv(u, tree, leaves),
         NEW i \in NoncesOf(u), tree[i] # NoOrder
  PROVE  LET t2 == [tree EXCEPT ![i] = NoOrder]
             l2 == SetLeaf(leaves, tree[i], 0)
         IN  TreeInv(u, mkt, t2) /\ BookInv(u, t2, l2) /\ Fewer(u, tree, t2)
<1> DEFINE t2 == [tree EXCEPT ![i] = NoOrder]
           l2 == SetLeaf(leaves, tree[i], 0)
<1> SUFFICES TreeInv(u, mkt, t2) /\ BookInv(u, t2, l2) /\ Fewer(u, tree, t2)
  OBVIOUS
<1>1. tree \in OrderTree(u) /\ mkt \in MarketSet(u)
  BY DEF TreeInv
<1>2. /\ t2 \in OrderTree(u) /\ t2[i] = NoOrder
      /\ \A j \in NoncesOf(u) : j # i => t2[j] = tree[j]
  BY <1>1 DEF OrderTree
<1> HIDE DEF t2
<1>3. \A j \in NoncesOf(u) : /\ t2[j] # NoOrder <=> tree[j] # NoOrder /\ j # i
                             /\ Active(t2, j) <=> Active(tree, j) /\ j # i
  BY <1>2 DEF Active
<1>4. TreeInv(u, mkt, t2) /\ Fewer(u, tree, t2)
  BY <1>2, <1>3 DEF TreeInv, Fewer
<1>5. l2 = {l \in leaves : l.price # tree[i].price \/ l.nonce # tree[i].nonce}
  BY DEF SetLeaf
<1> HIDE DEF l2
<1>6. ASSUME NEW l PROVE l \in l2 <=> l \in LeavesOf(u, t2)
  <2>1. ASSUME l \in l2 PROVE l \in LeavesOf(u, t2)
    <3>1. l \in LeavesOf(u, tree) /\ (l.price # tree[i].price \/ l.nonce # tree[i].nonce)
      BY <1>5, <2>1 DEF BookInv
    <3>2. PICK j \in NoncesOf(u) : Active(tree, j) /\ tree[j].remaining # 0 /\ l = Leaf(tree[j])
      BY <3>1, IsLeaf
    <3>3. j # i
      BY <3>1, <3>2, LeafFields
    <3> QED
      BY <1>2, <1>3, <3>2, <3>3, IsLeaf
  <2>2. ASSUME l \in LeavesOf(u, t2) PROVE l \in l2
    <3>1. PICK j \in NoncesOf(u) : Active(t2, j) /\ t2[j].remaining # 0 /\ l = Leaf(t2[j])
      BY <2>2, IsLeaf
    <3>2. Active(tree, j) /\ j # i /\ t2[j] = tree[j]
      BY <1>2, <1>3, <3>1
    <3>3. l \in leaves
      BY <3>1, <3>2, IsLeaf DEF BookInv
    <3>4. l.nonce # tree[i].nonce
      BY <3>1, <3>2, LeafIsUnique, LeafFields
    <3> QED
      BY <1>5, <3>3, <3>4
  <2> QED
    BY <2>1, <2>2
<1>7. l2 = LeavesOf(u, t2)
  BY <1>6
<1>8. NotCrossed(l2)
  BY <1>5 DEF BookInv, NotCrossed
<1> QED
  BY <1>4, <1>7, <1>8 DEF BookInv

(* An order filled in part changes the size of its leaf, or loses it.      *)
LEMMA OrderFilled ==
  ASSUME NEW u, u.max_nonce \in Nat, NEW mkt, NEW tree, NEW leaves,
         TreeInv(u, mkt, tree), BookInv(u, tree, leaves),
         NEW i \in NoncesOf(u), Active(tree, i), tree[i].remaining # 0,
         NEW x \in Nat, x <= tree[i].remaining
  PROVE  LET t2 == [tree EXCEPT ![i] = [tree[i] EXCEPT !.remaining = x]]
             l2 == SetLeaf(leaves, tree[i], x)
         IN  TreeInv(u, mkt, t2) /\ BookInv(u, t2, l2) /\ Fewer(u, tree, t2) /\ Active(t2, i)
<1> DEFINE p == [tree[i] EXCEPT !.remaining = x]
           t2 == [tree EXCEPT ![i] = p]
           l2 == SetLeaf(leaves, tree[i], x)
<1> SUFFICES TreeInv(u, mkt, t2) /\ BookInv(u, t2, l2) /\ Fewer(u, tree, t2) /\ Active(t2, i)
  OBVIOUS
<1>1. tree \in OrderTree(u) /\ tree[i] \in OrderSet(u)
  BY DEF TreeInv, OrderTree, Active
<1>2. /\ p \in OrderSet(u) /\ p.remaining = x /\ p.is_ask = tree[i].is_ask /\ p.price = tree[i].price
      /\ p.nonce = tree[i].nonce /\ p.trigger_status = tree[i].trigger_status
      /\ Leaf(p) = [Leaf(tree[i]) EXCEPT !.size = x]
  BY <1>1, Remaining
<1>3. l2 = LET others == {l \in leaves : l.price # tree[i].price \/ l.nonce # tree[i].nonce}
           IN  IF x = 0 THEN others ELSE others \cup {Leaf(p)}
  BY <1>2 DEF SetLeaf
<1> HIDE DEF p
<1>4. t2 \in OrderTree(u) /\ t2[i] = p /\ \A j \in NoncesOf(u) : j # i => t2[j] = tree[j]
  BY <1>1, <1>2 DEF OrderTree
<1> HIDE DEF t2, l2
<1>5. p # NoOrder
  BY <1>2, OrderFacts
<1>6. \A j \in NoncesOf(u) : /\ t2[j] # NoOrder <=> tree[j] # NoOrder
                             /\ Active(t2, j) <=> Active(tree, j)
                             /\ Active(tree, j) => t2[j].nonce = tree[j].nonce /\ t2[j].is_ask = tree[j].is_ask
  BY <1>2, <1>4, <1>5 DEF Active
<1>7. TreeInv(u, mkt, t2) /\ Fewer(u, tree, t2) /\ Active(t2, i)
  BY <1>4, <1>6 DEF TreeInv, Fewer, NonceTaken
<1>8. ASSUME NEW l PROVE l \in l2 <=> l \in LeavesOf(u, t2)
  <2>1. ASSUME l \in l2 PROVE l \in LeavesOf(u, t2)
    <3>1. CASE l = Leaf(p) /\ x # 0
      BY <1>2, <1>4, <1>7, <3>1, IsLeaf
    <3>2. CASE l \in leaves /\ (l.price # tree[i].price \/ l.nonce # tree[i].nonce)
      <4>1. PICK j \in NoncesOf(u) : Active(tree, j) /\ tree[j].remaining # 0 /\ l = Leaf(tree[j])
        BY <3>2, IsLeaf DEF BookInv
      <4>2. j # i
        BY <3>2, <4>1, LeafFields
      <4> QED
        BY <1>4, <1>6, <4>1, <4>2, IsLeaf
    <3> QED
      BY <1>3, <2>1, <3>1, <3>2
  <2>2. ASSUME l \in LeavesOf(u, t2) PROVE l \in l2
    <3>1. PICK j \in NoncesOf(u) : Active(t2, j) /\ t2[j].remaining # 0 /\ l = Leaf(t2[j])
      BY <2>2, IsLeaf
    <3>2. CASE j = i
      BY <1>2, <1>3, <1>4, <3>1, <3>2
    <3>3. CASE j # i
      <4>1. Active(tree, j) /\ t2[j] = tree[j]
        BY <1>4, <1>6, <3>1, <3>3
      <4>2. l \in leaves
        BY <3>1, <4>1, IsLeaf DEF BookInv
      <4>3. l.nonce # tree[i].nonce
        BY <3>1, <3>3, <4>1, LeafIsUnique, LeafFields DEF Active
      <4> QED
        BY <1>3, <4>2, <4>3
    <3> QED
      BY <3>2, <3>3
  <2> QED
    BY <2>1, <2>2
<1>9. l2 = LeavesOf(u, t2)
  BY <1>8
<1>10. ASSUME NEW l \in l2 PROVE \E m \in leaves : l.is_ask = m.is_ask /\ l.price = m.price
  <2>1. Leaf(tree[i]) \in leaves
    BY IsLeaf DEF BookInv
  <2>2. l \in leaves \/ l = Leaf(p)
    BY <1>3, <1>10
  <2> QED
    BY <1>2, <2>1, <2>2, LeafFields
<1>11. NotCrossed(l2)
  BY <1>10 DEF BookInv, NotCrossed
<1> QED
  BY <1>7, <1>9, <1>11 DEF BookInv

(* An order inserted at a free index with a fresh nonce gets its leaf;     *)
(* the book stays uncrossed if it meets no better price.                   *)
LEMMA OrderInserted ==
  ASSUME NEW u, u.max_nonce \in Nat, NEW mkt, NEW tree, NEW leaves,
         TreeInv(u, mkt, tree), BookInv(u, tree, leaves),
         NEW i, IndexTaken(u, mkt, i), tree[i] = NoOrder,
         NEW o \in OrderSet(u), o.trigger_status = "NA", NonceTaken(u, mkt, o), Fresh(u, tree, o.nonce),
         \A l \in leaves : l.is_ask # o.is_ask =>
           IF o.is_ask THEN o.price > l.price ELSE o.price < l.price
  PROVE  LET t2 == [tree EXCEPT ![i] = o]
             l2 == SetLeaf(leaves, o, o.remaining)
         IN  TreeInv(u, mkt, t2) /\ BookInv(u, t2, l2)
<1> DEFINE t2 == [tree EXCEPT ![i] = o]
           l2 == SetLeaf(leaves, o, o.remaining)
<1> SUFFICES TreeInv(u, mkt, t2) /\ BookInv(u, t2, l2)
  OBVIOUS
<1>1. tree \in OrderTree(u) /\ i \in NoncesOf(u) /\ o # NoOrder
  BY OrderFacts DEF TreeInv, IndexTaken
<1>2. t2 \in OrderTree(u) /\ t2[i] = o /\ \A j \in NoncesOf(u) : j # i => t2[j] = tree[j]
  BY <1>1 DEF OrderTree
<1> HIDE DEF t2
<1>3. \A j \in NoncesOf(u) : Active(t2, j) <=> Active(tree, j) \/ j = i
  BY <1>1, <1>2 DEF Active
<1>4. TreeInv(u, mkt, t2)
  <2>1. \A j \in NoncesOf(u) : Active(tree, j) => tree[j].nonce # o.nonce /\ j # i
    BY DEF Fresh, Active
  <2>2. \A j, k \in NoncesOf(u) :
          (Active(t2, j) /\ Active(t2, k) /\ t2[j].nonce = t2[k].nonce) => j = k
    BY <1>2, <1>3, <2>1 DEF TreeInv
  <2>3. \A j \in NoncesOf(u) : Active(t2, j) => NonceTaken(u, mkt, t2[j])
    BY <1>2, <1>3 DEF TreeInv
  <2>4. \A j \in NoncesOf(u) : t2[j] # NoOrder => IndexTaken(u, mkt, j)
    BY <1>2 DEF TreeInv
  <2> QED
    BY <1>2, <2>2, <2>3, <2>4 DEF TreeInv
<1>5. /\ Leaf(o) = [Leaf(o) EXCEPT !.size = o.remaining]
      /\ l2 = LET others == {l \in leaves : l.price # o.price \/ l.nonce # o.nonce}
              IN  IF o.remaining = 0 THEN others ELSE others \cup {Leaf(o)}
  <2>1. Leaf(o) = [Leaf(o) EXCEPT !.size = o.remaining]
    BY DEF Leaf
  <2> QED
    BY <2>1 DEF SetLeaf
<1> HIDE DEF l2
<1>6. \A l \in leaves : l.nonce # o.nonce
  <2> TAKE l \in leaves
  <2>1. PICK j \in NoncesOf(u) : Active(tree, j) /\ l = Leaf(tree[j])
    BY IsLeaf DEF BookInv
  <2> QED
    BY <2>1, LeafFields DEF Fresh
<1>7. l2 = IF o.remaining = 0 THEN leaves ELSE leaves \cup {Leaf(o)}
  BY <1>5, <1>6
<1>8. ASSUME NEW l PROVE l \in l2 <=> l \in LeavesOf(u, t2)
  <2>1. ASSUME l \in l2 PROVE l \in LeavesOf(u, t2)
    <3>1. CASE l = Leaf(o) /\ o.remaining # 0
      BY <1>1, <1>2, <1>3, <3>1, IsLeaf
    <3>2. CASE l \in leaves
      <4>1. PICK j \in NoncesOf(u) : Active(tree, j) /\ tree[j].remaining # 0 /\ l = Leaf(tree[j])
        BY <3>2, IsLeaf DEF BookInv
      <4>2. j # i
        BY <4>1 DEF Active
      <4> QED
        BY <1>2, <1>3, <4>1, <4>2, IsLeaf
    <3> QED
      BY <1>7, <2>1, <3>1, <3>2
  <2>2. ASSUME l \in LeavesOf(u, t2) PROVE l \in l2
    <3>1. PICK j \in NoncesOf(u) : Active(t2, j) /\ t2[j].remaining # 0 /\ l = Leaf(t2[j])
      BY <2>2, IsLeaf
    <3>2. CASE j = i
      BY <1>2, <1>7, <3>1, <3>2
    <3>3. CASE j # i
      <4>1. Active(tree, j) /\ t2[j] = tree[j]
        BY <1>2, <1>3, <3>1, <3>3
      <4> QED
        BY <1>7, <3>1, <4>1, IsLeaf DEF BookInv
    <3> QED
      BY <3>2, <3>3
  <2> QED
    BY <2>1, <2>2
<1>9. l2 = LeavesOf(u, t2)
  BY <1>8
<1>10. NotCrossed(l2)
  <2> SUFFICES ASSUME NEW l \in l2, NEW m \in l2, l.is_ask, ~m.is_ask PROVE l.price > m.price
    BY DEF NotCrossed
  <2>1. CASE l \in leaves /\ m \in leaves
    BY <2>1 DEF BookInv, NotCrossed
  <2>2. Leaf(o).is_ask = o.is_ask /\ Leaf(o).price = o.price /\ o.is_ask \in BOOLEAN
    BY LeafFields, OrderFacts
  <2>3. \A k \in leaves : k.price \in Nat /\ k.is_ask \in BOOLEAN
    <3> TAKE k \in leaves
    <3>1. PICK j \in NoncesOf(u) : Active(tree, j) /\ k = Leaf(tree[j])
      BY IsLeaf DEF BookInv
    <3>2. tree[j] \in OrderSet(u)
      BY <1>1, <3>1 DEF OrderTree, Active
    <3> QED
      BY <3>1, <3>2, LeafFields, OrderFacts
  <2>4. o.price \in Nat
    BY OrderFacts
  <2>5. CASE l = Leaf(o) /\ m \in leaves
    BY <2>2, <2>3, <2>4, <2>5
  <2>6. CASE l \in leaves /\ m = Leaf(o)
    BY <2>2, <2>3, <2>4, <2>6
  <2>7. ~(l = Leaf(o) /\ m = Leaf(o))
    OBVIOUS
  <2> QED
    BY <1>7, <2>1, <2>5, <2>6, <2>7
<1> QED
  BY <1>4, <1>9, <1>10 DEF BookInv

(* A pending order is added, or changed.                                   *)
LEMMA PendingSet ==
  ASSUME NEW u, u.max_nonce \in Nat, NEW mkt, NEW tree, NEW leaves,
         TreeInv(u, mkt, tree), BookInv(u, tree, leaves),
         NEW i, IndexTaken(u, mkt, i), ~Active(tree, i),
         NEW o \in OrderSet(u), o.trigger_status # "NA"
  PROVE  LET t2 == [tree EXCEPT ![i] = o]
         IN  /\ TreeInv(u, mkt, t2) /\ BookInv(u, t2, leaves)
             /\ tree[i] # NoOrder => Fewer(u, tree, t2)
             /\ \A j \in NoncesOf(u) : Active(t2, j) <=> Active(tree, j)
             /\ \A j \in NoncesOf(u) : j # i => t2[j] = tree[j]
<1> DEFINE t2 == [tree EXCEPT ![i] = o]
<1> SUFFICES /\ TreeInv(u, mkt, t2) /\ BookInv(u, t2, leaves)
             /\ tree[i] # NoOrder => Fewer(u, tree, t2)
             /\ \A j \in NoncesOf(u) : Active(t2, j) <=> Active(tree, j)
             /\ \A j \in NoncesOf(u) : j # i => t2[j] = tree[j]
  OBVIOUS
<1>1. tree \in OrderTree(u) /\ i \in NoncesOf(u) /\ o # NoOrder
  BY OrderFacts DEF TreeInv, IndexTaken
<1>2. t2 \in OrderTree(u) /\ t2[i] = o /\ \A j \in NoncesOf(u) : j # i => t2[j] = tree[j]
  BY <1>1 DEF OrderTree
<1> HIDE DEF t2
<1>3. \A j \in NoncesOf(u) : /\ Active(t2, j) <=> Active(tree, j)
                             /\ Active(tree, j) => t2[j] = tree[j]
  <2> TAKE j \in NoncesOf(u)
  <2>1. CASE j = i
    BY <1>2, <2>1 DEF Active
  <2>2. CASE j # i
    BY <1>2, <2>2 DEF Active
  <2> QED
    BY <2>1, <2>2
<1>4. TreeInv(u, mkt, t2)
  BY <1>2, <1>3 DEF TreeInv
<1>5. ASSUME NEW l PROVE l \in LeavesOf(u, tree) <=> l \in LeavesOf(u, t2)
  BY <1>3, IsLeaf
<1>6. LeavesOf(u, tree) = LeavesOf(u, t2)
  BY <1>5
<1>7. tree[i] # NoOrder => Fewer(u, tree, t2)
  BY <1>2, <1>3 DEF Fewer
<1> QED
  BY <1>2, <1>3, <1>4, <1>6, <1>7 DEF BookInv

(* The best maker exists, and the maker that is looked up is its order.    *)
LEMMA LeafType ==
  ASSUME NEW u, u.max_nonce \in Nat, NEW mkt, NEW tree, NEW leaves,
         TreeInv(u, mkt, tree), BookInv(u, tree, leaves)
  PROVE  /\ \A l \in leaves : l.price \in Nat /\ l.nonce \in NoncesOf(u) /\ l.is_ask \in BOOLEAN
         /\ \A l, m \in leaves : l.nonce = m.nonce => l = m
<1>1. ASSUME NEW l \in leaves
      PROVE  \E j \in NoncesOf(u) : Active(tree, j) /\ tree[j].remaining # 0 /\ l = Leaf(tree[j])
  BY IsLeaf DEF BookInv
<1>2. ASSUME NEW l \in leaves PROVE l.price \in Nat /\ l.nonce \in NoncesOf(u) /\ l.is_ask \in BOOLEAN
  <2>1. PICK j \in NoncesOf(u) : Active(tree, j) /\ l = Leaf(tree[j])
    BY <1>1
  <2>2. tree[j] \in OrderSet(u) /\ NonceTaken(u, mkt, tree[j]) /\ mkt \in MarketSet(u)
    BY <2>1 DEF TreeInv, OrderTree, Active
  <2>3. tree[j].nonce \in NoncesOf(u)
    BY <2>2 DEF NonceTaken, MarketSet, NoncesOf
  <2> QED
    BY <2>1, <2>2, <2>3, OrderFacts, LeafFields
<1>3. ASSUME NEW l \in leaves, NEW m \in leaves, l.nonce = m.nonce PROVE l = m
  <2>1. PICK i \in NoncesOf(u) : Active(tree, i) /\ l = Leaf(tree[i])
    BY <1>1
  <2>2. PICK j \in NoncesOf(u) : Active(tree, j) /\ m = Leaf(tree[j])
    BY <1>1
  <2>3. i = j
    BY <1>3, <2>1, <2>2, LeafFields DEF TreeInv
  <2> QED
    BY <2>1, <2>2, <2>3
<1> QED
  BY <1>2, <1>3

(* A non-empty set of naturals has a least element.                        *)
LEMMA LeastNatural ==
  ASSUME NEW T, T \subseteq Nat, T # {}
  PROVE  \E x \in T : \A y \in T : x <= y
<1> DEFINE R == OpToRel(<, Nat)
<1>1. IsWellFoundedOn(R, Nat)
  BY NatLessThanWellFounded
<1>2. \A x, y \in Nat : x < y => <<x, y>> \in R
  BY DEF OpToRel
<1> HIDE DEF R
<1>3. \E x \in T : \A y \in T : ~(<<y, x>> \in R)
  BY <1>1, WFMin
<1>4. PICK x \in T : \A y \in T : ~(<<y, x>> \in R)
  BY <1>3
<1>5. ASSUME NEW y \in T PROVE x <= y
  <2>1. x \in Nat /\ y \in Nat /\ ~(y < x)
    BY <1>2, <1>4
  <2> QED
    BY <2>1
<1> QED
  BY <1>5

(* One leaf of a side comes before all others of it: prices may tie,       *)
(* nonces do not.                                                          *)
LEMMA BestExists ==
  ASSUME NEW max \in Nat, NEW side \in BOOLEAN, NEW L, L # {},
         \A l \in L : l.price \in Nat /\ l.nonce \in 1 .. max /\ l.is_ask = side,
         \A l, m \in L : l.nonce = m.nonce => l = m
  PROVE  \E l \in L : \A m \in L : m = l \/ Before(l, m)
<1> DEFINE UpTo(k) == {l \in L : l.nonce <= k}
           HasBest(k) == \E l \in UpTo(k) : \A m \in UpTo(k) : m = l \/ Before(l, m)
           Bad == {k \in 0 .. max : UpTo(k) # {} /\ ~HasBest(k)}
<1>1. \A l, m \in L : l # m => (Before(l, m) <=> ~Before(m, l))
  BY DEF Before
<1>2. \A l, m, h \in L : Before(l, m) /\ Before(m, h) => Before(l, h)
  BY DEF Before
<1>3. Bad = {}
  <2> SUFFICES ASSUME Bad # {} PROVE FALSE
    OBVIOUS
  <2>1. Bad \subseteq Nat
    OBVIOUS
  <2>2. PICK k \in Bad : \A j \in Bad : k <= j
    <3> HIDE DEF Bad
    <3> QED
      BY <2>1, LeastNatural
  <2>3. k \in 0 .. max /\ UpTo(k) # {} /\ ~HasBest(k)
    OBVIOUS
  <2>4. k # 0
    BY <2>3
  <2>5. k - 1 \in 0 .. max /\ (UpTo(k - 1) = {} \/ HasBest(k - 1))
    <3>1. k - 1 \in 0 .. max /\ ~(k <= k - 1)
      BY <2>3, <2>4
    <3>2. k - 1 \notin Bad
      BY <2>2, <3>1
    <3> QED
      BY <3>1, <3>2
  <2>6. \A l \in L : l \in UpTo(k) <=> (l \in UpTo(k - 1) \/ l.nonce = k)
    <3> TAKE l \in L
    <3>1. l.nonce \in Int /\ k \in Int
      BY <2>3
    <3>2. \A i, j \in Int : i <= j <=> (i <= j - 1 \/ i = j)
      OBVIOUS
    <3>3. l.nonce <= k <=> (l.nonce <= k - 1 \/ l.nonce = k)
      BY <3>1, <3>2
    <3> QED
      BY <3>3
  <2>7. \A l, m \in UpTo(k) : (l.nonce = k /\ m.nonce = k) => l = m
    OBVIOUS
  <2>8. UpTo(k) \subseteq L /\ UpTo(k - 1) \subseteq L
    OBVIOUS
  <2> HIDE DEF UpTo, Bad
  <2>9. CASE UpTo(k - 1) = {}
    <3>1. \A l \in UpTo(k) : l.nonce = k
      BY <2>6, <2>8, <2>9
    <3>2. \A l, m \in UpTo(k) : l = m
      BY <2>7, <3>1
    <3> QED
      BY <2>3, <3>2
  <2>10. CASE HasBest(k - 1)
    <3>1. PICK b \in UpTo(k - 1) : \A m \in UpTo(k - 1) : m = b \/ Before(b, m)
      BY <2>10
    <3>2. b \in L /\ b \in UpTo(k)
      BY <2>6, <2>8, <3>1
    <3>3. CASE \A l \in UpTo(k) : l = b \/ Before(b, l)
      BY <2>3, <3>2, <3>3
    <3>4. CASE \E l \in UpTo(k) : l # b /\ ~Before(b, l)
      <4>1. PICK l \in UpTo(k) : l # b /\ ~Before(b, l)
        BY <3>4
      <4>2. l \in L /\ l.nonce = k /\ Before(l, b)
        BY <1>1, <2>6, <2>8, <3>1, <3>2, <4>1
      <4>3. ASSUME NEW m \in UpTo(k) PROVE m = l \/ Before(l, m)
        <5>1. m \in UpTo(k - 1) \/ m = l
          BY <2>6, <2>7, <2>8, <4>1, <4>2
        <5> QED
          BY <1>2, <2>8, <3>1, <3>2, <4>2, <5>1
      <4> QED
        BY <2>3, <4>1, <4>3
    <3> QED
      BY <3>3, <3>4
  <2> QED
    BY <2>5, <2>9, <2>10
<1>4. UpTo(max) = L /\ max \in 0 .. max
  OBVIOUS
<1>5. HasBest(max)
  BY <1>3, <1>4
<1> QED
  BY <1>4, <1>5

(* The best maker is a leaf of the other side that comes before all        *)
(* others.                                                                 *)
LEMMA BestIsBest ==
  ASSUME NEW u, u.max_nonce \in Nat, NEW s, NEW is_ask \in BOOLEAN,
         TreeInv(u, s.market, s.orders), BookInv(u, s.orders, s.book),
         Opposite(s, is_ask) # {}
  PROVE  LET b == Best(s, is_ask)
         IN  b \in Opposite(s, is_ask) /\ \A m \in Opposite(s, is_ask) : m = b \/ Before(b, m)
<1> DEFINE L == Opposite(s, is_ask)
           P(l) == \A m \in L : m = l \/ Before(l, m)
           side == ~is_ask
<1>1. /\ L # {} /\ \A l \in L : l.price \in Nat /\ l.nonce \in 1 .. u.max_nonce /\ l.is_ask = side
      /\ \A l, m \in L : l.nonce = m.nonce => l = m
  BY LeafType DEF Opposite, NoncesOf
<1>2. side \in BOOLEAN
  OBVIOUS
<1> HIDE DEF L, side
<1>3. \E l \in L : P(l)
  BY <1>1, <1>2, BestExists
<1>4. Best(s, is_ask) = CHOOSE l \in L : P(l)
  BY DEF Best, L
<1> HIDE DEF P
<1>5. Best(s, is_ask) \in L /\ P(Best(s, is_ask))
  BY <1>3, <1>4
<1> QED
  BY <1>5 DEF L, P

(* The maker that matching looks up for a pending order is an active       *)
(* order of the other side with something left.                            *)
LEMMA MakerIsFound ==
  ASSUME NEW u, u = setup, u.max_nonce \in Nat, NEW s, NEW o \in OrderSet(u),
         TreeInv(u, s.market, s.orders), BookInv(u, s.orders, s.book), ~LeafIsEmpty(s, o)
  PROVE  LET m == Maker(s, o)
         IN  /\ m \in NoncesOf(u) /\ Active(s.orders, m)
             /\ s.orders[m] \in OrderSet(u) /\ s.orders[m].remaining \in Nat \ {0}
             /\ s.orders[m].is_ask # o.is_ask
<1> DEFINE b == Best(s, o.is_ask)
           Q(i) == s.orders[i] # NoOrder /\ s.orders[i].nonce = b.nonce
           m == Maker(s, o)
<1>1. o.is_ask \in BOOLEAN /\ Opposite(s, o.is_ask) # {}
  BY OrderFacts DEF LeafIsEmpty
<1>2. b \in Opposite(s, o.is_ask)
  BY <1>1, BestIsBest
<1>3. b \in s.book /\ b.is_ask # o.is_ask
  BY <1>2 DEF Opposite
<1> HIDE DEF b
<1>4. PICK j \in NoncesOf(u) : Active(s.orders, j) /\ s.orders[j].remaining # 0 /\ b = Leaf(s.orders[j])
  BY <1>3, IsLeaf DEF BookInv
<1>5. j \in Nonces /\ Nonces = NoncesOf(u) /\ Q(j)
  BY <1>4, LeafFields DEF Nonces, NoncesOf, FIRST_ASK_NONCE, FIRST_BID_NONCE, MaxNonce, Active
<1>6. m = CHOOSE i \in Nonces : Q(i)
  BY DEF Maker, b
<1> HIDE DEF m
<1>7. m \in Nonces /\ Q(m)
  <2> HIDE DEF Q
  <2> QED
    BY <1>5, <1>6
<1>8. m = j
  BY <1>4, <1>5, <1>7, LeafIsUnique, LeafFields
<1>9. s.orders[j] \in OrderSet(u) /\ s.orders[j].trigger_status = "NA"
  BY <1>4 DEF TreeInv, OrderTree, Active
<1>10. s.orders[j].remaining \in Nat \ {0} /\ s.orders[j].is_ask # o.is_ask
  BY <1>3, <1>4, <1>9, OrderFacts, LeafFields
<1> QED
  BY <1>4, <1>8, <1>9, <1>10 DEF m

-----------------------------------------------------------------------------
(* The decision.                                                           *)
LEMMA Quotient ==
  ASSUME NEW a \in Nat, NEW b \in Nat, b # 0
  PROVE  a \div b \in Nat /\ b * (a \div b) <= a
OBVIOUS

(* Products of naturals are monotone.                                      *)
LEMMA ProductBound ==
  ASSUME NEW a \in Nat, NEW b \in Nat, NEW c \in Nat, b <= c
  PROVE  a * b \in Nat /\ a * b <= a * c
OBVIOUS

(* What may trade: an amount that both orders have, that reduce-only       *)
(* orders may fill, and whose slippage is covered.                         *)
LEMMA AmountBounds ==
  ASSUME NEW u, NEW s, s.pos \in PosTree, NEW o \in OrderSet(u), NEW mk \in OrderSet(u),
         NEW acc \in Nat, o.remaining \in Nat, mk.remaining \in Nat,
         NEW amount, amount = AllowedAmount(o, mk, acc, CappedAmount(s, o, mk))
  PROVE  /\ amount \in Nat /\ amount <= o.remaining /\ amount <= mk.remaining
         /\ o.reduce_only  => amount <= Abs(s.pos[o.owner].position)
         /\ mk.reduce_only => amount <= Abs(s.pos[mk.owner].position)
         /\ (MarketFlag(o) /\ PriceDiff(o, mk) > 0) => PriceDiff(o, mk) * amount <= acc
<1> DEFINE capped == CappedAmount(s, o, mk)
           p == Abs(s.pos[o.owner].position)
           q == Abs(s.pos[mk.owner].position)
           diff == PriceDiff(o, mk)
<1>1. p \in Nat /\ q \in Nat
  <2>1. s.pos[o.owner].position \in Int /\ s.pos[mk.owner].position \in Int
    BY OrderFacts DEF PosTree, PosSet
  <2> QED
    BY <2>1 DEF Abs
<1>2. diff \in Int
  BY OrderFacts DEF PriceDiff
<1>3. capped = LET n == IF mk.reduce_only THEN MinOf(q, MinOf(mk.remaining, o.remaining))
                        ELSE MinOf(mk.remaining, o.remaining)
               IN  IF o.reduce_only THEN MinOf(p, n) ELSE n
  BY DEF CappedAmount
<1>4. amount = IF MarketFlag(o) /\ diff > 0 THEN MinOf(acc \div diff, capped) ELSE capped
  BY DEF AllowedAmount
<1> DEFINE worse == MarketFlag(o) /\ diff > 0
           paid == diff * amount
<1> HIDE DEF p, q, diff, capped
<1>5. /\ capped \in Nat /\ capped <= o.remaining /\ capped <= mk.remaining
      /\ o.reduce_only  => capped <= p
      /\ mk.reduce_only => capped <= q
  BY <1>1, <1>3 DEF MinOf
<1>6. amount \in Nat /\ amount <= capped /\ (worse => paid <= acc)
  <2>1. CASE worse
    <3>1. acc \div diff \in Nat /\ diff * (acc \div diff) <= acc /\ diff \in Nat
      BY <1>2, <2>1, Quotient
    <3>2. amount = MinOf(acc \div diff, capped)
      BY <1>4, <2>1
    <3>3. amount \in Nat /\ amount <= acc \div diff /\ amount <= capped
      BY <1>5, <3>1, <3>2 DEF MinOf
    <3>4. diff * amount <= diff * (acc \div diff) /\ diff * amount \in Nat
      BY <3>1, <3>3, ProductBound
    <3>5. diff * (acc \div diff) \in Int
      BY <3>1
    <3>6. paid <= acc
      BY <3>1, <3>4, <3>5
    <3> HIDE DEF worse, paid
    <3> QED
      BY <3>3, <3>6
  <2>2. CASE ~worse
    <3>1. amount = capped
      BY <1>4, <2>2
    <3> HIDE DEF worse, paid
    <3> QED
      BY <1>5, <2>2, <3>1
  <2> QED
    BY <2>1, <2>2
<1>7. /\ amount \in Nat /\ amount <= o.remaining /\ amount <= mk.remaining
      /\ o.reduce_only  => amount <= p
      /\ mk.reduce_only => amount <= q
      /\ worse => paid <= acc
  <2> HIDE DEF worse, paid
  <2> QED
    BY <1>1, <1>5, <1>6
<1> HIDE DEF paid
<1> QED
  BY <1>7 DEF p, q, diff, paid

Verdict(c) == c.taker_ok \in BOOLEAN /\ c.maker_ok \in BOOLEAN /\ c.healthy \in BOOLEAN

(* A decision that the trees can carry out ...                             *)
Feasible(o, mk, d) ==
  /\ d.cancel_taker \in BOOLEAN /\ d.cancel_maker \in BOOLEAN /\ d.insert = FALSE
  /\ d.kind \in {"NONE", "REDUCE", "TRADE"}
  /\ d.kind # "NONE" => /\ d.amount \in Nat /\ d.amount <= o.remaining /\ d.amount <= mk.remaining

(* ... and a trade that the properties allow.                              *)
GoodTrade(s, o, mk, acc, amount, time, price) ==
  /\ ~MakerIsStale(s, mk, time)
  /\ ~Spot => ~NotValidReduceOnly(s, mk)
  /\ ~OpenInterestExceeded(s, o, mk, amount, price)
  /\ o.reduce_only  => amount <= Abs(s.pos[o.owner].position)
  /\ mk.reduce_only => amount <= Abs(s.pos[mk.owner].position)
  /\ (MarketFlag(o) /\ PriceDiff(o, mk) > 0) => PriceDiff(o, mk) * amount <= acc

(* What the matching engine decides against a maker can be carried out,    *)
(* and a trade it decides for is a good one.                               *)
LEMMA DecisionIsGood ==
  ASSUME NEW u, NEW s, s.pos \in PosTree, NEW o \in OrderSet(u), NEW mk \in OrderSet(u),
         NEW acc \in Nat, o.remaining \in Nat, mk.remaining \in Nat, NEW c, Verdict(c),
         NEW time, NEW price, NEW d, d = DecideAgainst(s, o, mk, acc, c, time, price)
  PROVE  /\ Feasible(o, mk, d)
         /\ d.kind = "TRADE" => GoodTrade(s, o, mk, acc, d.amount, time, price)
<1> DEFINE capped  == CappedAmount(s, o, mk)
           allowed == AllowedAmount(o, mk, acc, capped)
           slipped == TooMuchSlippage(o, mk, acc, capped)
           t == TradeDecision(s, o, mk, allowed, slipped, c, price)
<1>1. \/ d \in {CancelMaker, CancelTaker, CancelBoth}
      \/ d = SelfTradeReduce(o, mk)
      \/ d = t /\ ~MakerIsStale(s, mk, time) /\ (~Spot => ~NotValidReduceOnly(s, mk))
  <2>1. SelfTradeExpire(o) \in {CancelMaker, CancelTaker, CancelBoth} \/ o.stp = "REDUCE"
    BY OrderFacts DEF SelfTradeExpire, SelfTradeModes
  <2> QED
    BY <2>1 DEF DecideAgainst
<1>2. ASSUME NEW a \in BOOLEAN, NEW b \in BOOLEAN, d = Decision(a, b, FALSE, "NONE", 0)
      PROVE  Feasible(o, mk, d) /\ d.kind # "TRADE"
  <2>1. d.cancel_taker = a /\ d.cancel_maker = b /\ d.insert = FALSE /\ d.kind = "NONE"
    BY <1>2 DEF Decision
  <2> QED
    BY <2>1 DEF Feasible
<1>3. ASSUME NEW a \in BOOLEAN, NEW b \in BOOLEAN, NEW k \in {"REDUCE", "TRADE"}, NEW e \in Nat,
             d = Decision(a, b, FALSE, k, e), e <= o.remaining, e <= mk.remaining
      PROVE  Feasible(o, mk, d) /\ d.kind = k /\ d.amount = e
  <2>1. d.cancel_taker = a /\ d.cancel_maker = b /\ d.insert = FALSE /\ d.kind = k /\ d.amount = e
    BY <1>3 DEF Decision
  <2> QED
    BY <1>3, <2>1 DEF Feasible
<1>4. CASE d \in {CancelMaker, CancelTaker, CancelBoth}
  <2>1. \E a, b \in BOOLEAN : d = Decision(a, b, FALSE, "NONE", 0)
    BY <1>4 DEF CancelMaker, CancelTaker, CancelBoth
  <2> QED
    BY <1>2, <2>1
<1>5. CASE d = SelfTradeReduce(o, mk)
  <2> DEFINE amount == MinOf(o.remaining, mk.remaining)
  <2>1. amount \in Nat /\ amount <= o.remaining /\ amount <= mk.remaining
    BY DEF MinOf
  <2>2. \E a, b \in BOOLEAN : \/ d = Decision(a, b, FALSE, "NONE", 0)
                              \/ d = Decision(a, b, FALSE, "REDUCE", amount)
    <3>1. CASE o.tif = "POST_ONLY"
      BY <1>5, <3>1 DEF SelfTradeReduce, CancelTaker
    <3>2. CASE o.tif # "POST_ONLY"
      <4> DEFINE a == o.remaining = amount
                 b == mk.remaining = amount
      <4>1. d = Decision(a, b, FALSE, "REDUCE", amount)
        BY <1>5, <3>2 DEF SelfTradeReduce
      <4>2. a \in BOOLEAN /\ b \in BOOLEAN
        OBVIOUS
      <4> HIDE DEF a, b
      <4> QED
        BY <4>1, <4>2
    <3> QED
      BY <3>1, <3>2
  <2> HIDE DEF amount
  <2>3. PICK a \in BOOLEAN, b \in BOOLEAN : \/ d = Decision(a, b, FALSE, "NONE", 0)
                                            \/ d = Decision(a, b, FALSE, "REDUCE", amount)
    BY <2>2
  <2>4. CASE d = Decision(a, b, FALSE, "NONE", 0)
    BY <1>2, <2>4
  <2>5. CASE d = Decision(a, b, FALSE, "REDUCE", amount)
    <3>1. Feasible(o, mk, d) /\ d.kind = "REDUCE"
      BY <1>3, <2>1, <2>5
    <3> QED
      BY <3>1
  <2> QED
    BY <2>3, <2>4, <2>5
<1>6. CASE d = t /\ ~MakerIsStale(s, mk, time) /\ (~Spot => ~NotValidReduceOnly(s, mk))
  <2>1. /\ allowed \in Nat /\ allowed <= o.remaining /\ allowed <= mk.remaining
        /\ o.reduce_only  => allowed <= Abs(s.pos[o.owner].position)
        /\ mk.reduce_only => allowed <= Abs(s.pos[mk.owner].position)
        /\ (MarketFlag(o) /\ PriceDiff(o, mk) > 0) => PriceDiff(o, mk) * allowed <= acc
    BY AmountBounds
  <2> HIDE DEF allowed, slipped
  <2>2. \E a, b \in BOOLEAN :
          \/ d = Decision(a, b, FALSE, "NONE", 0)
          \/ d = Decision(a, b, FALSE, "TRADE", allowed) /\ ~OpenInterestExceeded(s, o, mk, allowed, price)
    <3> DEFINE bad == ~c.taker_ok \/ OpenInterestExceeded(s, o, mk, allowed, price)
               stop(order, left) ==
                 \/ left = 0
                 \/ /\ order.reduce_only
                    /\ NotValidReduceOnlyDirection(NewPosition(s, order, allowed), order.is_ask)
               ct == \/ stop(o, o.remaining - allowed) \/ slipped
                     \/ o.type = "LIQUIDATION" /\ c.healthy
               cm == stop(mk, mk.remaining - allowed)
               good == ~c.maker_ok
    <3>1. d = IF bad \/ good THEN Decision(bad, good, FALSE, "NONE", 0)
              ELSE Decision(ct, cm, FALSE, "TRADE", allowed)
      BY <1>6 DEF TradeDecision
    <3>2. bad \in BOOLEAN /\ good \in BOOLEAN /\ ct \in BOOLEAN /\ cm \in BOOLEAN
      BY Zenon
    <3>3. ~bad => ~OpenInterestExceeded(s, o, mk, allowed, price)
      OBVIOUS
    <3> HIDE DEF bad, ct, cm, good
    <3>4. CASE bad \/ good
      <4>1. d = Decision(bad, good, FALSE, "NONE", 0)
        BY <3>1, <3>4
      <4> QED
        BY <3>2, <4>1
    <3>5. CASE ~(bad \/ good)
      <4>1. d = Decision(ct, cm, FALSE, "TRADE", allowed)
        BY <3>1, <3>5
      <4> QED
        BY <3>2, <3>3, <3>5, <4>1
    <3> QED
      BY <3>4, <3>5
  <2>3. PICK a \in BOOLEAN, b \in BOOLEAN :
          \/ d = Decision(a, b, FALSE, "NONE", 0)
          \/ d = Decision(a, b, FALSE, "TRADE", allowed) /\ ~OpenInterestExceeded(s, o, mk, allowed, price)
    BY <2>2
  <2>4. CASE d = Decision(a, b, FALSE, "NONE", 0)
    BY <1>2, <2>4
  <2>5. CASE d = Decision(a, b, FALSE, "TRADE", allowed) /\ ~OpenInterestExceeded(s, o, mk, allowed, price)
    <3>1. Feasible(o, mk, d) /\ d.amount = allowed
      BY <1>3, <2>1, <2>5
    <3> QED
      BY <1>6, <2>1, <2>5, <3>1 DEF GoodTrade
  <2> QED
    BY <2>3, <2>4, <2>5
<1> QED
  BY <1>1, <1>4, <1>5, <1>6

-----------------------------------------------------------------------------
(* What changes counters and locked balances only.                         *)
Bookkept(u, s, t) ==
  /\ Typed(t) /\ t.market \in MarketSet(u)
  /\ t.market.ask_nonce = s.market.ask_nonce /\ t.market.bid_nonce = s.market.bid_nonce
  /\ t.market.open_interest = s.market.open_interest
  /\ \A a \in Accounts : t.pos[a].position = s.pos[a].position
  /\ t.rs = s.rs /\ t.new = s.new /\ t.orders = s.orders /\ t.book = s.book
  /\ t.ok => s.ok

(* Bookkeeping that changes nothing, or one thing after another.           *)
LEMMA Kept ==
  ASSUME NEW u, NEW s, Typed(s), s.market \in MarketSet(u)
  PROVE  /\ Bookkept(u, s, s)
         /\ \A t, v : (Bookkept(u, s, t) /\ Bookkept(u, t, v)) => Bookkept(u, s, v)
BY DEF Bookkept

(* The order counts of the account, its position and the market are        *)
(* bookkeeping.                                                            *)
LEMMA CountsAreKept ==
  ASSUME NEW u, NEW s, Typed(s), s.market \in MarketSet(u), NEW a \in Accounts, NEW o,
         NEW n \in {-1, 1}, NEW t, t = AddToOrderCounts(s, a, o, n)
  PROVE  Bookkept(u, s, t)
<1> DEFINE b == B2N(Spot \/ s.pos[a].isolated)
           d == B2N(~Spot /\ IsTied(o))
           e == B2N(~Spot)
           mk == [s.market EXCEPT !.total_order_count = @ + n]
           ac == [s.acct[a] EXCEPT !.total_order_count = @ + n,
                                   !.total_non_cross_order_count = @ + n * b]
           ps == [s.pos[a] EXCEPT !.total_position_tied_order_count = @ + n * d,
                                  !.total_order_count = @ + n * e]
<1>1. b \in Int /\ d \in Int /\ e \in Int /\ n * b \in Int /\ n * d \in Int /\ n * e \in Int
  BY DEF B2N
<1>2. /\ DOMAIN s = TxFields /\ s.ok \in BOOLEAN
      /\ s.acct \in AcctTree /\ s.pos \in PosTree /\ s.locked \in LockTree
  BY DEF Typed
<1>3. /\ t.market = mk /\ t.acct = [s.acct EXCEPT ![a] = ac] /\ t.pos = [s.pos EXCEPT ![a] = ps]
      /\ t.rs = s.rs /\ t.new = s.new /\ t.orders = s.orders /\ t.book = s.book
      /\ t.locked = s.locked /\ t.ok = s.ok /\ DOMAIN t = TxFields
  BY <1>2 DEF AddToOrderCounts, TxFields
<1> HIDE DEF b, d, e
<1>4. /\ mk \in MarketSet(u) /\ mk.ask_nonce = s.market.ask_nonce
      /\ mk.bid_nonce = s.market.bid_nonce /\ mk.open_interest = s.market.open_interest
  BY DEF MarketSet
<1>5. t.acct \in AcctTree
  <2>1. s.acct[a] \in [total_order_count : Int, total_non_cross_order_count : Int,
                       cancel_all_time : Nat]
    BY <1>2 DEF AcctTree
  <2> DEFINE x == s.acct[a]
             v == x.total_order_count + n
             w == x.total_non_cross_order_count + n * b
  <2>2. v \in Int /\ w \in Int
    BY <1>1, <2>1
  <2>3. ac = [x EXCEPT !.total_order_count = v, !.total_non_cross_order_count = w]
    BY <2>1
  <2> HIDE DEF x, v, w, ac
  <2>4. ac \in [total_order_count : Int, total_non_cross_order_count : Int, cancel_all_time : Nat]
    BY <2>1, <2>2, <2>3 DEF x
  <2> HIDE DEF ac
  <2> QED
    BY <1>2, <1>3, <2>4 DEF AcctTree
<1>6. ps \in PosSet /\ ps.position = s.pos[a].position
  <2>1. s.pos[a] \in PosSet
    BY <1>2 DEF PosTree
  <2> DEFINE x == s.pos[a]
             v == x.total_position_tied_order_count + n * d
             w == x.total_order_count + n * e
  <2>2. v \in Int /\ w \in Int
    BY <1>1, <2>1 DEF PosSet
  <2>3. ps = [x EXCEPT !.total_position_tied_order_count = v, !.total_order_count = w]
    BY <2>1 DEF PosSet
  <2> HIDE DEF x, v, w, ps
  <2> QED
    BY <2>1, <2>2, <2>3 DEF x, PosSet
<1> HIDE DEF mk, ac, ps
<1>7. t.pos \in PosTree /\ \A x \in Accounts : t.pos[x].position = s.pos[x].position
  BY <1>2, <1>3, <1>6 DEF PosTree
<1> QED
  BY <1>2, <1>3, <1>4, <1>5, <1>7 DEF Bookkept, Typed

(* An empty position that is initialised is a position of the same size.   *)
LEMMA InitIsPosition ==
  ASSUME NEW p \in PosSet, NEW a, NEW q, q = InitIfEmpty(p, a)
  PROVE  q \in PosSet /\ q.position = p.position
<1> DEFINE b == DefaultIsolated /\ a \notin InsuranceFund
<1>1. b \in BOOLEAN
  BY Zenon
<1>2. q = p \/ q = [p EXCEPT !.isolated = b, !.margin_set = TRUE]
  BY DEF InitIfEmpty
<1> HIDE DEF b
<1>3. CASE q = p
  BY <1>3
<1>4. CASE q = [p EXCEPT !.isolated = b, !.margin_set = TRUE]
  BY <1>1, <1>4 DEF PosSet
<1> QED
  BY <1>2, <1>3, <1>4

(* So is a change of a position's counts and margin mode ...               *)
LEMMA PositionIsKept ==
  ASSUME NEW u, NEW s, Typed(s), s.market \in MarketSet(u), NEW a \in Accounts,
         NEW q \in PosSet, q.position = s.pos[a].position,
         NEW t, t = [s EXCEPT !.pos = [s.pos EXCEPT ![a] = q]]
  PROVE  Bookkept(u, s, t)
<1>1. DOMAIN s = TxFields /\ s.ok \in BOOLEAN /\ s.pos \in PosTree
  BY DEF Typed
<1>2. /\ DOMAIN t = TxFields /\ t.pos = [s.pos EXCEPT ![a] = q]
      /\ t.market = s.market /\ t.acct = s.acct /\ t.locked = s.locked /\ t.ok = s.ok
      /\ t.rs = s.rs /\ t.new = s.new /\ t.orders = s.orders /\ t.book = s.book
  BY <1>1 DEF TxFields
<1>3. t.pos \in PosTree /\ \A x \in Accounts : t.pos[x].position = s.pos[x].position
  BY <1>1, <1>2 DEF PosTree
<1> QED
  BY <1>2, <1>3 DEF Bookkept, Typed

(* ... the counting of one order more ...                                  *)
LEMMA IncrementIsKept ==
  ASSUME NEW u, NEW s, Typed(s), s.market \in MarketSet(u), NEW a \in Accounts, NEW o,
         NEW t, t = IncrementOrderCount(s, a, o)
  PROVE  Bookkept(u, s, t)
<1> DEFINE q == InitIfEmpty(s.pos[a], a)
           x == IF Spot THEN s ELSE [s EXCEPT !.pos = [s.pos EXCEPT ![a] = q]]
<1>1. s.pos[a] \in PosSet
  BY DEF Typed, PosTree
<1>2. q \in PosSet /\ q.position = s.pos[a].position
  BY <1>1, InitIsPosition
<1>3. t = AddToOrderCounts(x, a, o, 1)
  BY DEF IncrementOrderCount
<1> HIDE DEF q
<1>4. Bookkept(u, s, x)
  <2>1. CASE Spot
    BY <2>1, Kept
  <2>2. CASE ~Spot
    BY <1>2, <2>2, PositionIsKept
  <2> QED
    BY <2>1, <2>2
<1> HIDE DEF x
<1>5. Bookkept(u, x, t)
  BY <1>3, <1>4, CountsAreKept DEF Bookkept
<1> QED
  BY <1>4, <1>5, Kept

(* ... and of one order less.                                              *)
LEMMA DecrementIsKept ==
  ASSUME NEW u, NEW s, Typed(s), s.market \in MarketSet(u), NEW a \in Accounts, NEW o,
         NEW t, t = DecrementOrderCount(s, a, o)
  PROVE  Bookkept(u, s, t)
BY CountsAreKept DEF DecrementOrderCount

(* An assertion, and a change of one locked balance.                       *)
LEMMA AssertIsKept ==
  ASSUME NEW u, NEW s, Typed(s), s.market \in MarketSet(u), NEW condition, NEW t, t = Assert(s, condition)
  PROVE  Bookkept(u, s, t) /\ (t.ok => condition) /\ t.locked = s.locked /\ t.acct = s.acct /\ t.pos = s.pos
<1>1. /\ DOMAIN s = TxFields /\ s.ok \in BOOLEAN
      /\ s.acct \in AcctTree /\ s.pos \in PosTree /\ s.locked \in LockTree
  BY DEF Typed
<1>2. /\ DOMAIN t = TxFields /\ t.market = s.market /\ t.acct = s.acct /\ t.pos = s.pos
      /\ t.rs = s.rs /\ t.new = s.new /\ t.orders = s.orders /\ t.book = s.book
      /\ t.locked = s.locked /\ t.ok = (s.ok /\ condition)
  BY <1>1 DEF Assert, TxFields
<1>3. t.ok \in BOOLEAN /\ (t.ok => s.ok) /\ (t.ok => condition)
  BY <1>2
<1> QED
  BY <1>1, <1>2, <1>3 DEF Bookkept, Typed

(* A locked balance that is written is bookkeeping ...                     *)
LEMMA LockedIsKept ==
  ASSUME NEW u, NEW s, Typed(s), s.market \in MarketSet(u), NEW a \in Accounts,
         NEW b \in Int, NEW q \in Int,
         NEW t, t = [s EXCEPT !.locked = [s.locked EXCEPT ![a] = [base |-> b, quote |-> q]]]
  PROVE  Bookkept(u, s, t)
<1>1. DOMAIN s = TxFields /\ s.ok \in BOOLEAN /\ s.locked \in LockTree
  BY DEF Typed
<1>2. /\ DOMAIN t = TxFields /\ t.locked = [s.locked EXCEPT ![a] = [base |-> b, quote |-> q]]
      /\ t.market = s.market /\ t.acct = s.acct /\ t.pos = s.pos /\ t.ok = s.ok
      /\ t.rs = s.rs /\ t.new = s.new /\ t.orders = s.orders /\ t.book = s.book
  BY <1>1 DEF TxFields
<1>3. t.locked \in LockTree
  BY <1>1, <1>2 DEF LockTree
<1> QED
  BY <1>2, <1>3 DEF Bookkept, Typed

(* ... whether the order is unlocked ...                                   *)
LEMMA UnlockIsKept ==
  ASSUME NEW u, NEW s, Typed(s), s.market \in MarketSet(u), NEW flag, NEW o \in OrderSet(u),
         NEW size \in Int, NEW t, t = Unlock(s, flag, o, size)
  PROVE  Bookkept(u, s, t)
<1> DEFINE a == o.owner
           l == s.locked[a]
           value == size * o.price
           base == l.base - size
           quote == l.quote - value
           x(c) == Assert(s, c)
<1>1. a \in Accounts /\ o.price \in Nat /\ value \in Int
  BY OrderFacts
<1>2. l \in [base : Int, quote : Int] /\ base \in Int /\ quote \in Int
  BY <1>1 DEF Typed, LockTree
<1>3. ASSUME NEW c, NEW b \in Int, NEW q \in Int,
             t = [x(c) EXCEPT !.locked = [s.locked EXCEPT ![a] = [base |-> b, quote |-> q]]]
      PROVE  Bookkept(u, s, t)
  <2>1. Bookkept(u, s, x(c)) /\ x(c).locked = s.locked
    BY AssertIsKept
  <2> HIDE DEF x, a
  <2>2. Bookkept(u, x(c), t)
    BY <1>1, <1>3, <2>1, LockedIsKept DEF Bookkept
  <2> QED
    BY <2>1, <2>2, Kept
<1>4. CASE ~flag
  BY <1>4, Kept DEF Unlock
<1>5. CASE flag /\ o.is_ask
  <2> DEFINE y == x(l.base >= size)
  <2>0. y.locked = s.locked
    BY DEF Assert, Typed, TxFields
  <2>1. t = [y EXCEPT !.locked = [s.locked EXCEPT ![a] = [l EXCEPT !.base = base]]]
    <3>1. t = [y EXCEPT !.locked = [y.locked EXCEPT ![a] = [y.locked[a] EXCEPT !.base = y.locked[a].base - size]]]
      BY <1>5 DEF Unlock
    <3> HIDE DEF y
    <3> QED
      BY <2>0, <3>1
  <2>2. [l EXCEPT !.base = base] = [base |-> base, quote |-> l.quote] /\ l.quote \in Int
    BY <1>2
  <2> HIDE DEF l, base, x
  <2> QED
    BY <1>2, <1>3, <2>1, <2>2
<1>6. CASE flag /\ ~o.is_ask
  <2> DEFINE y == x(l.quote >= value)
  <2>0. y.locked = s.locked
    BY DEF Assert, Typed, TxFields
  <2>1. t = [y EXCEPT !.locked = [s.locked EXCEPT ![a] = [l EXCEPT !.quote = quote]]]
    <3>1. t = [y EXCEPT !.locked = [y.locked EXCEPT ![a] = [y.locked[a] EXCEPT !.quote = y.locked[a].quote - value]]]
      BY <1>6 DEF Unlock
    <3> HIDE DEF y
    <3> QED
      BY <2>0, <3>1
  <2>2. [l EXCEPT !.quote = quote] = [base |-> l.base, quote |-> quote] /\ l.base \in Int
    BY <1>2
  <2> HIDE DEF l, quote, x
  <2> QED
    BY <1>2, <1>3, <2>1, <2>2
<1> QED
  BY <1>4, <1>5, <1>6

(* ... or locked.                                                          *)
LEMMA LockIsKept ==
  ASSUME NEW u, NEW s, Typed(s), s.market \in MarketSet(u), NEW flag, NEW o \in OrderSet(u),
         NEW t, t = Lock(s, flag, o)
  PROVE  Bookkept(u, s, t)
<1> DEFINE a == o.owner
           l == s.locked[a]
           value == o.remaining * o.price
           base == l.base + o.remaining
           quote == l.quote + value
<1>1. a \in Accounts /\ o.price \in Nat /\ o.remaining \in Int /\ value \in Int
  BY OrderFacts
<1>2. l \in [base : Int, quote : Int] /\ base \in Int /\ quote \in Int
  BY <1>1 DEF Typed, LockTree
<1>3. ASSUME NEW b \in Int, NEW q \in Int,
             t = [s EXCEPT !.locked = [s.locked EXCEPT ![a] = [base |-> b, quote |-> q]]]
      PROVE  Bookkept(u, s, t)
  <2> HIDE DEF a
  <2> QED
    BY <1>1, <1>3, LockedIsKept
<1>4. CASE ~flag
  BY <1>4, Kept DEF Lock
<1>5. CASE flag /\ o.is_ask
  <2>1. t = [s EXCEPT !.locked = [s.locked EXCEPT ![a] = [l EXCEPT !.base = base]]]
    BY <1>5 DEF Lock
  <2>2. [l EXCEPT !.base = base] = [base |-> base, quote |-> l.quote] /\ l.quote \in Int
    BY <1>2
  <2> HIDE DEF l, base
  <2> QED
    BY <1>2, <1>3, <2>1, <2>2
<1>6. CASE flag /\ ~o.is_ask
  <2>1. t = [s EXCEPT !.locked = [s.locked EXCEPT ![a] = [l EXCEPT !.quote = quote]]]
    BY <1>6 DEF Lock
  <2>2. [l EXCEPT !.quote = quote] = [base |-> l.base, quote |-> quote] /\ l.base \in Int
    BY <1>2
  <2> HIDE DEF l, quote
  <2> QED
    BY <1>2, <1>3, <2>1, <2>2
<1> QED
  BY <1>4, <1>5, <1>6

(* Bookkeeping keeps trees and stack as they are.                          *)
LEMMA KeptIsGood ==
  ASSUME NEW u, u.max_nonce \in Nat, NEW s, TreesInv(u, s), NEW t, Bookkept(u, s, t)
  PROVE  TreesInv(u, t) /\ Later(u, s.market, t.market) /\ (StateInv(u, s) => StateInv(u, t))
<1>1. /\ Typed(t) /\ t.market \in MarketSet(u) /\ t.rs = s.rs /\ t.new = s.new
      /\ t.orders = s.orders /\ t.book = s.book
      /\ t.market.ask_nonce = s.market.ask_nonce /\ t.market.bid_nonce = s.market.bid_nonce
  BY DEF Bookkept
<1>2. s.market \in MarketSet(u) /\ TreeInv(u, s.market, s.orders) /\ BookInv(u, s.orders, s.book)
  BY DEF TreesInv, TreeInv
<1>3. t.market.ask_nonce \in Nat /\ t.market.bid_nonce \in Nat
  BY <1>1 DEF MarketSet, NoncesOf
<1>4. Later(u, s.market, t.market)
  BY <1>1, <1>2, <1>3 DEF Later
<1>5. TreeInv(u, t.market, t.orders)
  BY <1>1, <1>2 DEF TreeInv, IndexTaken, NonceTaken
<1>6. Fewer(u, s.orders, t.orders)
  BY <1>1 DEF Fewer
<1>7. StackInv(u, t.market, t.orders, t.rs)
  BY <1>1, <1>4, <1>6, StackStays DEF TreesInv
<1>8. ASSUME StateInv(u, s) PROVE NewInv(u, t.market, t.orders, t.rs, t.new)
  BY <1>1, <1>4, <1>6, <1>8, NewStays DEF StateInv
<1> QED
  BY <1>1, <1>2, <1>4, <1>5, <1>7, <1>8 DEF TreesInv, StateInv

-----------------------------------------------------------------------------
(* An order is removed.                                                    *)
SameNonces(s, t) ==
  t.market.ask_nonce = s.market.ask_nonce /\ t.market.bid_nonce = s.market.bid_nonce

SameExposure(s, t) ==
  /\ t.market.open_interest = s.market.open_interest
  /\ \A a \in Accounts : t.pos[a].position = s.pos[a].position

Removed(s, t, i) ==
  /\ t.orders = [s.orders EXCEPT ![i] = NoOrder]
  /\ SameNonces(s, t) /\ SameExposure(s, t) /\ t.rs = s.rs /\ t.new = s.new
  /\ t.ok => s.ok

(* An order is removed after bookkeeping; everything else stays sound.     *)
LEMMA OrderIsRemoved ==
  ASSUME NEW u, u.max_nonce \in Nat, NEW s, TreesInv(u, s), NEW x, Bookkept(u, s, x),
         NEW i \in NoncesOf(u), s.orders[i] # NoOrder, NEW t, t = RemoveOrder(x, i)
  PROVE  /\ TreesInv(u, t) /\ Removed(s, t, i) /\ (StateInv(u, s) => StateInv(u, t))
         /\ Later(u, s.market, t.market) /\ Fewer(u, s.orders, t.orders)
<1>1. TreesInv(u, x) /\ Later(u, s.market, x.market) /\ (StateInv(u, s) => StateInv(u, x))
  BY KeptIsGood
<1>2. /\ x.rs = s.rs /\ x.new = s.new /\ x.orders = s.orders /\ x.book = s.book
      /\ SameNonces(s, x) /\ SameExposure(s, x) /\ (x.ok => s.ok) /\ DOMAIN x = TxFields /\ x.ok \in BOOLEAN
  BY DEF Bookkept, SameNonces, SameExposure, Typed
<1>3. /\ t.orders = [x.orders EXCEPT ![i] = NoOrder] /\ t.book = SetLeaf(x.book, x.orders[i], 0)
      /\ t.rs = x.rs /\ t.new = x.new /\ t.market = x.market /\ t.pos = x.pos /\ t.acct = x.acct
      /\ t.locked = x.locked /\ t.ok = x.ok /\ DOMAIN t = TxFields
  BY <1>2 DEF RemoveOrder, TxFields
<1>4. /\ TreeInv(u, t.market, t.orders) /\ BookInv(u, t.orders, t.book)
      /\ Fewer(u, x.orders, t.orders)
  BY <1>1, <1>2, <1>3, OrderGone, SMTT(30) DEF TreesInv
<1>5. Later(u, x.market, t.market) /\ Later(u, s.market, t.market)
  BY <1>1, <1>3 DEF Later, MarketSet, NoncesOf
<1>6. StackInv(u, t.market, t.orders, t.rs)
  BY <1>1, <1>3, <1>4, <1>5, StackStays DEF TreesInv
<1>7. ASSUME StateInv(u, x) PROVE NewInv(u, t.market, t.orders, t.rs, t.new)
  BY <1>3, <1>4, <1>5, <1>7, NewStays DEF StateInv
<1>8. Typed(t)
  BY <1>1, <1>3 DEF TreesInv, Typed
<1>9. Removed(s, t, i)
  BY <1>2, <1>3 DEF Removed, SameNonces, SameExposure
<1> QED
  BY <1>1, <1>2, <1>4, <1>5, <1>6, <1>7, <1>8, <1>9 DEF TreesInv, StateInv

(* The order leaves the counts and the locked balance first.               *)
LEMMA UnlockedIsRemoved ==
  ASSUME NEW u, u.max_nonce \in Nat, NEW s, TreesInv(u, s),
         NEW i \in NoncesOf(u), NEW o, o = s.orders[i], o # NoOrder, NEW flag,
         NEW t, t = RemoveOrder(Unlock(DecrementOrderCount(s, o.owner, o), flag, o, o.remaining), i)
  PROVE  /\ TreesInv(u, t) /\ Removed(s, t, i) /\ (StateInv(u, s) => StateInv(u, t))
         /\ Later(u, s.market, t.market) /\ Fewer(u, s.orders, t.orders)
<1> DEFINE x == DecrementOrderCount(s, o.owner, o)
           y == Unlock(x, flag, o, o.remaining)
<1>1. s.market \in MarketSet(u) /\ Typed(s) /\ o \in OrderSet(u)
  BY DEF TreesInv, TreeInv, OrderTree
<1>2. o.owner \in Accounts /\ o.remaining \in Int
  BY <1>1, OrderFacts
<1>3. Bookkept(u, s, x)
  BY <1>1, <1>2, DecrementIsKept
<1>4. Bookkept(u, x, y)
  <2> HIDE DEF x
  <2> QED
    BY <1>1, <1>2, <1>3, UnlockIsKept DEF Bookkept
<1>5. Bookkept(u, s, y)
  <2> HIDE DEF x, y
  <2> QED
    BY <1>1, <1>3, <1>4, Kept
<1> HIDE DEF y
<1> QED
  BY <1>5, OrderIsRemoved DEF y

(* A cancelled order is removed.                                           *)
LEMMA CancelledIsRemoved ==
  ASSUME NEW u, u.max_nonce \in Nat, NEW s, TreesInv(u, s),
         NEW i \in NoncesOf(u), s.orders[i] # NoOrder, NEW t, t = CancelOne(s, i)
  PROVE  /\ TreesInv(u, t) /\ Removed(s, t, i) /\ (StateInv(u, s) => StateInv(u, t))
         /\ Later(u, s.market, t.market) /\ Fewer(u, s.orders, t.orders)
BY UnlockedIsRemoved DEF CancelOne

(* So is one that is dropped without unlocking.                            *)
LEMMA DroppedIsRemoved ==
  ASSUME NEW u, u.max_nonce \in Nat, NEW s, TreesInv(u, s),
         NEW i \in NoncesOf(u), s.orders[i] # NoOrder, NEW t, t = Dropped(s, i)
  PROVE  /\ TreesInv(u, t) /\ Removed(s, t, i) /\ (StateInv(u, s) => StateInv(u, t))
         /\ Later(u, s.market, t.market) /\ Fewer(u, s.orders, t.orders)
<1>1. s.market \in MarketSet(u) /\ Typed(s) /\ s.orders[i] \in OrderSet(u)
  BY DEF TreesInv, TreeInv, OrderTree
<1>2. s.orders[i].owner \in Accounts
  BY <1>1, OrderFacts
<1> QED
  BY <1>1, <1>2, DecrementIsKept, OrderIsRemoved DEF Dropped

-----------------------------------------------------------------------------
(* Instructions are put aside.                                             *)
LEMMA PutIsNew ==
  ASSUME NEW u, NEW mkt, NEW tree, NEW r, NEW new, NewInv(u, mkt, tree, r, new),
         NEW i \in NewSlots, NEW reg \in Instructions(u), RegisterInv(u, mkt, tree, reg),
         IsInsert(reg) =>
           r.count = 0 /\ \A k \in NewSlots : IsInsert(new.slot[k]) => new.slot[k].index # reg.index,
         CanTrade(reg) => \A k \in NewSlots : k > i => new.slot[k] = EmptyRegister,
         \A k \in NewSlots : k < i => ~CanTrade(new.slot[k]),
         NEW q, q = PutToInstructionStack(new, reg, i)
  PROVE  /\ NewInv(u, mkt, tree, r, q)
         /\ q.count = new.count + 1 /\ q.count # 0 /\ q.slot[i] = reg
         /\ \A k \in NewSlots : k # i => q.slot[k] = new.slot[k]
<1>1. /\ DOMAIN q = {"slot", "count"} /\ q.slot = [new.slot EXCEPT ![i] = reg]
      /\ q.count = new.count + 1
  BY DEF PutToInstructionStack
<1>2. new.slot \in [NewSlots -> Registers(u)] /\ new.count \in Nat
  BY DEF NewInv
<1>3. reg \in Registers(u)
  BY DEF Registers
<1>4. /\ q.slot \in [NewSlots -> Registers(u)] /\ q.slot[i] = reg
      /\ \A k \in NewSlots : k # i => q.slot[k] = new.slot[k]
  BY <1>1, <1>2, <1>3
<1>5. q.count \in Nat /\ q.count # 0
  BY <1>1, <1>2
<1>6. NewSlots \subseteq Int
  BY DEF NewSlots, NEW_INSTRUCTIONS_MAX_SIZE
<1>7. /\ \A k \in NewSlots : k # i => (q.slot[k] # EmptyRegister => RegisterInv(u, mkt, tree, q.slot[k]))
      /\ \A k \in NewSlots : k # i => (IsInsert(q.slot[k]) => r.count = 0)
      /\ \A j, k \in NewSlots : (j # i /\ k # i) =>
            ((CanTrade(q.slot[j]) /\ k > j) => q.slot[k] = EmptyRegister)
      /\ \A j, k \in NewSlots : (j # i /\ k # i) =>
            ((IsInsert(q.slot[j]) /\ IsInsert(q.slot[k]) /\ q.slot[j].index = q.slot[k].index) => j = k)
  BY <1>4 DEF NewInv
<1> HIDE <1>1
<1>8. ASSUME NEW j \in NewSlots, NEW k \in NewSlots, CanTrade(q.slot[j]), k > j
      PROVE  q.slot[k] = EmptyRegister
  <2>1. CASE j = i
    BY <1>4, <1>6, <1>8, <2>1
  <2>2. CASE j # i /\ k = i
    BY <1>4, <1>6, <1>8, <2>2
  <2>3. CASE j # i /\ k # i
    BY <1>7, <1>8, <2>3
  <2> QED
    BY <2>1, <2>2, <2>3
<1>9. ASSUME NEW j \in NewSlots, NEW k \in NewSlots, IsInsert(q.slot[j]), IsInsert(q.slot[k]),
             q.slot[j].index = q.slot[k].index
      PROVE  j = k
  <2>1. CASE j = i /\ k # i
    BY <1>4, <1>9, <2>1
  <2>2. CASE j # i /\ k = i
    BY <1>4, <1>9, <2>2
  <2>3. CASE j # i /\ k # i
    BY <1>7, <1>9, <2>3
  <2> QED
    BY <2>1, <2>2, <2>3
<1>10. \A k \in NewSlots : /\ q.slot[k] # EmptyRegister => RegisterInv(u, mkt, tree, q.slot[k])
                           /\ IsInsert(q.slot[k]) => r.count = 0
  BY <1>4, <1>7
<1>11. DOMAIN q = {"slot", "count"}
  BY <1>1
<1> QED
  BY <1>1, <1>4, <1>5, <1>8, <1>9, <1>10, <1>11 DEF NewInv

(* The other instructions than pending orders.                             *)
Plain(u, reg) == /\ reg \in Instructions(u) /\ ~IsInsert(reg)
                 /\ \A mkt, tree : RegisterInv(u, mkt, tree, reg)

(* The cancels and the triggers are plain.                                 *)
LEMMA PlainInstruction ==
  ASSUME NEW u, u.max_nonce \in Nat, NEW a \in Accounts, NEW n \in Int
  PROVE  /\ \A kind \in CancelAllKinds : Plain(u, Instruction(kind, a, n, NIL))
         /\ \A i \in NoncesOf(u) :
              Plain(u, Instruction("CANCEL_SINGLE_ACCOUNT_ORDER", a, 0, i))
         /\ \A i \in NoncesOf(u) :
              n >= 0 => Plain(u, Instruction("TRIGGER_CHILD_ORDER", a, n, i))
<1>1. ASSUME NEW kind \in CancelAllKinds \cup {"CANCEL_SINGLE_ACCOUNT_ORDER", "TRIGGER_CHILD_ORDER"},
             NEW size \in Int, NEW i \in 0 .. u.max_nonce,
             kind \notin CancelAllKinds => i \in NoncesOf(u) /\ size >= 0,
             NEW reg, reg = Instruction(kind, a, size, i)
      PROVE  Plain(u, reg)
  <2>1. /\ reg.type = kind /\ reg.account = a /\ reg.size = size /\ reg.index = i
        /\ reg.order = NoOrder
    BY <1>1 DEF Instruction
  <2>2. reg \in InstructionRecords
    BY <1>1 DEF Instruction, InstructionRecords
  <2>3. reg \in Instructions(u)
    BY <2>1, <2>2 DEF Instructions
  <2>4. kind # "INSERT_ORDER"
    BY DEF CancelAllKinds
  <2>5. ~IsInsert(reg)
    BY <2>1, <2>4 DEF IsInsert
  <2>6. kind \in {"CANCEL_SINGLE_ACCOUNT_ORDER", "TRIGGER_CHILD_ORDER"} => kind \notin CancelAllKinds
    BY DEF CancelAllKinds
  <2>7. \A mkt, tree : RegisterInv(u, mkt, tree, reg)
    BY <1>1, <2>1, <2>5, <2>6 DEF RegisterInv, CanTrade
  <2> QED
    BY <2>3, <2>5, <2>7 DEF Plain
<1>2. \A i \in NoncesOf(u) : i \in 0 .. u.max_nonce
  BY DEF NoncesOf
<1>3. NIL \in 0 .. u.max_nonce
  BY DEF NIL
<1>4. "CANCEL_SINGLE_ACCOUNT_ORDER" \notin CancelAllKinds /\ "TRIGGER_CHILD_ORDER" \notin CancelAllKinds
  BY DEF CancelAllKinds
<1>5. \A kind \in CancelAllKinds : Plain(u, Instruction(kind, a, n, NIL))
  BY <1>1, <1>3
<1>6. \A i \in NoncesOf(u) : Plain(u, Instruction("CANCEL_SINGLE_ACCOUNT_ORDER", a, 0, i))
  BY <1>1, <1>2
<1>7. \A i \in NoncesOf(u) : n >= 0 => Plain(u, Instruction("TRIGGER_CHILD_ORDER", a, n, i))
  BY <1>1, <1>2
<1> QED
  BY <1>5, <1>6, <1>7

(* So is the transfer of a fee.                                            *)
LEMMA TransferIsPlain ==
  ASSUME NEW u, u.max_nonce \in Nat
  PROVE  Plain(u, Instruction("TRANSFER_ASSET", FeeAccount, 1, NIL))
<1> DEFINE reg == Instruction("TRANSFER_ASSET", FeeAccount, 1, NIL)
<1>1. reg.type = "TRANSFER_ASSET" /\ reg.index = 0 /\ reg.order = NoOrder
  BY DEF Instruction, NIL
<1>2. reg \in InstructionRecords
  BY DEF Instruction, InstructionRecords, NIL
<1> HIDE DEF reg
<1>3. reg \in Instructions(u) /\ ~IsInsert(reg)
  BY <1>1, <1>2 DEF Instructions, IsInsert
<1>4. \A mkt, tree : RegisterInv(u, mkt, tree, reg)
  BY <1>1, <1>3 DEF RegisterInv, CanTrade, CancelAllKinds
<1> QED
  BY <1>3, <1>4 DEF Plain, reg

OnlyNew(s, t) ==
  /\ t.rs = s.rs /\ t.market = s.market /\ t.acct = s.acct /\ t.pos = s.pos
  /\ t.orders = s.orders /\ t.book = s.book /\ t.locked = s.locked /\ t.ok = s.ok
  /\ DOMAIN t = DOMAIN s

NoInserts(s) == \A k \in NewSlots : ~IsInsert(s.new.slot[k])

TakerSlotsEmpty(s) == s.new.slot[4] = EmptyRegister /\ s.new.slot[5] = EmptyRegister

(* Putting a plain instruction aside keeps the state sound.                *)
LEMMA PlainPut ==
  ASSUME NEW u, NEW s, StateInv(u, s), NoInserts(s), NEW reg, NEW i \in NewSlots, NEW t,
         t = s \/ (Plain(u, reg) /\ t = Put(s, TRUE, reg, i))
  PROVE  /\ StateInv(u, t) /\ NoInserts(t) /\ OnlyNew(s, t)
         /\ (TakerSlotsEmpty(s) /\ (i \in {4, 5} => t = s)) => TakerSlotsEmpty(t)
<1>1. CASE t = s
  BY <1>1 DEF OnlyNew
<1>2. CASE t # s
  <2> DEFINE q == PutToInstructionStack(s.new, reg, i)
  <2>1. DOMAIN s = TxFields
    BY DEF StateInv, TreesInv, Typed
  <2>2. OnlyNew(s, t) /\ t.new = q
    BY <1>2, <2>1 DEF Put, OnlyNew, TxFields
  <2>3. reg \in Instructions(u) /\ ~IsInsert(reg) /\ RegisterInv(u, s.market, s.orders, reg) /\ ~CanTrade(reg)
    BY <1>2 DEF Plain, CanTrade
  <2>4. \A k \in NewSlots : ~CanTrade(s.new.slot[k])
    BY DEF NoInserts, CanTrade
  <2>5. /\ NewInv(u, s.market, s.orders, s.rs, q) /\ q.slot[i] = reg
        /\ \A k \in NewSlots : k # i => q.slot[k] = s.new.slot[k]
    BY <2>3, <2>4, PutIsNew DEF StateInv
  <2> HIDE DEF q
  <2>6. StateInv(u, t)
    BY <2>1, <2>2, <2>5 DEF StateInv, TreesInv, Typed, OnlyNew
  <2>7. NoInserts(t)
    BY <2>2, <2>3, <2>5 DEF NoInserts
  <2>8. 4 \in NewSlots /\ 5 \in NewSlots
    BY DEF NewSlots, NEW_INSTRUCTIONS_MAX_SIZE
  <2> QED
    BY <1>2, <2>2, <2>5, <2>6, <2>7, <2>8 DEF TakerSlotsEmpty
<1> QED
  BY <1>1, <1>2

(* An instruction for each child of an order is put aside, in the places   *)
(* the code gives them.                                                    *)
LEMMA ChildrenPut ==
  ASSUME NEW u, u.max_nonce \in Nat, NEW s, StateInv(u, s), NoInserts(s),
         NEW o \in OrderSet(u), NEW n \in Nat, NEW max \in 1 .. 7,
         NEW type \in {"TRIGGER_CHILD_ORDER", "CANCEL_SINGLE_ACCOUNT_ORDER"},
         type = "CANCEL_SINGLE_ACCOUNT_ORDER" => n = 0,
         NEW t, t = s \/ t = ForChildren(s, TRUE, type, o, n, max)
  PROVE  /\ StateInv(u, t) /\ NoInserts(t) /\ OnlyNew(s, t)
         /\ (TakerSlotsEmpty(s) /\ (max \in {1, 7} \/ t = s)) => TakerSlotsEmpty(t)
<1>0. CASE t = s
  BY <1>0 DEF OnlyNew
<1> SUFFICES ASSUME t = ForChildren(s, TRUE, type, o, n, max) PROVE
         /\ StateInv(u, t) /\ NoInserts(t) /\ OnlyNew(s, t)
         /\ (TakerSlotsEmpty(s) /\ max \in {1, 7}) => TakerSlotsEmpty(t)
  BY <1>0
<1> DEFINE r0 == Instruction(type, o.owner, n, o.child0)
           r1 == Instruction(type, o.owner, n, o.child1)
           x == Put(s, TRUE /\ o.child0 # NIL, r0, max)
<1>1. o.owner \in Accounts /\ o.child0 \in 0 .. u.max_nonce /\ o.child1 \in 0 .. u.max_nonce
  BY OrderFacts
<1>2. /\ o.child0 # NIL => o.child0 \in NoncesOf(u)
      /\ o.child1 # NIL => o.child1 \in NoncesOf(u)
  BY <1>1 DEF NIL, NoncesOf
<1>3. o.child0 # NIL => Plain(u, r0)
  BY <1>1, <1>2, PlainInstruction
<1>4. o.child1 # NIL => Plain(u, r1)
  BY <1>1, <1>2, PlainInstruction
<1>5. max \in NewSlots /\ max - 1 \in NewSlots
  BY DEF NewSlots, NEW_INSTRUCTIONS_MAX_SIZE
<1>6. t = Put(x, TRUE /\ o.child1 # NIL, r1, max - 1)
  BY DEF ForChildren
<1> HIDE DEF r0, r1
<1>7. x = s \/ (Plain(u, r0) /\ x = Put(s, TRUE, r0, max))
  BY <1>3 DEF Put
<1> HIDE DEF x
<1> DEFINE j == max - 1
<1>8. t = x \/ (Plain(u, r1) /\ t = Put(x, TRUE, r1, j))
  BY <1>4, <1>6 DEF Put
<1>12. j \in NewSlots /\ (j \in {4, 5} => max \notin {1, 7})
  BY <1>5
<1> HIDE DEF j
<1>9. /\ StateInv(u, x) /\ NoInserts(x) /\ OnlyNew(s, x)
      /\ (TakerSlotsEmpty(s) /\ (max \in {4, 5} => x = s)) => TakerSlotsEmpty(x)
  BY <1>5, <1>7, PlainPut
<1>10. /\ StateInv(u, t) /\ NoInserts(t) /\ OnlyNew(x, t)
       /\ (TakerSlotsEmpty(x) /\ (j \in {4, 5} => t = x)) => TakerSlotsEmpty(t)
  BY <1>8, <1>9, <1>12, PlainPut
<1>11. OnlyNew(s, t)
  BY <1>9, <1>10 DEF OnlyNew
<1>13. max \in {1, 7} => (max \notin {4, 5} /\ j \notin {4, 5})
  BY <1>12
<1> QED
  BY <1>9, <1>10, <1>11, <1>13

(* The children are to be cancelled ...                                    *)
LEMMA ChildrenCancelled ==
  ASSUME NEW u, u.max_nonce \in Nat, NEW s, StateInv(u, s), NoInserts(s),
         NEW o \in OrderSet(u), NEW max \in 1 .. 7,
         NEW t, t = s \/ t = ForChildren(s, TRUE, "CANCEL_SINGLE_ACCOUNT_ORDER", o, 0, max)
  PROVE  /\ StateInv(u, t) /\ NoInserts(t) /\ OnlyNew(s, t)
         /\ (TakerSlotsEmpty(s) /\ (max \in {1, 7} \/ t = s)) => TakerSlotsEmpty(t)
<1> DEFINE kind == "CANCEL_SINGLE_ACCOUNT_ORDER"
<1>1. 0 \in Nat /\ kind \in {"TRIGGER_CHILD_ORDER", "CANCEL_SINGLE_ACCOUNT_ORDER"}
  OBVIOUS
<1>2. t = s \/ t = ForChildren(s, TRUE, kind, o, 0, max)
  OBVIOUS
<1> HIDE DEF kind
<1> QED
  BY <1>1, <1>2, ChildrenPut

(* ... or to be triggered.                                                 *)
LEMMA ChildrenTriggered ==
  ASSUME NEW u, u.max_nonce \in Nat, NEW s, StateInv(u, s), NoInserts(s),
         NEW o \in OrderSet(u), NEW n \in Nat, NEW max \in 1 .. 7,
         NEW t, t = s \/ t = ForChildren(s, TRUE, "TRIGGER_CHILD_ORDER", o, n, max)
  PROVE  /\ StateInv(u, t) /\ NoInserts(t) /\ OnlyNew(s, t)
         /\ (TakerSlotsEmpty(s) /\ (max \in {1, 7} \/ t = s)) => TakerSlotsEmpty(t)
<1> DEFINE kind == "TRIGGER_CHILD_ORDER"
<1>1. /\ kind \in {"TRIGGER_CHILD_ORDER", "CANCEL_SINGLE_ACCOUNT_ORDER"}
      /\ kind # "CANCEL_SINGLE_ACCOUNT_ORDER"
  OBVIOUS
<1>2. t = s \/ t = ForChildren(s, TRUE, kind, o, n, max)
  OBVIOUS
<1> HIDE DEF kind
<1> QED
  BY <1>1, <1>2, ChildrenPut

(* The cancel of an account's position tied orders is put aside.           *)
LEMMA TiedPut ==
  ASSUME NEW u, u.max_nonce \in Nat, NEW s, StateInv(u, s), NoInserts(s), NEW flag,
         NEW a \in Accounts, NEW i \in {2, 3}, NEW t, t = CancelPositionTied(s, flag, a, i)
  PROVE  /\ StateInv(u, t) /\ NoInserts(t) /\ OnlyNew(s, t)
         /\ TakerSlotsEmpty(s) => TakerSlotsEmpty(t)
<1> DEFINE n == s.pos[a].total_position_tied_order_count
           reg == Instruction("CANCEL_POSITION_TIED_ACCOUNT_ORDERS", a, n, NIL)
<1>1. n \in Int
  BY DEF StateInv, TreesInv, Typed, PosTree, PosSet
<1>2. Plain(u, reg)
  BY <1>1, PlainInstruction DEF CancelAllKinds
<1>3. t = s \/ t = Put(s, TRUE, reg, i)
  BY DEF CancelPositionTied, Put
<1>4. i \in NewSlots
  BY DEF NewSlots, NEW_INSTRUCTIONS_MAX_SIZE
<1> HIDE DEF reg
<1>5. /\ StateInv(u, t) /\ NoInserts(t) /\ OnlyNew(s, t)
      /\ (TakerSlotsEmpty(s) /\ (i \in {4, 5} => t = s)) => TakerSlotsEmpty(t)
  BY <1>2, <1>3, <1>4, PlainPut
<1> QED
  BY <1>5

(* The transfers of the fees are put aside.                                *)
LEMMA TransfersPut ==
  ASSUME NEW u, u.max_nonce \in Nat, NEW s, StateInv(u, s), NoInserts(s), NEW o, NEW mk, NEW c,
         NEW t, t = PutTransfers(s, o, mk, c)
  PROVE  /\ StateInv(u, t) /\ NoInserts(t) /\ OnlyNew(s, t)
         /\ TakerSlotsEmpty(s) => TakerSlotsEmpty(t)
<1> DEFINE reg == Instruction("TRANSFER_ASSET", FeeAccount, 1, NIL)
           x == Put(s, c.taker_fee /\ o.integrator, reg, 1)
<1>1. Plain(u, reg)
  BY TransferIsPlain
<1>2. 0 \in NewSlots /\ 1 \in NewSlots
  BY DEF NewSlots, NEW_INSTRUCTIONS_MAX_SIZE
<1>3. x = s \/ x = Put(s, TRUE, reg, 1)
  BY DEF Put
<1>4. t = x \/ t = Put(x, TRUE, reg, 0)
  BY DEF PutTransfers, Put
<1> HIDE DEF reg, x
<1>5. /\ StateInv(u, x) /\ NoInserts(x) /\ OnlyNew(s, x)
      /\ (TakerSlotsEmpty(s) /\ (1 \in {4, 5} => x = s)) => TakerSlotsEmpty(x)
  BY <1>1, <1>2, <1>3, PlainPut
<1>6. /\ StateInv(u, t) /\ NoInserts(t) /\ OnlyNew(x, t)
      /\ (TakerSlotsEmpty(x) /\ (0 \in {4, 5} => t = x)) => TakerSlotsEmpty(t)
  BY <1>1, <1>2, <1>4, <1>5, PlainPut
<1> QED
  BY <1>5, <1>6 DEF OnlyNew

-----------------------------------------------------------------------------
(* The instruction on top goes.                                            *)
Popped(s)             == Pop(s, TRUE)
MakerDropped(s, m)    == DropMaker(s, m, TRUE)
TakerDropped(s, o)    == DropTaker(s, o, TRUE)
TakerPlaced(s, o, i)  == InsertTakerOrder(s, o, i, TRUE)

(* Popping the instruction on top keeps the state sound and everything     *)
(* but the stack.                                                          *)
LEMMA PopIsGood ==
  ASSUME NEW u, NEW s, StateInv(u, s), s.rs.count # 0, NEW t, t = Popped(s)
  PROVE  /\ StateInv(u, t) /\ t.rs.count = s.rs.count - 1
         /\ \A k \in Slots : k < t.rs.count => k + 1 \in Slots /\ t.rs.stack[k] = s.rs.stack[k + 1]
         /\ t.new = s.new /\ t.market = s.market /\ t.acct = s.acct /\ t.pos = s.pos
         /\ t.orders = s.orders /\ t.book = s.book /\ (t.ok => s.ok)
<1> DEFINE q == PopFront(s.rs)
<1>1. /\ StackInv(u, s.market, s.orders, q) /\ q.count = s.rs.count - 1
      /\ \A k \in Slots : k < q.count => k + 1 \in Slots /\ q.stack[k] = s.rs.stack[k + 1]
  BY PopIsStack DEF StateInv, TreesInv
<1>2. DOMAIN s = TxFields /\ s.ok \in BOOLEAN
  BY DEF StateInv, TreesInv, Typed
<1>3. /\ t.rs = q /\ t.new = s.new /\ t.market = s.market /\ t.acct = s.acct /\ t.pos = s.pos
      /\ t.orders = s.orders /\ t.book = s.book /\ t.locked = s.locked /\ DOMAIN t = TxFields
      /\ t.ok = (s.ok /\ s.rs.count # 0)
  BY <1>2 DEF Popped, Pop, Assert, TxFields
<1> HIDE DEF q
<1>4. t.ok \in BOOLEAN /\ (t.ok => s.ok)
  BY <1>2, <1>3
<1>5. NewInv(u, s.market, s.orders, q, s.new)
  BY NewStays DEF NewInv, StateInv
<1> QED
  BY <1>1, <1>2, <1>3, <1>4, <1>5 DEF StateInv, TreesInv, Typed

-----------------------------------------------------------------------------
(* The maker goes, the taker goes, or the taker is inserted.               *)
LEMMA MakerIsDropped ==
  ASSUME NEW u, u.max_nonce \in Nat, NEW s, StateInv(u, s), NoInserts(s),
         NEW m \in NoncesOf(u), s.orders[m] # NoOrder, NEW t, t = MakerDropped(s, m)
  PROVE  /\ StateInv(u, t) /\ NoInserts(t) /\ (TakerSlotsEmpty(s) => TakerSlotsEmpty(t))
         /\ t.rs = s.rs /\ SameExposure(s, t) /\ (t.ok => s.ok)
         /\ \A j \in NoncesOf(u) : j # m => t.orders[j] = s.orders[j]
<1> DEFINE mk == s.orders[m]
           filled == mk.initial - mk.remaining
           gone == RemoveOrder(Unlock(DecrementOrderCount(s, mk.owner, mk), Locks(mk), mk, mk.remaining), m)
           x == ForChildren(gone, filled = 0, "CANCEL_SINGLE_ACCOUNT_ORDER", mk, 0, 7)
<1>1. mk \in OrderSet(u) /\ TreesInv(u, s) /\ s.orders \in OrderTree(u)
  BY DEF StateInv, TreesInv, TreeInv, OrderTree
<1>2. filled \in Int /\ filled >= 0
  BY <1>1, OrderFacts
<1>3. StateInv(u, gone) /\ Removed(s, gone, m)
  BY <1>1, UnlockedIsRemoved
<1>4. t = ForChildren(x, filled # 0, "TRIGGER_CHILD_ORDER", mk, filled, 7)
  BY DEF MakerDropped, DropMaker, TriggerChildOrders, CancelChildOrders
<1> HIDE DEF mk, gone, filled
<1>5. NoInserts(gone) /\ (TakerSlotsEmpty(s) => TakerSlotsEmpty(gone))
  BY <1>3 DEF Removed, NoInserts, TakerSlotsEmpty
<1>6. x = gone \/ x = ForChildren(gone, TRUE, "CANCEL_SINGLE_ACCOUNT_ORDER", mk, 0, 7)
  BY DEF ForChildren, Put
<1> HIDE DEF x
<1>7. t = x \/ t = ForChildren(x, TRUE, "TRIGGER_CHILD_ORDER", mk, filled, 7)
  BY <1>4 DEF ForChildren, Put
<1> DEFINE seven == 7
<1>0. seven \in 1 .. 7 /\ filled \in Nat /\ seven \in {1, 7}
  BY <1>2
<1>15. x = gone \/ x = ForChildren(gone, TRUE, "CANCEL_SINGLE_ACCOUNT_ORDER", mk, 0, seven)
  BY <1>6
<1>16. t = x \/ t = ForChildren(x, TRUE, "TRIGGER_CHILD_ORDER", mk, filled, seven)
  BY <1>7
<1> HIDE DEF seven
<1>8. /\ StateInv(u, x) /\ NoInserts(x) /\ OnlyNew(gone, x)
      /\ (TakerSlotsEmpty(gone) /\ (seven \in {1, 7} \/ x = gone)) => TakerSlotsEmpty(x)
  BY <1>0, <1>1, <1>3, <1>5, <1>15, ChildrenCancelled
<1>9. /\ StateInv(u, t) /\ NoInserts(t) /\ OnlyNew(x, t)
      /\ (TakerSlotsEmpty(x) /\ (seven \in {1, 7} \/ t = x)) => TakerSlotsEmpty(t)
  BY <1>0, <1>1, <1>16, <1>8, ChildrenTriggered
<1>10. \A j \in NoncesOf(u) : j # m => gone.orders[j] = s.orders[j]
  BY <1>1, <1>3 DEF Removed, OrderTree, mk
<1>11. \A a \in Accounts : gone.pos[a].position = s.pos[a].position
  BY <1>3 DEF Removed, SameExposure
<1>12. /\ t.rs = gone.rs /\ t.pos = gone.pos /\ t.market = gone.market
       /\ t.orders = gone.orders /\ t.ok = gone.ok
  BY <1>8, <1>9 DEF OnlyNew
<1>13. SameExposure(s, t) /\ t.rs = s.rs /\ (t.ok => s.ok)
  BY <1>3, <1>11, <1>12 DEF Removed, SameExposure
<1>14. TakerSlotsEmpty(s) => TakerSlotsEmpty(t)
  BY <1>0, <1>5, <1>8, <1>9
<1> QED
  BY <1>9, <1>10, <1>12, <1>13, <1>14

(* The taker that leaves without resting only asks for the cancel of its   *)
(* children.                                                               *)
LEMMA TakerIsDropped ==
  ASSUME NEW u, u.max_nonce \in Nat, NEW s, StateInv(u, s), NoInserts(s), NEW o \in OrderSet(u),
         NEW t, t = TakerDropped(s, o)
  PROVE  StateInv(u, t) /\ NoInserts(t) /\ OnlyNew(s, t)
<1> DEFINE filled == o.initial - o.remaining
           five == 5
           x == ForChildren(s, TRUE /\ filled = 0, "CANCEL_SINGLE_ACCOUNT_ORDER", o, 0, five)
<1>1. filled \in Nat /\ five \in 1 .. 7
  BY OrderFacts
<1>2. t = ForChildren(x, TRUE /\ filled # 0, "TRIGGER_CHILD_ORDER", o, filled, five)
  BY DEF TakerDropped, DropTaker, TriggerChildOrders, CancelChildOrders
<1> HIDE DEF filled, five
<1>3. x = s \/ x = ForChildren(s, TRUE, "CANCEL_SINGLE_ACCOUNT_ORDER", o, 0, five)
  BY DEF ForChildren, Put
<1> HIDE DEF x
<1>4. t = x \/ t = ForChildren(x, TRUE, "TRIGGER_CHILD_ORDER", o, filled, five)
  BY <1>2 DEF ForChildren, Put
<1>5. /\ StateInv(u, x) /\ NoInserts(x) /\ OnlyNew(s, x)
      /\ (TakerSlotsEmpty(s) /\ (five \in {1, 7} \/ x = s)) => TakerSlotsEmpty(x)
  BY <1>1, <1>3, ChildrenCancelled
<1>6. /\ StateInv(u, t) /\ NoInserts(t) /\ OnlyNew(x, t)
      /\ (TakerSlotsEmpty(x) /\ (five \in {1, 7} \/ t = x)) => TakerSlotsEmpty(t)
  BY <1>1, <1>4, <1>5, ChildrenTriggered
<1> QED
  BY <1>5, <1>6 DEF OnlyNew

(* A taker that stays asks for nothing.                                    *)
LEMMA DropTakerNot ==
  ASSUME NEW s, NEW o
  PROVE  DropTaker(s, o, FALSE) = s
BY DEF DropTaker, TriggerChildOrders, CancelChildOrders, ForChildren, Put

(* An order is inserted; a pending one does not enter the book.            *)
LEMMA TakerIsInserted ==
  ASSUME NEW u, u.max_nonce \in Nat, NEW s, StateInv(u, s), s.new.count = 0, NoInserts(s),
         NEW i, IndexTaken(u, s.market, i), s.orders[i] = NoOrder,
         \A k \in Slots : (k < s.rs.count /\ IsInsert(s.rs.stack[k])) => s.rs.stack[k].index # i,
         NEW o \in OrderSet(u),
         o.trigger_status = "NA" =>
           /\ s.rs.count = 0 /\ NonceTaken(u, s.market, o) /\ Fresh(u, s.orders, o.nonce)
           /\ \A l \in s.book : l.is_ask # o.is_ask =>
                IF o.is_ask THEN o.price > l.price ELSE o.price < l.price,
         NEW t, t = TakerPlaced(s, o, i)
  PROVE  /\ StateInv(u, t) /\ SameExposure(s, t) /\ (t.ok => s.ok)
         /\ t.rs = s.rs /\ t.new = s.new
<1> DEFINE leaves == IF o.trigger_status = "NA" THEN SetLeaf(s.book, o, o.remaining) ELSE s.book
           tree == [s.orders EXCEPT ![i] = o]
           x == [s EXCEPT !.orders = tree, !.book = leaves]
           y == IncrementOrderCount(x, o.owner, o)
<1>1. /\ TreesInv(u, s) /\ Typed(s) /\ TreeInv(u, s.market, s.orders) /\ BookInv(u, s.orders, s.book)
      /\ StackInv(u, s.market, s.orders, s.rs) /\ NewInv(u, s.market, s.orders, s.rs, s.new)
  BY DEF StateInv, TreesInv
<1>2. /\ x.orders = tree /\ x.book = leaves /\ x.rs = s.rs /\ x.new = s.new /\ x.market = s.market
      /\ x.acct = s.acct /\ x.pos = s.pos /\ x.locked = s.locked /\ x.ok = s.ok
      /\ DOMAIN x = TxFields
  BY <1>1 DEF Typed, TxFields
<1>3. t = y \/ t = Lock(y, TRUE, o)
  BY DEF TakerPlaced, InsertTakerOrder, Lock
<1> HIDE DEF leaves, tree
<1>4. /\ TreeInv(u, s.market, tree) /\ BookInv(u, tree, leaves)
      /\ o.trigger_status # "NA" =>
           /\ \A j \in NoncesOf(u) : Active(tree, j) <=> Active(s.orders, j)
           /\ \A j \in NoncesOf(u) : j # i => tree[j] = s.orders[j]
  <2>1. CASE o.trigger_status = "NA"
    BY <1>1, <2>1, OrderInserted DEF leaves, tree
  <2>2. CASE o.trigger_status # "NA"
    <3>1. ~Active(s.orders, i)
      BY DEF Active
    <3> QED
      BY <1>1, <2>2, <3>1, PendingSet DEF leaves, tree
  <2> QED
    BY <2>1, <2>2
<1>5. StackInv(u, s.market, tree, s.rs)
  <2>1. CASE o.trigger_status = "NA"
    <3>1. \A k \in Slots : ~(k < s.rs.count)
      BY <2>1 DEF Slots, REGISTER_STACK_SIZE
    <3> QED
      BY <1>1, <3>1 DEF StackInv
  <2>2. CASE o.trigger_status # "NA"
    <3>1. ASSUME NEW k \in Slots, k < s.rs.count PROVE RegisterInv(u, s.market, tree, s.rs.stack[k])
      <4> DEFINE reg == s.rs.stack[k]
      <4>1. RegisterInv(u, s.market, s.orders, reg)
        BY <1>1, <3>1 DEF StackInv
      <4>2. IsInsert(reg) => reg.index # i /\ reg.index \in NoncesOf(u)
        BY <3>1, <4>1 DEF RegisterInv, IndexTaken
      <4>3. \A n : Fresh(u, s.orders, n) => Fresh(u, tree, n)
        BY <1>4, <2>2 DEF Fresh, Active
      <4> HIDE DEF reg
      <4>4. RegisterInv(u, s.market, tree, reg)
        BY <1>4, <2>2, <4>1, <4>2, <4>3 DEF RegisterInv
      <4> QED
        BY <4>4 DEF reg
    <3> QED
      BY <1>1, <3>1 DEF StackInv
  <2> QED
    BY <2>1, <2>2
<1>6. NewInv(u, s.market, tree, s.rs, s.new)
  BY <1>1 DEF NewInv
<1> HIDE DEF x
<1>7. StateInv(u, x) /\ SameExposure(s, x)
  BY <1>1, <1>2, <1>4, <1>5, <1>6 DEF StateInv, TreesInv, Typed, SameExposure
<1>8. Typed(x) /\ x.market \in MarketSet(u) /\ o.owner \in Accounts
  BY <1>7, OrderFacts DEF StateInv, TreesInv, TreeInv
<1>9. Bookkept(u, x, y)
  BY <1>8, IncrementIsKept
<1> HIDE DEF y
<1>10. Bookkept(u, y, t)
  <2>1. Typed(y) /\ y.market \in MarketSet(u)
    BY <1>9 DEF Bookkept
  <2>2. CASE t = y
    BY <2>1, <2>2, Kept
  <2>3. CASE t = Lock(y, TRUE, o)
    BY <2>1, <2>3, LockIsKept
  <2> QED
    BY <1>3, <2>2, <2>3
<1>11. Bookkept(u, x, t)
  BY <1>8, <1>9, <1>10, Kept
<1>12. StateInv(u, t)
  BY <1>7, <1>11, KeptIsGood DEF StateInv
<1> QED
  BY <1>2, <1>7, <1>11, <1>12 DEF Bookkept, SameExposure

-----------------------------------------------------------------------------
(* Taker and maker are filled.                                             *)
LEMMA TopIsInstruction ==
  ASSUME NEW u, NEW s, StateInv(u, s), NEW reg, reg = Top(s), reg # EmptyRegister
  PROVE  /\ reg \in Instructions(u) /\ reg \in InstructionRecords
         /\ RegisterInv(u, s.market, s.orders, reg)
         /\ s.rs.count # 0 /\ s.rs.count \in 0 .. 8
         /\ CanTrade(reg) => s.rs.count = 1
<1>1. StackInv(u, s.market, s.orders, s.rs)
  BY DEF StateInv, TreesInv
<1>2. 0 \in Slots /\ reg = s.rs.stack[0]
  BY DEF Top, Slots, REGISTER_STACK_SIZE
<1>3. reg \in Registers(u) /\ s.rs.count \in 0 .. 8 /\ 0 < s.rs.count
  BY <1>1, <1>2 DEF StackInv
<1>4. reg \in Instructions(u) /\ RegisterInv(u, s.market, s.orders, reg)
  BY <1>1, <1>2, <1>3 DEF StackInv, Registers
<1>5. CanTrade(reg) => 0 = s.rs.count - 1
  BY <1>1, <1>2 DEF StackInv
<1> QED
  BY <1>3, <1>4, <1>5 DEF Instructions

FilledBoth(s, m, mk, amount) ==
  [Unlock(s, Locks(mk), mk, amount)
     EXCEPT !.rs.stack[0].order.remaining = @ - amount,
            !.orders[m].remaining = @ - amount,
            !.book = SetLeaf(@, mk, mk.remaining - amount)]

LessOrder(o, amount)      == [o EXCEPT !.remaining = o.remaining - amount]
LessRegister(reg, amount) == [reg EXCEPT !.order = LessOrder(reg.order, amount)]

(* Both sides lose the amount: the maker in the trees, the taker in its    *)
(* instruction.                                                            *)
LEMMA FillIsGood ==
  ASSUME NEW u, u.max_nonce \in Nat, NEW s, StateInv(u, s), NoInserts(s),
         NEW reg, reg = Top(s), CanTrade(reg), NEW o, o = reg.order,
         NEW m \in NoncesOf(u), Active(s.orders, m), NEW mk, mk = s.orders[m], mk.remaining # 0,
         NEW amount \in Nat, amount <= o.remaining, amount <= mk.remaining,
         NEW t, t = FilledBoth(s, m, mk, amount)
  PROVE  /\ StateInv(u, t) /\ t.new = s.new /\ t.rs.count = s.rs.count
         /\ Top(t) = LessRegister(reg, amount) /\ t.orders[m] = LessOrder(mk, amount)
         /\ Active(t.orders, m)
         /\ \A j \in NoncesOf(u) : j # m => t.orders[j] = s.orders[j]
         /\ SameExposure(s, t) /\ (t.ok => s.ok)
<1> DEFINE x == Unlock(s, Locks(mk), mk, amount)
           left == o.remaining - amount
           mleft == mk.remaining - amount
           o2 == [o EXCEPT !.remaining = left]
           reg2 == [reg EXCEPT !.order = o2]
           tree == [s.orders EXCEPT ![m] = [mk EXCEPT !.remaining = mleft]]
           leaves == SetLeaf(s.book, mk, mleft)
           q == [s.rs EXCEPT !.stack = [s.rs.stack EXCEPT ![0] = reg2]]
<1>1. /\ TreesInv(u, s) /\ Typed(s) /\ TreeInv(u, s.market, s.orders) /\ BookInv(u, s.orders, s.book)
      /\ StackInv(u, s.market, s.orders, s.rs) /\ NewInv(u, s.market, s.orders, s.rs, s.new)
      /\ s.market \in MarketSet(u)
  BY DEF StateInv, TreesInv, TreeInv
<1>2. mk \in OrderSet(u) /\ mk.trigger_status = "NA"
  BY <1>1 DEF TreeInv, OrderTree, Active
<1>3. reg # EmptyRegister /\ IsInsert(reg) /\ o.trigger_status = "NA"
  BY DEF CanTrade, IsInsert
<1>4. /\ reg \in Instructions(u) /\ reg \in InstructionRecords /\ s.rs.count # 0
      /\ RegisterInv(u, s.market, s.orders, reg)
  BY <1>3, TopIsInstruction
<1>5. /\ o \in OrderSet(u) /\ reg.account = o.owner /\ IndexTaken(u, s.market, reg.index)
      /\ s.orders[reg.index] = NoOrder
      /\ NonceTaken(u, s.market, o) /\ Fresh(u, s.orders, o.nonce)
  BY <1>3, <1>4 DEF RegisterInv
<1>6. left \in Nat /\ left <= o.remaining /\ mleft \in Nat /\ mleft <= mk.remaining
  BY <1>2, <1>5, OrderFacts
<1>7. Bookkept(u, s, x)
  BY <1>1, <1>2, UnlockIsKept
<1>8. /\ x.rs = s.rs /\ x.new = s.new /\ x.orders = s.orders /\ x.book = s.book
      /\ DOMAIN x = TxFields /\ x.ok \in BOOLEAN /\ (x.ok => s.ok)
  BY <1>7 DEF Bookkept, Typed
<1> HIDE DEF x
<1>9. /\ t.rs = q /\ t.orders = tree /\ t.book = leaves /\ t.new = s.new /\ t.market = x.market
      /\ t.acct = x.acct /\ t.pos = x.pos /\ t.locked = x.locked /\ t.ok = x.ok
      /\ DOMAIN t = TxFields
  <2>1. t = [x EXCEPT !.rs.stack[0].order.remaining = @ - amount,
                      !.orders[m].remaining = @ - amount,
                      !.book = SetLeaf(@, mk, mleft)]
    BY DEF x, FilledBoth
  <2>2. reg = s.rs.stack[0]
    BY DEF Top
  <2>3. /\ t.book = SetLeaf(x.book, mk, mleft) /\ t.new = x.new /\ t.market = x.market
        /\ t.acct = x.acct /\ t.pos = x.pos /\ t.locked = x.locked /\ t.ok = x.ok
        /\ DOMAIN t = TxFields
    BY <1>8, <2>1 DEF TxFields
  <2>4. t.rs = [x.rs EXCEPT !.stack = [x.rs.stack EXCEPT ![0] = [x.rs.stack[0] EXCEPT
                  !.order = [x.rs.stack[0].order EXCEPT !.remaining = x.rs.stack[0].order.remaining - amount]]]]
    BY <1>8, <2>1 DEF TxFields
  <2>5. t.orders = [x.orders EXCEPT ![m] = [x.orders[m] EXCEPT !.remaining = x.orders[m].remaining - amount]]
    BY <1>8, <2>1 DEF TxFields
  <2>6. t.rs = q
    BY <1>8, <2>2, <2>4
  <2>7. t.orders = tree
    BY <1>8, <2>5
  <2> QED
    BY <1>8, <2>3, <2>6, <2>7
<1>10. /\ TreeInv(u, s.market, tree) /\ BookInv(u, tree, leaves) /\ Fewer(u, s.orders, tree)
       /\ Active(tree, m)
  BY <1>1, <1>2, <1>6, OrderFilled
<1>11. /\ o2 \in OrderSet(u) /\ o2.owner = o.owner /\ o2.is_ask = o.is_ask
       /\ o2.nonce = o.nonce /\ o2.trigger_status = o.trigger_status
  <2> HIDE DEF left
  <2> QED
    BY <1>5, <1>6, Remaining
<1>12. /\ tree[m] = [mk EXCEPT !.remaining = mleft]
       /\ \A j \in NoncesOf(u) : j # m => tree[j] = s.orders[j]
  BY <1>1 DEF TreeInv, OrderTree
<1> HIDE DEF o2, tree, leaves
<1>13. /\ reg2 \in Instructions(u) /\ reg2.type = reg.type /\ reg2.account = reg.account
       /\ reg2.index = reg.index /\ reg2.order = o2
  <2>1. o2 \in OrderRecords
    BY <1>11 DEF OrderSet
  <2>2. reg2 \in InstructionRecords
    BY <1>4, <2>1 DEF InstructionRecords
  <2>3. /\ reg2.type = reg.type /\ reg2.account = reg.account
        /\ reg2.index = reg.index /\ reg2.order = o2
    BY <1>4 DEF InstructionRecords
  <2>4. reg.index \in 0 .. u.max_nonce
    BY <1>4 DEF Instructions
  <2> QED
    BY <1>11, <2>2, <2>3, <2>4 DEF Instructions
<1> HIDE DEF reg2
<1>14. reg2 # EmptyRegister
  BY <1>13, EmptyAssumption DEF Instructions
<1>15. IsInsert(reg2) /\ CanTrade(reg2)
  BY <1>3, <1>11, <1>13, <1>14 DEF IsInsert, CanTrade
<1>16. RegisterInv(u, s.market, s.orders, reg2)
  <2>1. NonceTaken(u, s.market, o2) /\ Fresh(u, s.orders, o2.nonce)
    BY <1>5, <1>11 DEF NonceTaken
  <2>2. reg2.type = "INSERT_ORDER"
    BY <1>15 DEF IsInsert
  <2> QED
    BY <1>5, <1>11, <1>13, <2>1, <2>2 DEF RegisterInv, CancelAllKinds
<1>17. /\ StackInv(u, s.market, s.orders, q) /\ q.count = s.rs.count /\ q.stack[0] = reg2
  <2>1. reg = s.rs.stack[0]
    BY DEF Top
  <2> QED
    BY <1>1, <1>3, <1>4, <1>13, <1>16, <2>1, TopRewritten
<1> HIDE DEF q
<1>18. /\ Later(u, s.market, t.market) /\ Later(u, s.market, s.market)
  <2>1. t.market \in MarketSet(u) /\ t.market.ask_nonce = s.market.ask_nonce
        /\ t.market.bid_nonce = s.market.bid_nonce
    BY <1>7, <1>9 DEF Bookkept
  <2> QED
    BY <1>1, <2>1 DEF Later, MarketSet, NoncesOf
<1>19. StackInv(u, t.market, tree, q) /\ NewInv(u, t.market, tree, q, s.new)
  BY <1>1, <1>10, <1>17, <1>18, StackStays, NewStays
<1>20. TreeInv(u, t.market, tree)
  <2>1. t.market \in MarketSet(u) /\ t.market.ask_nonce = s.market.ask_nonce
        /\ t.market.bid_nonce = s.market.bid_nonce
    BY <1>7, <1>9 DEF Bookkept
  <2> QED
    BY <1>10, <2>1 DEF TreeInv, IndexTaken, NonceTaken
<1>21. Typed(t)
  BY <1>7, <1>9 DEF Bookkept, Typed
<1>22. StateInv(u, t)
  BY <1>9, <1>10, <1>19, <1>20, <1>21 DEF StateInv, TreesInv
<1>23. Top(t) = reg2
  BY <1>9, <1>17 DEF Top
<1>24. SameExposure(s, t) /\ (t.ok => s.ok)
  BY <1>7, <1>8, <1>9 DEF SameExposure, Bookkept
<1>25. Top(t) = LessRegister(reg, amount)
  BY <1>23 DEF reg2, o2, LessRegister, LessOrder
<1>26. t.orders[m] = LessOrder(mk, amount)
  BY <1>9, <1>12 DEF LessOrder
<1> QED
  BY <1>9, <1>10, <1>12, <1>17, <1>22, <1>24, <1>25, <1>26

-----------------------------------------------------------------------------
(* A trade changes two positions, the open interest and the slippage       *)
(* accumulator.                                                            *)
PositionStep(s, t, o, amount) == t = SetPosition(s, o, amount)

(* The position of one side moves by the amount, and nothing else does.    *)
LEMMA PositionIsSet ==
  ASSUME NEW u, NEW s, Typed(s), NEW o \in OrderSet(u), NEW amount \in Nat,
         NEW t, PositionStep(s, t, o, amount)
  PROVE  /\ Typed(t) /\ t.rs = s.rs /\ t.new = s.new /\ t.market = s.market /\ t.acct = s.acct
         /\ t.orders = s.orders /\ t.book = s.book /\ t.locked = s.locked /\ t.ok = s.ok
         /\ \A a \in Accounts : t.pos[a].position =
              s.pos[a].position + (IF ~Spot /\ a = o.owner THEN Delta(o, amount) ELSE 0)
<1> DEFINE p == InitIfEmpty(s.pos[o.owner], o.owner)
           n == s.pos[o.owner].position + Delta(o, amount)
           q == [p EXCEPT !.position = n]
<1>1. s.pos \in PosTree /\ o.owner \in Accounts /\ o.is_ask \in BOOLEAN /\ s.pos[o.owner] \in PosSet
  BY OrderFacts DEF Typed, PosTree
<1>2. p \in PosSet /\ p.position = s.pos[o.owner].position
  BY <1>1, InitIsPosition
<1>3. Delta(o, amount) \in Int
  BY <1>1 DEF Delta
<1>4. \A a \in Accounts : s.pos[a].position \in Int
  BY <1>1 DEF PosTree, PosSet
<1>5. t = IF Spot THEN s ELSE [s EXCEPT !.pos = [s.pos EXCEPT ![o.owner] = [p EXCEPT !.position = p.position + Delta(o, amount)]]]
  BY DEF PositionStep, SetPosition
<1> HIDE DEF p
<1>6. n \in Int
  BY <1>1, <1>3, <1>4
<1>7. t = IF Spot THEN s ELSE [s EXCEPT !.pos = [s.pos EXCEPT ![o.owner] = q]]
  BY <1>2, <1>5
<1> HIDE DEF n
<1>8. q \in PosSet /\ q.position = n
  BY <1>2, <1>6 DEF PosSet
<1> HIDE DEF q
<1>9. CASE Spot
  BY <1>4, <1>7, <1>9
<1>10. CASE ~Spot
  <2>1. /\ t.rs = s.rs /\ t.new = s.new /\ t.market = s.market /\ t.acct = s.acct
        /\ t.orders = s.orders /\ t.book = s.book /\ t.locked = s.locked /\ t.ok = s.ok
        /\ DOMAIN t = TxFields /\ t.pos = [s.pos EXCEPT ![o.owner] = q]
    BY <1>7, <1>10 DEF Typed, TxFields
  <2>2. t.pos \in PosTree
    BY <1>1, <1>8, <2>1 DEF PosTree
  <2>3. \A a \in Accounts : t.pos[a].position =
              s.pos[a].position + (IF a = o.owner THEN Delta(o, amount) ELSE 0)
    BY <1>1, <1>4, <1>8, <2>1 DEF PosTree, n
  <2> QED
    BY <1>10, <2>1, <2>2, <2>3 DEF Typed
<1> QED
  BY <1>9, <1>10

Moved(s, t, o, mk, amount) ==
  \A a \in Accounts : t.pos[a].position =
    s.pos[a].position + (IF ~Spot /\ a = o.owner THEN Delta(o, amount) ELSE 0)
                      + (IF ~Spot /\ a = mk.owner THEN Delta(mk, amount) ELSE 0)

(* Both positions move, also if taker and maker are the same account.      *)
LEMMA PositionsAreSet ==
  ASSUME NEW u, NEW s, Typed(s), NEW o \in OrderSet(u), NEW mk \in OrderSet(u), NEW amount \in Nat,
         NEW x, PositionStep(s, x, o, amount), NEW t, PositionStep(x, t, mk, amount)
  PROVE  /\ Typed(t) /\ t.rs = s.rs /\ t.new = s.new /\ t.market = s.market /\ t.acct = s.acct
         /\ t.orders = s.orders /\ t.book = s.book /\ t.locked = s.locked /\ t.ok = s.ok
         /\ Moved(s, t, o, mk, amount)
<1>2. /\ Typed(x) /\ x.rs = s.rs /\ x.new = s.new /\ x.market = s.market /\ x.acct = s.acct
      /\ x.orders = s.orders /\ x.book = s.book /\ x.locked = s.locked /\ x.ok = s.ok
      /\ \A a \in Accounts : x.pos[a].position =
           s.pos[a].position + (IF ~Spot /\ a = o.owner THEN Delta(o, amount) ELSE 0)
  BY PositionIsSet
<1>3. /\ Typed(t) /\ t.rs = x.rs /\ t.new = x.new /\ t.market = x.market /\ t.acct = x.acct
      /\ t.orders = x.orders /\ t.book = x.book /\ t.locked = x.locked /\ t.ok = x.ok
      /\ \A a \in Accounts : t.pos[a].position =
           x.pos[a].position + (IF ~Spot /\ a = mk.owner THEN Delta(mk, amount) ELSE 0)
  <2>1. Typed(x)
    BY <1>2
  <2> QED
    BY <2>1, PositionIsSet
<1> QED
  BY <1>2, <1>3 DEF Moved

(* What the accumulator still covers.                                      *)
LEMMA SlippageIsPaid ==
  ASSUME NEW b, NEW diff \in Int, NEW amount \in Nat, NEW acc \in Nat,
         (b /\ diff > 0) => diff * amount <= acc
  PROVE  acc - B2N(b) * diff * amount \in Nat
<1> DEFINE p == diff * amount
<1>1. p \in Int
  OBVIOUS
<1>2. CASE ~b
  <2>1. B2N(b) * diff * amount = 0
    BY <1>2 DEF B2N
  <2> QED
    BY <2>1
<1>3. CASE b
  <2>1. B2N(b) * diff * amount = p
    BY <1>3 DEF B2N
  <2>2. diff <= 0 => p <= 0
    OBVIOUS
  <2>3. p <= acc
    BY <1>1, <1>3, <2>2
  <2> HIDE DEF p
  <2> QED
    BY <1>1, <2>1, <2>3
<1> QED
  BY <1>2, <1>3

(* The new open interest is an integer.                                    *)
LEMMA OpenInterestType ==
  ASSUME NEW u, NEW s, s.pos \in PosTree, s.market \in MarketSet(u),
         NEW o \in OrderSet(u), NEW mk \in OrderSet(u), NEW amount \in Nat
  PROVE  NewOpenInterest(s, o, mk, amount) \in Int
<1>1. o.owner \in Accounts /\ mk.owner \in Accounts /\ o.is_ask \in BOOLEAN /\ mk.is_ask \in BOOLEAN
  BY OrderFacts
<1>2. \A a \in Accounts : s.pos[a].position \in Int
  BY DEF PosTree, PosSet
<1>3. s.market.open_interest \in Int
  BY DEF MarketSet
<1>4. ASSUME NEW x \in OrderSet(u) PROVE NewPosition(s, x, amount) \in Int
  <2>1. x.owner \in Accounts /\ x.is_ask \in BOOLEAN
    BY OrderFacts
  <2>2. Delta(x, amount) \in Int /\ B2N(~Spot) \in {0, 1}
    BY <2>1 DEF Delta, B2N
  <2>3. s.pos[x.owner].position \in Int
    BY <1>2, <2>1
  <2>4. NewPosition(s, x, amount) = s.pos[x.owner].position + B2N(~Spot) * Delta(x, amount)
    BY DEF NewPosition
  <2> QED
    BY <2>2, <2>3, <2>4
<1> QED
  BY <1>1, <1>2, <1>3, <1>4 DEF NewOpenInterest, Abs

SettledTrade(s, o, mk, amount) ==
  [SetPosition(SetPosition(s, o, amount), mk, amount)
     EXCEPT !.market.open_interest = NewOpenInterest(s, o, mk, amount),
            !.rs.stack[0].acc = @ - B2N(MarketFlag(o)) * PriceDiff(o, mk) * amount]

SlippageFits(o, mk, amount, acc) ==
  (MarketFlag(o) /\ PriceDiff(o, mk) > 0) => PriceDiff(o, mk) * amount <= acc

(* A settled trade leaves a sound state whose accumulator is not           *)
(* negative.                                                               *)
LEMMA TradeIsGood ==
  ASSUME NEW u, u.max_nonce \in Nat, NEW s, StateInv(u, s),
         NEW reg, reg = Top(s), CanTrade(reg), NEW o, o = reg.order,
         NEW mk \in OrderSet(u), NEW amount \in Nat,
         SlippageFits(o, mk, amount, reg.acc),
         NEW t, t = SettledTrade(s, o, mk, amount)
  PROVE  /\ StateInv(u, t) /\ t.new = s.new /\ t.orders = s.orders /\ t.rs.count = s.rs.count
         /\ t.ok = s.ok /\ t.acct = s.acct /\ t.book = s.book
         /\ CanTrade(Top(t)) /\ Top(t).order = o
         /\ t.market.open_interest = NewOpenInterest(s, o, mk, amount)
         /\ Moved(s, t, o, mk, amount)
<1> DEFINE x == SetPosition(s, o, amount)
           y == SetPosition(x, mk, amount)
           oi == NewOpenInterest(s, o, mk, amount)
           paid == B2N(MarketFlag(o)) * PriceDiff(o, mk) * amount
           acc2 == reg.acc - paid
           reg2 == [reg EXCEPT !.acc = acc2]
           q == [s.rs EXCEPT !.stack = [s.rs.stack EXCEPT ![0] = reg2]]
           mkt == [s.market EXCEPT !.open_interest = oi]
<1>1. /\ TreesInv(u, s) /\ Typed(s) /\ TreeInv(u, s.market, s.orders) /\ BookInv(u, s.orders, s.book)
      /\ StackInv(u, s.market, s.orders, s.rs) /\ NewInv(u, s.market, s.orders, s.rs, s.new)
      /\ s.market \in MarketSet(u) /\ s.pos \in PosTree
  BY DEF StateInv, TreesInv, TreeInv, Typed
<1>2. reg # EmptyRegister /\ IsInsert(reg) /\ o.trigger_status = "NA" /\ reg.type = "INSERT_ORDER"
  BY DEF CanTrade, IsInsert
<1>3. /\ reg \in Instructions(u) /\ reg \in InstructionRecords /\ s.rs.count # 0
      /\ RegisterInv(u, s.market, s.orders, reg)
  BY <1>2, TopIsInstruction
<1>4. o \in OrderSet(u)
  BY <1>2, <1>3 DEF RegisterInv
<1>6. /\ Typed(y) /\ y.rs = s.rs /\ y.new = s.new /\ y.market = s.market /\ y.acct = s.acct
      /\ y.orders = s.orders /\ y.book = s.book /\ y.locked = s.locked /\ y.ok = s.ok
      /\ Moved(s, y, o, mk, amount)
  <2>0. Typed(s) /\ o \in OrderSet(u)
    BY <1>1, <1>4
  <2>1. PositionStep(s, x, o, amount) /\ PositionStep(x, y, mk, amount)
    BY DEF PositionStep
  <2> HIDE DEF x, y
  <2> QED
    BY <2>0, <2>1, PositionsAreSet
<1> HIDE DEF y
<1>7. /\ t.rs = q /\ t.market = mkt /\ t.orders = s.orders /\ t.book = s.book /\ t.new = s.new
      /\ t.acct = s.acct /\ t.pos = y.pos /\ t.locked = s.locked /\ t.ok = s.ok
      /\ DOMAIN t = TxFields
  <2>1. t = [y EXCEPT !.market.open_interest = oi, !.rs.stack[0].acc = @ - paid]
    BY DEF x, y, SettledTrade
  <2> HIDE DEF oi, paid
  <2>2. reg = s.rs.stack[0]
    BY DEF Top
  <2>3. /\ t.new = y.new /\ t.acct = y.acct /\ t.pos = y.pos /\ t.locked = y.locked
        /\ t.orders = y.orders /\ t.book = y.book /\ t.ok = y.ok /\ DOMAIN t = TxFields
    BY <1>6, <2>1 DEF TxFields, Typed
  <2>4. t.rs = [y.rs EXCEPT !.stack = [y.rs.stack EXCEPT ![0] = [y.rs.stack[0] EXCEPT
                  !.acc = y.rs.stack[0].acc - paid]]]
    BY <1>6, <2>1 DEF TxFields, Typed
  <2>5. t.market = [y.market EXCEPT !.open_interest = oi]
    BY <1>6, <2>1 DEF TxFields, Typed
  <2>6. t.rs = q
    <3>1. y.rs = s.rs
      BY <1>6
    <3>2. t.rs = [s.rs EXCEPT !.stack = [s.rs.stack EXCEPT ![0] = [s.rs.stack[0] EXCEPT
                    !.acc = s.rs.stack[0].acc - paid]]]
      BY <2>4, <3>1
    <3> QED
      BY <2>2, <3>2
  <2>7. t.market = mkt
    BY <1>6, <2>5
  <2> QED
    BY <1>6, <2>3, <2>6, <2>7
<1>8. acc2 \in Nat
  <2>1. PriceDiff(o, mk) \in Int
    <3>1. o.price \in Nat /\ mk.price \in Nat /\ o.is_ask \in BOOLEAN
      BY <1>4, OrderFacts
    <3> QED
      BY <3>1 DEF PriceDiff
  <2>2. reg.acc \in Nat
    BY <1>3 DEF InstructionRecords
  <2>3. ASSUME NEW b, (b /\ PriceDiff(o, mk) > 0) => PriceDiff(o, mk) * amount <= reg.acc
        PROVE  reg.acc - B2N(b) * PriceDiff(o, mk) * amount \in Nat
    BY <2>1, <2>2, <2>3, SlippageIsPaid
  <2>4. CASE MarketFlag(o)
    <3>1. (TRUE /\ PriceDiff(o, mk) > 0) => PriceDiff(o, mk) * amount <= reg.acc
      BY <2>4 DEF SlippageFits
    <3>2. reg.acc - B2N(TRUE) * PriceDiff(o, mk) * amount \in Nat
      BY <2>3, <3>1
    <3>3. B2N(MarketFlag(o)) = B2N(TRUE)
      BY <2>4 DEF B2N
    <3> QED
      BY <3>2, <3>3
  <2>5. CASE ~MarketFlag(o)
    <3>1. B2N(MarketFlag(o)) = 0
      BY <2>5 DEF B2N
    <3> QED
      BY <2>1, <2>2, <3>1
  <2> QED
    BY <2>4, <2>5
<1> HIDE DEF acc2
<1>9. oi \in Int
  BY <1>1, <1>4, OpenInterestType
<1> HIDE DEF oi
<1>10. /\ reg2 \in Instructions(u) /\ reg2.type = reg.type /\ reg2.account = reg.account
       /\ reg2.index = reg.index /\ reg2.order = reg.order
  <2>1. reg2 \in InstructionRecords
    BY <1>3, <1>8 DEF InstructionRecords
  <2>2. /\ reg2.type = reg.type /\ reg2.account = reg.account
        /\ reg2.index = reg.index /\ reg2.order = reg.order
    BY <1>3 DEF InstructionRecords
  <2> QED
    BY <1>3, <2>1, <2>2 DEF Instructions
<1> HIDE DEF reg2
<1>11. reg2 # EmptyRegister
  BY <1>10, EmptyAssumption DEF Instructions
<1>12. IsInsert(reg2) /\ CanTrade(reg2)
  BY <1>2, <1>10, <1>11 DEF IsInsert, CanTrade
<1>13. RegisterInv(u, s.market, s.orders, reg2)
  BY <1>2, <1>3, <1>10, <1>12 DEF RegisterInv, CancelAllKinds
<1>14. /\ StackInv(u, s.market, s.orders, q) /\ q.count = s.rs.count /\ q.stack[0] = reg2
  <2>1. reg = s.rs.stack[0]
    BY DEF Top
  <2> QED
    BY <1>1, <1>2, <1>3, <1>10, <1>13, <2>1, TopRewritten
<1> HIDE DEF q
<1>15. /\ mkt \in MarketSet(u) /\ mkt.ask_nonce = s.market.ask_nonce
       /\ mkt.bid_nonce = s.market.bid_nonce /\ mkt.open_interest = oi
  BY <1>1, <1>9 DEF MarketSet
<1> HIDE DEF mkt
<1>16. Later(u, s.market, mkt)
  BY <1>1, <1>15 DEF Later, MarketSet, NoncesOf
<1>17. Fewer(u, s.orders, s.orders)
  BY DEF Fewer
<1>18. StackInv(u, mkt, s.orders, q) /\ NewInv(u, mkt, s.orders, q, s.new)
  BY <1>1, <1>14, <1>16, <1>17, StackStays, NewStays
<1>19. TreeInv(u, mkt, s.orders)
  BY <1>1, <1>15 DEF TreeInv, IndexTaken, NonceTaken
<1>20. StateInv(u, t)
  BY <1>1, <1>6, <1>7, <1>18, <1>19 DEF StateInv, TreesInv, Typed
<1>21. Top(t) = reg2
  BY <1>7, <1>14 DEF Top
<1>22. Moved(s, t, o, mk, amount)
  BY <1>6, <1>7 DEF Moved
<1>23. t.market.open_interest = NewOpenInterest(s, o, mk, amount)
  BY <1>7, <1>15 DEF oi
<1> QED
  BY <1>7, <1>10, <1>12, <1>14, <1>20, <1>21, <1>22, <1>23

-----------------------------------------------------------------------------
(* What matching leaves behind: instructions that fit on the stack.        *)
Room(s) == s.rs.count = 0 \/ s.new.count = 0 \/ (s.rs.count = 1 /\ TakerSlotsEmpty(s))

Aftermath(u, s, t, m) ==
  /\ StateInv(u, t) /\ NoInserts(t)
  /\ t.rs.count = 0 \/ (t.rs.count = 1 /\ TakerSlotsEmpty(t))
  /\ SameExposure(s, t) /\ (t.ok => s.ok)
  /\ \A j \in NoncesOf(u) : j # m => t.orders[j] = s.orders[j]

(* The steps of execute_matching after the trade.                          *)
Leaves(s, t, o, m) ==
  \E p, s1 : /\ s1 = p \/ s1 = MakerDropped(p, m)
             /\ \/ p = s /\ t = s1
                \/ p = Popped(s) /\ t = TakerDropped(s1, o)

Notices(v, w, s, t, o, mk, c) ==
  LET y == CancelPositionTied(s, SignChanged(v, w, o.owner), o.owner, 3)
      z == CancelPositionTied(y, SignChanged(v, w, mk.owner), mk.owner, 2)
  IN  t = PutTransfers(z, o, mk, c)

(* After a fill, the orders that are used up leave and their children are  *)
(* dealt with.                                                             *)
LEMMA OrdersLeave ==
  ASSUME NEW u, u.max_nonce \in Nat, NEW s, StateInv(u, s), NoInserts(s), TakerSlotsEmpty(s),
         s.rs.count = 1, NEW o \in OrderSet(u), NEW m \in NoncesOf(u), s.orders[m] # NoOrder,
         NEW t, Leaves(s, t, o, m)
  PROVE  Aftermath(u, s, t, m)
<1>0. PICK p, s1 : /\ s1 = p \/ s1 = MakerDropped(p, m)
                   /\ \/ p = s /\ t = s1
                      \/ p = Popped(s) /\ t = TakerDropped(s1, o)
  BY DEF Leaves
<1>1. /\ StateInv(u, p) /\ NoInserts(p) /\ SameExposure(s, p) /\ (p.ok => s.ok) /\ p.orders = s.orders
      /\ TakerSlotsEmpty(p)
      /\ p = s \/ p.rs.count = 0
  <2>1. CASE p = s
    BY <2>1 DEF SameExposure
  <2>2. CASE p = Popped(s)
    <3>1. s.rs.count # 0
      OBVIOUS
    <3>2. /\ StateInv(u, p) /\ p.rs.count = s.rs.count - 1 /\ p.new = s.new
          /\ p.market = s.market /\ p.pos = s.pos /\ p.orders = s.orders /\ (p.ok => s.ok)
      BY <2>2, <3>1, PopIsGood
    <3> QED
      BY <3>2 DEF NoInserts, SameExposure, TakerSlotsEmpty
  <2> QED
    BY <1>0, <2>1, <2>2
<1>2. /\ StateInv(u, s1) /\ NoInserts(s1) /\ TakerSlotsEmpty(s1) /\ s1.rs = p.rs
      /\ SameExposure(p, s1) /\ (s1.ok => p.ok)
      /\ \A j \in NoncesOf(u) : j # m => s1.orders[j] = p.orders[j]
  <2>1. CASE s1 = p
    BY <1>1, <2>1 DEF SameExposure
  <2>2. CASE s1 = MakerDropped(p, m)
    <3>1. p.orders[m] # NoOrder
      BY <1>1
    <3>2. /\ StateInv(u, s1) /\ NoInserts(s1) /\ (TakerSlotsEmpty(p) => TakerSlotsEmpty(s1))
          /\ s1.rs = p.rs /\ SameExposure(p, s1) /\ (s1.ok => p.ok)
          /\ \A j \in NoncesOf(u) : j # m => s1.orders[j] = p.orders[j]
      BY <1>1, <2>2, <3>1, MakerIsDropped
    <3> QED
      BY <1>1, <3>2
  <2> QED
    BY <1>0, <2>1, <2>2
<1>3. SameExposure(s, s1) /\ (s1.ok => s.ok)
      /\ \A j \in NoncesOf(u) : j # m => s1.orders[j] = s.orders[j]
  BY <1>1, <1>2 DEF SameExposure
<1>4. CASE p = s /\ t = s1
  BY <1>2, <1>3, <1>4 DEF Aftermath
<1>5. CASE p = Popped(s) /\ t = TakerDropped(s1, o)
  <2>1. StateInv(u, t) /\ NoInserts(t) /\ OnlyNew(s1, t)
    BY <1>2, <1>5, TakerIsDropped
  <2>2. p.rs.count = 0
    <3>0. p = Popped(s)
      BY <1>5
    <3>1. s.rs.count # 0
      OBVIOUS
    <3>2. /\ StateInv(u, p) /\ p.rs.count = s.rs.count - 1 /\ p.new = s.new
          /\ p.market = s.market /\ p.pos = s.pos /\ p.orders = s.orders /\ (p.ok => s.ok)
      BY <3>0, <3>1, PopIsGood
    <3> QED
      BY <3>2
  <2> QED
    BY <1>2, <1>3, <2>1, <2>2 DEF Aftermath, OnlyNew, SameExposure
<1> QED
  BY <1>0, <1>4, <1>5

(* Then position tied orders are cancelled and fees are transferred.       *)
LEMMA PositionsNoticed ==
  ASSUME NEW u, u.max_nonce \in Nat, NEW s, NEW m, NEW x, Aftermath(u, s, x, m),
         NEW v, NEW w, NEW o, NEW mk, NEW c, o.owner \in Accounts, mk.owner \in Accounts,
         NEW t, Notices(v, w, x, t, o, mk, c)
  PROVE  Aftermath(u, s, t, m)
<1> DEFINE y == CancelPositionTied(x, SignChanged(v, w, o.owner), o.owner, 3)
           z == CancelPositionTied(y, SignChanged(v, w, mk.owner), mk.owner, 2)
<1>0. t = PutTransfers(z, o, mk, c)
  BY DEF Notices
<1>1. StateInv(u, x) /\ NoInserts(x)
  BY DEF Aftermath
<1>2. /\ StateInv(u, y) /\ NoInserts(y) /\ OnlyNew(x, y)
      /\ TakerSlotsEmpty(x) => TakerSlotsEmpty(y)
  BY <1>1, TiedPut
<1> HIDE DEF y
<1>3. /\ StateInv(u, z) /\ NoInserts(z) /\ OnlyNew(y, z)
      /\ TakerSlotsEmpty(y) => TakerSlotsEmpty(z)
  BY <1>2, TiedPut
<1> HIDE DEF z
<1>4. /\ StateInv(u, t) /\ NoInserts(t) /\ OnlyNew(z, t)
      /\ TakerSlotsEmpty(z) => TakerSlotsEmpty(t)
  BY <1>0, <1>3, TransfersPut
<1>5. /\ t.rs = x.rs /\ t.market = x.market /\ t.pos = x.pos /\ t.orders = x.orders /\ t.ok = x.ok
  BY <1>2, <1>3, <1>4 DEF OnlyNew
<1> QED
  BY <1>2, <1>3, <1>4, <1>5 DEF Aftermath, SameExposure

-----------------------------------------------------------------------------
(* The decision as a whole.                                                *)
LEMMA DecideIsGood ==
  ASSUME NEW u, u = setup, u.max_nonce \in Nat, NEW s, StateInv(u, s),
         NEW reg, reg = Top(s), IsInsert(reg), NEW o, o = reg.order, NEW c, Verdict(c),
         NEW time, NEW price, NEW d, d = Decide(s, c, time, price)
  PROVE  \/ d = InsertTaker /\ (CanTrade(reg) => LeafIsEmpty(s, o))
         \/ d = CancelTaker /\ CanTrade(reg)
         \/ /\ CanTrade(reg) /\ ~LeafIsEmpty(s, o) /\ Feasible(o, s.orders[Maker(s, o)], d)
            /\ d.kind = "TRADE" =>
                 /\ GoodTrade(s, o, s.orders[Maker(s, o)], reg.acc, d.amount, time, price)
                 /\ ~Spot => ~NotValidReduceOnly(s, o)
<1>1. /\ TreeInv(u, s.market, s.orders) /\ BookInv(u, s.orders, s.book) /\ s.pos \in PosTree
  BY DEF StateInv, TreesInv, Typed
<1>2. reg # EmptyRegister
  BY DEF IsInsert
<1>3. /\ o \in OrderSet(u) /\ reg.acc \in Nat
  BY <1>2, TopIsInstruction DEF RegisterInv, InstructionRecords
<1>4. CanTrade(reg) <=> o.trigger_status = "NA"
  BY DEF CanTrade
<1>5. \/ d = InsertTaker /\ (CanTrade(reg) => LeafIsEmpty(s, o))
      \/ d = CancelTaker /\ CanTrade(reg)
      \/ /\ CanTrade(reg) /\ ~LeafIsEmpty(s, o) /\ (~Spot => ~NotValidReduceOnly(s, o))
         /\ d = DecideAgainst(s, o, s.orders[Maker(s, o)], reg.acc, c, time, price)
  BY <1>4 DEF Decide
<1>6. ASSUME CanTrade(reg), ~LeafIsEmpty(s, o), (~Spot => ~NotValidReduceOnly(s, o)),
             d = DecideAgainst(s, o, s.orders[Maker(s, o)], reg.acc, c, time, price)
      PROVE  /\ CanTrade(reg) /\ ~LeafIsEmpty(s, o) /\ Feasible(o, s.orders[Maker(s, o)], d)
             /\ d.kind = "TRADE" =>
                 /\ GoodTrade(s, o, s.orders[Maker(s, o)], reg.acc, d.amount, time, price)
                 /\ ~Spot => ~NotValidReduceOnly(s, o)
  <2> DEFINE mk == s.orders[Maker(s, o)]
  <2>1. mk \in OrderSet(u) /\ mk.remaining \in Nat
    BY <1>1, <1>3, <1>6, MakerIsFound
  <2>2. o.remaining \in Nat
    BY <1>3, <1>4, <1>6, OrderFacts
  <2>3. d = DecideAgainst(s, o, mk, reg.acc, c, time, price)
    BY <1>6
  <2> HIDE DEF mk
  <2>4. /\ Feasible(o, mk, d)
        /\ d.kind = "TRADE" => GoodTrade(s, o, mk, reg.acc, d.amount, time, price)
    BY <1>1, <1>3, <2>1, <2>2, <2>3, DecisionIsGood
  <2> QED
    BY <1>6, <2>4 DEF mk
<1> QED
  BY <1>5, <1>6

(* An order that meets no leaf does not cross the book.                    *)
Uncrossed(s, o) ==
  \A l \in s.book : l.is_ask # o.is_ask =>
    IF o.is_ask THEN o.price > l.price ELSE o.price < l.price

(* With no leaf to meet, the order may rest at its price.                  *)
LEMMA RestsUncrossed ==
  ASSUME NEW u, u.max_nonce \in Nat, NEW s, NEW o \in OrderSet(u),
         TreeInv(u, s.market, s.orders), BookInv(u, s.orders, s.book), LeafIsEmpty(s, o)
  PROVE  Uncrossed(s, o)
<1> SUFFICES ASSUME NEW l \in s.book, l.is_ask # o.is_ask
             PROVE  IF o.is_ask THEN o.price > l.price ELSE o.price < l.price
  BY DEF Uncrossed
<1>1. l \in Opposite(s, o.is_ask)
  BY DEF Opposite
<1> DEFINE b == Best(s, o.is_ask)
<1>2. o.is_ask \in BOOLEAN /\ o.price \in Nat
  BY OrderFacts
<1>3. b \in Opposite(s, o.is_ask) /\ (l = b \/ Before(b, l))
  BY <1>1, <1>2, BestIsBest
<1>4. ~Crosses(o, b)
  BY <1>1 DEF LeafIsEmpty
<1> HIDE DEF b
<1>5. b \in s.book /\ b.is_ask # o.is_ask
  BY <1>3 DEF Opposite
<1>6. b.price \in Nat /\ l.price \in Nat /\ b.is_ask \in BOOLEAN /\ l.is_ask \in BOOLEAN
  BY <1>5, LeafType
<1>7. b.is_ask = l.is_ask /\ b.is_ask = ~o.is_ask
  BY <1>2, <1>5, <1>6
<1>8. IF o.is_ask THEN b.price >= l.price ELSE b.price <= l.price
  <2>1. CASE l = b
    BY <1>6, <2>1
  <2>2. CASE Before(b, l)
    BY <1>2, <1>5, <1>6, <2>2 DEF Before
  <2> QED
    BY <1>3, <2>1, <2>2
<1> QED
  BY <1>2, <1>4, <1>6, <1>8 DEF Crosses

(* A position after a step lies between zero and the one before.           *)
Reduced(s, t, a) ==
  LET p == s.pos[a].position  q == t.pos[a].position
  IN  (0 <= q /\ q <= p) \/ (p <= q /\ q <= 0)

(* A position that stays is reduced, in the weak sense.                    *)
LEMMA SamePositionReduces ==
  ASSUME NEW s, s.pos \in PosTree, NEW t, NEW a \in Accounts, t.pos[a].position = s.pos[a].position
  PROVE  Reduced(s, t, a)
<1>1. s.pos[a].position \in Int
  BY DEF PosTree, PosSet
<1> QED
  BY <1>1 DEF Reduced

(* A fill of a reduce-only order within the caps brings its owner's        *)
(* position closer to zero, and not beyond.                                *)
LEMMA ReducingTrade ==
  ASSUME NEW u, NEW s, s.pos \in PosTree, NEW o \in OrderSet(u), NEW mk \in OrderSet(u),
         o.is_ask # mk.is_ask, NEW amount \in Nat, NEW t, Moved(s, t, o, mk, amount),
         NEW x \in {o, mk}, x.reduce_only,
         amount <= Abs(s.pos[x.owner].position), ~Spot => ~NotValidReduceOnly(s, x)
  PROVE  Reduced(s, t, x.owner)
<1>1. /\ o.owner \in Accounts /\ mk.owner \in Accounts /\ o.is_ask \in BOOLEAN /\ mk.is_ask \in BOOLEAN
  BY OrderFacts
<1> DEFINE p == s.pos[x.owner].position
           q == t.pos[x.owner].position
           shift == (IF ~Spot /\ x.owner = o.owner THEN Delta(o, amount) ELSE 0)
                    + (IF ~Spot /\ x.owner = mk.owner THEN Delta(mk, amount) ELSE 0)
<1>2. x.owner \in Accounts /\ p \in Int
  BY <1>1 DEF PosTree, PosSet
<1>3. q = p + (IF ~Spot /\ x.owner = o.owner THEN Delta(o, amount) ELSE 0)
            + (IF ~Spot /\ x.owner = mk.owner THEN Delta(mk, amount) ELSE 0)
  BY <1>2 DEF Moved
<1>4. ~Spot => (x.is_ask /\ p > 0) \/ (~x.is_ask /\ p < 0)
  BY <1>2 DEF NotValidReduceOnly, NotValidReduceOnlyDirection
<1>5. amount <= p \/ amount <= -p
  BY <1>2 DEF Abs
<1>6. Delta(o, amount) = (IF o.is_ask THEN -amount ELSE amount)
      /\ Delta(mk, amount) = (IF mk.is_ask THEN -amount ELSE amount)
  BY DEF Delta
<1>7. q = p \/ (~Spot /\ q = p + (IF x.is_ask THEN -amount ELSE amount))
  <2>1. CASE Spot \/ o.owner = mk.owner
    BY <1>1, <1>2, <1>3, <1>6, <2>1
  <2>2. CASE ~Spot /\ o.owner # mk.owner
    BY <1>1, <1>2, <1>3, <1>6, <2>2
  <2> QED
    BY <2>1, <2>2
<1> HIDE DEF p, q
<1>8. (0 <= q /\ q <= p) \/ (p <= q /\ q <= 0)
  BY <1>2, <1>4, <1>5, <1>7
<1> QED
  BY <1>8 DEF Reduced, p, q

(* A trade that the check of the open interest lets pass keeps its         *)
(* notional in bounds.                                                     *)
LEMMA OpenInterestStays ==
  ASSUME NEW u, u = setup, NEW s, NEW o, NEW mk, NEW amount, NEW price,
         s.pos \in PosTree, s.market.open_interest \in Int, o.owner \in Accounts, mk.owner \in Accounts,
         amount \in Nat, o.is_ask \in BOOLEAN, mk.is_ask \in BOOLEAN,
         s.market.open_interest * price <= u.open_interest_notional,
         u.open_interest_notional \in Nat, price \in Nat,
         ~OpenInterestExceeded(s, o, mk, amount, price)
  PROVE  NewOpenInterest(s, o, mk, amount) * price <= u.open_interest_notional
<1>1. CASE Spot
  <2>1. ASSUME NEW x, x.owner \in Accounts, x.is_ask \in BOOLEAN
        PROVE  NewPosition(s, x, amount) = s.pos[x.owner].position /\ s.pos[x.owner].position \in Int
    <3>1. s.pos[x.owner].position \in Int
      BY <2>1 DEF PosTree, PosSet
    <3>2. B2N(~Spot) = 0 /\ Delta(x, amount) \in Int
      BY <1>1, <2>1 DEF B2N, Delta
    <3> QED
      BY <3>1, <3>2 DEF NewPosition
  <2>2. NewOpenInterest(s, o, mk, amount) = s.market.open_interest
    <3>1. /\ NewPosition(s, o, amount) = s.pos[o.owner].position /\ s.pos[o.owner].position \in Int
          /\ NewPosition(s, mk, amount) = s.pos[mk.owner].position /\ s.pos[mk.owner].position \in Int
      BY <2>1
    <3> QED
      BY <3>1 DEF NewOpenInterest, Abs
  <2> QED
    BY <2>2
<1>2. CASE ~Spot
  <2> DEFINE n == NewOpenInterest(s, o, mk, amount)
  <2>1. ~(n * price > MARKET_OPEN_INTEREST_NOTIONAL)
    BY <1>2 DEF OpenInterestExceeded
  <2>2. MARKET_OPEN_INTEREST_NOTIONAL = u.open_interest_notional
    BY DEF MARKET_OPEN_INTEREST_NOTIONAL
  <2>3. n \in Int
    <3>1. ASSUME NEW x, x.owner \in Accounts, x.is_ask \in BOOLEAN
          PROVE  NewPosition(s, x, amount) \in Int /\ s.pos[x.owner].position \in Int
      <4>1. s.pos[x.owner].position \in Int
        BY <3>1 DEF PosTree, PosSet
      <4>2. B2N(~Spot) = 1 /\ Delta(x, amount) \in Int
        BY <1>2, <3>1 DEF B2N, Delta
      <4> QED
        BY <4>1, <4>2 DEF NewPosition
    <3> QED
      BY <3>1 DEF NewOpenInterest, Abs
  <2> HIDE DEF n
  <2>4. n * price \in Int
    BY <2>3
  <2>5. n * price <= u.open_interest_notional
    BY <2>1, <2>2, <2>4
  <2> QED
    BY <2>5 DEF n
<1> QED
  BY <1>1, <1>2

(* The state in which matching starts.                                     *)
LEMMA NothingNew ==
  ASSUME NEW s, s.new = NoNewInstructions
  PROVE  s.new.count = 0 /\ NoInserts(s) /\ TakerSlotsEmpty(s)
BY DEF NoNewInstructions, NoInserts, TakerSlotsEmpty, NewSlots, NEW_INSTRUCTIONS_MAX_SIZE, IsInsert

(* An assertion changes nothing but whether the transaction stands.        *)
LEMMA AssertedIsGood ==
  ASSUME NEW u, u.max_nonce \in Nat, NEW s, StateInv(u, s), NEW condition,
         NEW t, t = Assert(s, condition)
  PROVE  /\ StateInv(u, t) /\ SameExposure(s, t) /\ (t.ok => s.ok)
         /\ t.rs = s.rs /\ t.new = s.new /\ t.market = s.market /\ t.acct = s.acct /\ t.pos = s.pos
         /\ t.orders = s.orders /\ t.book = s.book
<1>1. TreesInv(u, s) /\ Typed(s) /\ s.market \in MarketSet(u) /\ DOMAIN s = TxFields
  BY DEF StateInv, TreesInv, TreeInv, Typed
<1>2. Bookkept(u, s, t) /\ t.acct = s.acct /\ t.pos = s.pos
  BY <1>1, AssertIsKept
<1>3. StateInv(u, t)
  BY <1>1, <1>2, KeptIsGood
<1>4. t.market = s.market
  BY <1>1 DEF Assert, TxFields
<1> QED
  BY <1>2, <1>3, <1>4 DEF Bookkept, SameExposure

(* No maker: the pending order is inserted, or cancelled.                  *)
LEMMA InsertPath ==
  ASSUME NEW u, u = setup, u.max_nonce \in Nat, NEW s, StateInv(u, s), s.new = NoNewInstructions,
         NEW reg, reg = Top(s), IsInsert(reg), CanTrade(reg) => Uncrossed(s, reg.order),
         NEW p, p = Popped(s), NEW t, t = TakerPlaced(p, reg.order, reg.index)
  PROVE  StateInv(u, t) /\ Room(t) /\ SameExposure(s, t) /\ (t.ok => s.ok)
<1> DEFINE o == reg.order
           i == reg.index
<1>1. reg # EmptyRegister /\ reg.type = "INSERT_ORDER" /\ (CanTrade(reg) <=> o.trigger_status = "NA")
  BY DEF IsInsert, CanTrade
<1>2. /\ RegisterInv(u, s.market, s.orders, reg) /\ s.rs.count # 0 /\ s.rs.count \in 0 .. 8
      /\ CanTrade(reg) => s.rs.count = 1
  BY <1>1, TopIsInstruction
<1>3. /\ o \in OrderSet(u) /\ IndexTaken(u, s.market, i) /\ s.orders[i] = NoOrder
      /\ CanTrade(reg) => NonceTaken(u, s.market, o) /\ Fresh(u, s.orders, o.nonce)
  BY <1>2 DEF RegisterInv
<1>4. /\ StateInv(u, p) /\ p.rs.count = s.rs.count - 1
      /\ \A k \in Slots : k < p.rs.count => k + 1 \in Slots /\ p.rs.stack[k] = s.rs.stack[k + 1]
      /\ p.new = s.new /\ p.market = s.market /\ p.acct = s.acct /\ p.pos = s.pos
      /\ p.orders = s.orders /\ p.book = s.book /\ (p.ok => s.ok)
  <2>1. s.rs.count # 0
    BY <1>2
  <2> QED
    BY <2>1, PopIsGood
<1>5. p.new.count = 0 /\ NoInserts(p)
  BY <1>4, NothingNew
<1>6. ASSUME NEW k \in Slots, k < p.rs.count, IsInsert(p.rs.stack[k]) PROVE p.rs.stack[k].index # i
  <2>1. k + 1 \in Slots /\ p.rs.stack[k] = s.rs.stack[k + 1] /\ 0 \in Slots /\ k + 1 # 0
    BY <1>4, <1>6 DEF Slots, REGISTER_STACK_SIZE
  <2>2. reg = s.rs.stack[0]
    BY DEF Top
  <2>3. \A j, h \in Slots : (IsInsert(s.rs.stack[j]) /\ IsInsert(s.rs.stack[h])
                              /\ s.rs.stack[j].index = s.rs.stack[h].index) => j = h
    BY DEF StateInv, TreesInv, StackInv
  <2> QED
    BY <1>6, <2>1, <2>2, <2>3
<1>7. ASSUME o.trigger_status = "NA"
      PROVE  /\ p.rs.count = 0 /\ NonceTaken(u, p.market, o) /\ Fresh(u, p.orders, o.nonce)
             /\ \A l \in p.book : l.is_ask # o.is_ask =>
                  IF o.is_ask THEN o.price > l.price ELSE o.price < l.price
  <2>2. \A l \in s.book : l.is_ask # o.is_ask =>
                  IF o.is_ask THEN o.price > l.price ELSE o.price < l.price
    BY <1>1, <1>7 DEF Uncrossed
  <2> QED
    BY <1>1, <1>2, <1>3, <1>4, <1>7, <2>2
<1>8. IndexTaken(u, p.market, i) /\ p.orders[i] = NoOrder /\ t = TakerPlaced(p, o, i)
  BY <1>3, <1>4
<1> HIDE DEF o, i
<1>9. /\ StateInv(u, t) /\ SameExposure(p, t) /\ (t.ok => p.ok) /\ t.rs = p.rs /\ t.new = p.new
  BY <1>3, <1>4, <1>5, <1>6, <1>7, <1>8, TakerIsInserted
<1> QED
  BY <1>4, <1>5, <1>9 DEF Room, SameExposure

(* The pending order is cancelled.                                         *)
LEMMA CancelPath ==
  ASSUME NEW u, u.max_nonce \in Nat, NEW s, StateInv(u, s), s.new = NoNewInstructions,
         NEW reg, reg = Top(s), CanTrade(reg),
         NEW p, p = Popped(s), NEW t, t = TakerDropped(p, reg.order)
  PROVE  StateInv(u, t) /\ Room(t) /\ SameExposure(s, t) /\ (t.ok => s.ok)
<1>1. reg # EmptyRegister /\ IsInsert(reg)
  BY DEF IsInsert, CanTrade
<1>2. RegisterInv(u, s.market, s.orders, reg) /\ s.rs.count = 1
  BY <1>1, TopIsInstruction
<1>3. reg.order \in OrderSet(u)
  BY <1>1, <1>2 DEF RegisterInv
<1>4. /\ StateInv(u, p) /\ p.rs.count = s.rs.count - 1 /\ p.new = s.new /\ p.market = s.market
      /\ p.pos = s.pos /\ (p.ok => s.ok)
  <2>1. s.rs.count # 0
    BY <1>2
  <2> QED
    BY <2>1, PopIsGood
<1>5. NoInserts(p)
  BY <1>4, NothingNew
<1>6. StateInv(u, t) /\ NoInserts(t) /\ OnlyNew(p, t)
  BY <1>3, <1>4, <1>5, TakerIsDropped
<1> QED
  BY <1>2, <1>4, <1>6 DEF Room, OnlyNew, SameExposure

(* Taker and maker after the fill and the trade.                           *)
Trades(s, x, m, d) == x = Trade(Fill(s, m, d), m, d)

\* Without a trade or a fill everything stays.
LEMMA NothingTraded ==
  ASSUME NEW s, NEW m, NEW d, d.kind = "NONE"
  PROVE  Trade(Fill(s, m, d), m, d) = s
<1>1. Fill(s, m, d) = s
  BY DEF Fill
<1>2. Trade(s, m, d) = s
  BY DEF Trade
<1> QED
  BY <1>1, <1>2

(* The state after fill and trade is sound.                                *)
LEMMA TradedIsGood ==
  ASSUME NEW u, u.max_nonce \in Nat, NEW s, StateInv(u, s), s.new = NoNewInstructions,
         NEW reg, reg = Top(s), CanTrade(reg), NEW o, o = reg.order,
         NEW m \in NoncesOf(u), Active(s.orders, m), NEW mk, mk = s.orders[m], mk.remaining # 0,
         NEW d, Feasible(o, mk, d), NEW amount, amount = d.amount,
         d.kind = "TRADE" => SlippageFits(o, mk, amount, reg.acc),
         NEW x, Trades(s, x, m, d)
  PROVE  /\ StateInv(u, x) /\ x.new = s.new /\ x.rs.count = s.rs.count /\ (x.ok => s.ok)
         /\ Top(x).order \in OrderSet(u) /\ x.orders[m] # NoOrder
         /\ \A j \in NoncesOf(u) : j # m => x.orders[j] = s.orders[j]
         /\ d.kind # "TRADE" => SameExposure(s, x)
         /\ d.kind = "TRADE" => /\ Moved(s, x, o, mk, amount)
                                /\ x.market.open_interest = NewOpenInterest(s, o, mk, amount)
<1> DEFINE f == Fill(s, m, d)
<1>0. f = Fill(s, m, d) /\ x = Trade(f, m, d)
  BY DEF Trades
<1> HIDE DEF f
<1>1. reg # EmptyRegister /\ IsInsert(reg) /\ NoInserts(s)
  BY NothingNew DEF IsInsert, CanTrade
<1>2. RegisterInv(u, s.market, s.orders, reg) /\ reg \in InstructionRecords
  BY <1>1, TopIsInstruction
<1>3. o \in OrderSet(u) /\ mk \in OrderSet(u) /\ mk # NoOrder
  BY <1>1, <1>2, OrderFacts DEF RegisterInv, StateInv, TreesInv, TreeInv, OrderTree, Active
<1>4. CASE d.kind = "NONE"
  <2>1. x = s
    BY <1>0, <1>4, NothingTraded
  <2> QED
    BY <1>3, <1>4, <2>1 DEF SameExposure
<1>5. CASE d.kind # "NONE"
  <2>1. amount \in Nat /\ amount <= o.remaining /\ amount <= mk.remaining
    BY <1>5 DEF Feasible
  <2>2. f = FilledBoth(s, m, mk, amount)
    BY <1>0, <1>5 DEF Fill, FilledBoth
  <2> DEFINE left == o.remaining - amount
             mleft == mk.remaining - amount
             o2 == [o EXCEPT !.remaining = left]
             reg2 == [reg EXCEPT !.order = o2]
             mk2 == [mk EXCEPT !.remaining = mleft]
  <2>3. /\ StateInv(u, f) /\ f.new = s.new /\ f.rs.count = s.rs.count
        /\ Top(f) = LessRegister(reg, amount) /\ f.orders[m] = LessOrder(mk, amount)
        /\ Active(f.orders, m)
        /\ \A j \in NoncesOf(u) : j # m => f.orders[j] = s.orders[j]
        /\ SameExposure(s, f) /\ (f.ok => s.ok)
    BY <1>1, <2>1, <2>2, FillIsGood
  <2>4. left \in Nat /\ left <= o.remaining /\ mleft \in Nat /\ mleft <= mk.remaining
    BY <1>3, <2>1, OrderFacts
  <2>5. Top(f) = reg2 /\ f.orders[m] = mk2
    BY <2>3 DEF LessRegister, LessOrder
  <2> HIDE DEF left, mleft
  <2>6. /\ o2 \in OrderSet(u) /\ o2.owner = o.owner /\ o2.is_ask = o.is_ask /\ o2.price = o.price
        /\ o2.type = o.type /\ o2.trigger_status = o.trigger_status
    BY <1>3, <2>4, Remaining
  <2>7. /\ mk2 \in OrderSet(u) /\ mk2.owner = mk.owner /\ mk2.is_ask = mk.is_ask /\ mk2.price = mk.price
    BY <1>3, <2>4, Remaining
  <2> HIDE DEF o2, mk2
  <2>8. reg2.order = o2 /\ reg2.acc = reg.acc /\ reg2.type = reg.type
    BY <1>2 DEF InstructionRecords
  <2> HIDE DEF reg2
  <2>9. reg2 # EmptyRegister
    <3>1. \A k \in Slots : f.rs.stack[k] # EmptyRegister <=> k < f.rs.count
      BY <2>3 DEF StateInv, TreesInv, StackInv
    <3>2. s.rs.count # 0 /\ s.rs.count \in 0 .. 8
      BY <1>1, TopIsInstruction
    <3>3. 0 \in Slots /\ 0 < f.rs.count
      BY <2>3, <3>2 DEF Slots, REGISTER_STACK_SIZE
    <3> QED
      BY <2>5, <3>1, <3>3 DEF Top
  <2>10. CanTrade(reg2)
    BY <1>1, <2>6, <2>8, <2>9 DEF CanTrade, IsInsert
  <2>11. CASE d.kind # "TRADE"
    <3>1. x = f
      BY <1>0, <2>11 DEF Trade
    <3> QED
      BY <2>3, <2>5, <2>6, <2>8, <2>11, <3>1 DEF Active
  <2>12. CASE d.kind = "TRADE"
    <3>1. x = SettledTrade(f, o2, mk2, amount)
      BY <1>0, <2>5, <2>8, <2>12 DEF Trade, SettledTrade
    <3>2. PriceDiff(o2, mk2) = PriceDiff(o, mk) /\ (MarketFlag(o2) <=> MarketFlag(o))
      BY <2>6, <2>7 DEF PriceDiff, MarketFlag
    <3>3. SlippageFits(o2, mk2, amount, reg2.acc)
      BY <2>8, <2>12, <3>2 DEF SlippageFits
    <3>4. /\ StateInv(u, x) /\ x.new = f.new /\ x.orders = f.orders /\ x.rs.count = f.rs.count
          /\ x.ok = f.ok /\ Top(x).order = o2
          /\ x.market.open_interest = NewOpenInterest(f, o2, mk2, amount)
          /\ Moved(f, x, o2, mk2, amount)
      BY <2>1, <2>3, <2>5, <2>7, <2>8, <2>10, <3>1, <3>3, TradeIsGood
    <3>5. Delta(o2, amount) = Delta(o, amount) /\ Delta(mk2, amount) = Delta(mk, amount)
      BY <2>6, <2>7 DEF Delta
    <3>6. /\ \A a \in Accounts : f.pos[a].position = s.pos[a].position
          /\ f.market.open_interest = s.market.open_interest
      BY <2>3 DEF SameExposure
    <3>7. Moved(s, x, o, mk, amount)
      BY <2>6, <2>7, <3>4, <3>5, <3>6 DEF Moved
    <3>8. o.owner \in Accounts /\ mk.owner \in Accounts
      BY <1>3, OrderFacts
    <3>9. /\ NewPosition(f, o2, amount) = NewPosition(s, o, amount)
          /\ NewPosition(f, mk2, amount) = NewPosition(s, mk, amount)
      BY <2>6, <2>7, <3>5, <3>6, <3>8 DEF NewPosition
    <3>10. NewOpenInterest(f, o2, mk2, amount) = NewOpenInterest(s, o, mk, amount)
      BY <2>6, <2>7, <3>6, <3>8, <3>9 DEF NewOpenInterest
    <3> QED
      BY <2>3, <2>6, <2>12, <3>4, <3>7, <3>10 DEF Active
  <2> QED
    BY <2>11, <2>12
<1> QED
  BY <1>4, <1>5

(* A good trade: open interest stays in bounds, reduce-only orders reduce, *)
(* and the maker, the only order that changes, is not stale.               *)
TradedWell(u, s, t, time, price) ==
  /\ t.market.open_interest * price <= u.open_interest_notional
  /\ Top(s).order.reduce_only => Reduced(s, t, Top(s).order.owner)
  /\ \E m \in NoncesOf(u) :
       /\ s.orders[m] # NoOrder /\ ~MakerIsStale(s, s.orders[m], time)
       /\ s.orders[m].reduce_only => Reduced(s, t, s.orders[m].owner)
       /\ \A j \in NoncesOf(u) : j # m => t.orders[j] = s.orders[j]

(* A good trade that has moved the positions is what the properties ask    *)
(* for.                                                                    *)
LEMMA TradeIsWell ==
  ASSUME NEW u, u = setup, u.open_interest_notional \in Nat, NEW s, StateInv(u, s),
         NEW reg, reg = Top(s), NEW o, o = reg.order, o \in OrderSet(u),
         NEW m \in NoncesOf(u), NEW mk, mk = s.orders[m], mk \in OrderSet(u), o.is_ask # mk.is_ask,
         NEW amount \in Nat, NEW time, NEW price \in Nat, NEW acc,
         GoodTrade(s, o, mk, acc, amount, time, price), ~Spot => ~NotValidReduceOnly(s, o),
         s.market.open_interest * price <= u.open_interest_notional,
         NEW t, Moved(s, t, o, mk, amount), t.market.open_interest = NewOpenInterest(s, o, mk, amount),
         \A j \in NoncesOf(u) : j # m => t.orders[j] = s.orders[j]
  PROVE  TradedWell(u, s, t, time, price)
<1>1. s.pos \in PosTree /\ s.market.open_interest \in Int
  BY DEF StateInv, TreesInv, Typed, TreeInv, MarketSet
<1>2. /\ o.owner \in Accounts /\ mk.owner \in Accounts /\ o.is_ask \in BOOLEAN /\ mk.is_ask \in BOOLEAN
      /\ mk # NoOrder
  BY OrderFacts
<1>3. /\ ~MakerIsStale(s, mk, time) /\ (~Spot => ~NotValidReduceOnly(s, mk))
      /\ ~OpenInterestExceeded(s, o, mk, amount, price)
      /\ o.reduce_only  => amount <= Abs(s.pos[o.owner].position)
      /\ mk.reduce_only => amount <= Abs(s.pos[mk.owner].position)
  BY DEF GoodTrade
<1>4. t.market.open_interest * price <= u.open_interest_notional
  <2>1. NewOpenInterest(s, o, mk, amount) * price <= u.open_interest_notional
    BY <1>1, <1>2, <1>3, OpenInterestStays
  <2> QED
    BY <2>1
<1>5. o.reduce_only => Reduced(s, t, o.owner)
  <2> SUFFICES ASSUME o.reduce_only PROVE Reduced(s, t, o.owner)
    OBVIOUS
  <2>1. amount <= Abs(s.pos[o.owner].position) /\ o \in {o, mk}
    BY <1>3
  <2> QED
    BY <1>1, <2>1, ReducingTrade
<1>6. mk.reduce_only => Reduced(s, t, mk.owner)
  <2> SUFFICES ASSUME mk.reduce_only PROVE Reduced(s, t, mk.owner)
    OBVIOUS
  <2>1. amount <= Abs(s.pos[mk.owner].position) /\ mk \in {o, mk} /\ (~Spot => ~NotValidReduceOnly(s, mk))
    BY <1>3
  <2> QED
    BY <1>1, <2>1, ReducingTrade
<1>7. \E n \in NoncesOf(u) :
       /\ s.orders[n] # NoOrder /\ ~MakerIsStale(s, s.orders[n], time)
       /\ s.orders[n].reduce_only => Reduced(s, t, s.orders[n].owner)
       /\ \A j \in NoncesOf(u) : j # n => t.orders[j] = s.orders[j]
  BY <1>2, <1>3, <1>6
<1> QED
  BY <1>4, <1>5, <1>7 DEF TradedWell

MeetsMaker(s, c, time, price, reg, o, m, mk, d, amount, condition, s0, x, s3, t) ==
  /\ reg = Top(s) /\ CanTrade(reg) /\ o = reg.order /\ ~LeafIsEmpty(s, o)
  /\ m = Maker(s, o) /\ mk = s.orders[m]
  /\ Feasible(o, mk, d) /\ amount = d.amount
  /\ d.kind = "TRADE" => GoodTrade(s, o, mk, reg.acc, amount, time, price)
  /\ (d.kind = "TRADE" /\ ~Spot) => ~NotValidReduceOnly(s, o)
  /\ s0 = Assert(s, condition) /\ Trades(s0, x, m, d) /\ Leaves(x, s3, Top(x).order, m)
  /\ d.kind # "TRADE" => t = s3
  /\ d.kind = "TRADE" => Notices(s, x, s3, t, o, mk, c)

(* Meeting a maker, whatever is decided, leaves a sound state with room    *)
(* on the stack.                                                           *)
LEMMA MatchPath ==
  ASSUME NEW u, u = setup, u.max_nonce \in Nat, u.open_interest_notional \in Nat,
         NEW s, StateInv(u, s), s.new = NoNewInstructions,
         NEW time, NEW price \in Nat, NEW c,
         s.market.open_interest * price <= u.open_interest_notional,
         NEW reg, NEW o, NEW m, NEW mk, NEW d, NEW amount, NEW condition, NEW s0, NEW x, NEW s3, NEW t,
         MeetsMaker(s, c, time, price, reg, o, m, mk, d, amount, condition, s0, x, s3, t)
  PROVE  /\ StateInv(u, t) /\ Room(t) /\ (t.ok => s.ok)
         /\ SameExposure(s, t) \/ TradedWell(u, s, t, time, price)
<1> SUFFICES ASSUME reg = Top(s), CanTrade(reg), o = reg.order, ~LeafIsEmpty(s, o),
                    m = Maker(s, o), mk = s.orders[m], Feasible(o, mk, d), amount = d.amount,
                    d.kind = "TRADE" => GoodTrade(s, o, mk, reg.acc, amount, time, price),
                    (d.kind = "TRADE" /\ ~Spot) => ~NotValidReduceOnly(s, o),
                    s0 = Assert(s, condition), Trades(s0, x, m, d), Leaves(x, s3, Top(x).order, m),
                    d.kind # "TRADE" => t = s3, d.kind = "TRADE" => Notices(s, x, s3, t, o, mk, c)
             PROVE  /\ StateInv(u, t) /\ Room(t) /\ (t.ok => s.ok)
                    /\ SameExposure(s, t) \/ TradedWell(u, s, t, time, price)
  BY DEF MeetsMaker
<1>1. /\ TreeInv(u, s.market, s.orders) /\ BookInv(u, s.orders, s.book)
      /\ reg # EmptyRegister /\ IsInsert(reg)
  BY DEF StateInv, TreesInv, CanTrade, IsInsert
<1>2. RegisterInv(u, s.market, s.orders, reg) /\ s.rs.count = 1
  BY <1>1, TopIsInstruction
<1>3. o \in OrderSet(u) /\ o.owner \in Accounts
  BY <1>1, <1>2, OrderFacts DEF RegisterInv
<1>4. /\ m \in NoncesOf(u) /\ Active(s.orders, m) /\ mk \in OrderSet(u) /\ mk.remaining # 0
      /\ mk.is_ask # o.is_ask
  BY <1>1, <1>3, MakerIsFound
<1>5. mk.owner \in Accounts
  BY <1>4, OrderFacts
<1>6. /\ StateInv(u, s0) /\ (s0.ok => s.ok)
      /\ s0.rs = s.rs /\ s0.new = s.new /\ s0.market = s.market /\ s0.pos = s.pos
      /\ s0.orders = s.orders
  BY AssertedIsGood
<1>7. /\ reg = Top(s0) /\ Active(s0.orders, m) /\ mk = s0.orders[m] /\ s0.new = NoNewInstructions
  BY <1>4, <1>6 DEF Top
<1>8. d.kind = "TRADE" => SlippageFits(o, mk, amount, reg.acc)
  BY DEF GoodTrade, SlippageFits
<1>9. /\ StateInv(u, x) /\ x.new = s0.new /\ x.rs.count = s0.rs.count /\ (x.ok => s0.ok)
      /\ Top(x).order \in OrderSet(u) /\ x.orders[m] # NoOrder
      /\ \A j \in NoncesOf(u) : j # m => x.orders[j] = s0.orders[j]
      /\ d.kind # "TRADE" => SameExposure(s0, x)
      /\ d.kind = "TRADE" => /\ Moved(s0, x, o, mk, amount)
                             /\ x.market.open_interest = NewOpenInterest(s0, o, mk, amount)
  BY <1>4, <1>6, <1>7, <1>8, TradedIsGood
<1>10. x.new = NoNewInstructions /\ x.rs.count = 1
  BY <1>2, <1>6, <1>9
<1>11. NoInserts(x) /\ TakerSlotsEmpty(x)
  BY <1>10, NothingNew
<1>12. Aftermath(u, x, s3, m)
  BY <1>4, <1>9, <1>10, <1>11, OrdersLeave
<1>13. Aftermath(u, x, t, m)
  <2>1. CASE d.kind # "TRADE"
    BY <1>12, <2>1
  <2>2. CASE d.kind = "TRADE"
    <3>1. Notices(s, x, s3, t, o, mk, c)
      BY <2>2
    <3> QED
      BY <1>3, <1>5, <1>12, <3>1, PositionsNoticed
  <2> QED
    BY <2>1, <2>2
<1>14. /\ StateInv(u, t) /\ Room(t) /\ (t.ok => s.ok) /\ SameExposure(x, t)
       /\ \A j \in NoncesOf(u) : j # m => t.orders[j] = s.orders[j]
  BY <1>6, <1>9, <1>13 DEF Aftermath, Room
<1>15. CASE d.kind # "TRADE"
  BY <1>6, <1>9, <1>14, <1>15 DEF SameExposure
<1>16. CASE d.kind = "TRADE"
  <2>1. amount \in Nat /\ GoodTrade(s, o, mk, reg.acc, amount, time, price)
        /\ (~Spot => ~NotValidReduceOnly(s, o))
    BY <1>16 DEF Feasible
  <2>2. Moved(s, t, o, mk, amount)
    BY <1>6, <1>9, <1>14, <1>16 DEF Moved, SameExposure
  <2>3. t.market.open_interest = NewOpenInterest(s, o, mk, amount)
    BY <1>6, <1>9, <1>14, <1>16 DEF SameExposure, NewOpenInterest, NewPosition
  <2>4. TradedWell(u, s, t, time, price)
    BY <1>3, <1>4, <1>14, <2>1, <2>2, <2>3, TradeIsWell
  <2> QED
    BY <1>14, <2>4
<1> QED
  BY <1>15, <1>16

(* One call of execute_matching.                                           *)
LEMMA MatchingIsGood ==
  ASSUME NEW u, u = setup, u.max_nonce \in Nat, u.open_interest_notional \in Nat,
         NEW s, StateInv(u, s), s.new = NoNewInstructions,
         NEW reg, reg = Top(s), IsInsert(reg), NEW c, Verdict(c), NEW time, NEW price \in Nat,
         s.market.open_interest * price <= u.open_interest_notional,
         NEW t, t = ExecuteMatching(s, c, time, price)
  PROVE  /\ StateInv(u, t) /\ Room(t) /\ (t.ok => s.ok)
         /\ SameExposure(s, t) \/ TradedWell(u, s, t, time, price)
<1> DEFINE d  == Decide(s, c, time, price)
           o  == reg.order
           m  == IF LeafIsEmpty(s, o) THEN NIL ELSE Maker(s, o)
           mk == s.orders[m]
           s0 == Assert(s, RestingAssertion(s, d))
           x  == Trade(Fill(s0, m, d), m, d)
           p  == Pop(x, d.cancel_taker \/ d.insert)
           s1 == DropMaker(p, m, d.cancel_maker)
           s2 == DropTaker(s1, Top(x).order, d.cancel_taker)
           s3 == InsertTakerOrder(s2, Top(x).order, reg.index, d.insert)
<1>1. (d.kind # "TRADE" => t = s3) /\ (d.kind = "TRADE" => Notices(s, x, s3, t, o, mk, c))
  BY DEF ExecuteMatching, Notices
<1>2. \/ d = InsertTaker /\ (CanTrade(reg) => LeafIsEmpty(s, o))
      \/ d = CancelTaker /\ CanTrade(reg)
      \/ /\ CanTrade(reg) /\ ~LeafIsEmpty(s, o) /\ Feasible(o, s.orders[Maker(s, o)], d)
         /\ d.kind = "TRADE" =>
              /\ GoodTrade(s, o, s.orders[Maker(s, o)], reg.acc, d.amount, time, price)
              /\ ~Spot => ~NotValidReduceOnly(s, o)
  <2> DEFINE e == d
  <2>1. e = Decide(s, c, time, price)
    OBVIOUS
  <2> HIDE DEF d
  <2> QED
    BY <2>1, DecideIsGood
<1> HIDE DEF d
<1>3. Trades(s0, x, m, d)
  BY DEF Trades
<1>4. /\ d.kind = "NONE" => x = s0
      /\ p = IF d.cancel_taker \/ d.insert THEN Popped(x) ELSE x
      /\ s1 = IF d.cancel_maker THEN MakerDropped(p, m) ELSE p
      /\ s2 = IF d.cancel_taker THEN TakerDropped(s1, Top(x).order) ELSE s1
      /\ s3 = IF d.insert THEN TakerPlaced(s2, Top(x).order, reg.index) ELSE s2
  <2>1. d.kind = "NONE" => x = s0
    BY <1>3, NothingTraded DEF Trades
  <2> HIDE DEF x
  <2>2. p = IF d.cancel_taker \/ d.insert THEN Popped(x) ELSE x
    BY DEF Pop, Popped
  <2> HIDE DEF p
  <2>3. s1 = IF d.cancel_maker THEN MakerDropped(p, m) ELSE p
    BY DEF DropMaker, MakerDropped
  <2> HIDE DEF s1
  <2>4. s2 = IF d.cancel_taker THEN TakerDropped(s1, Top(x).order) ELSE s1
    BY DEF DropTaker, TakerDropped, CancelChildOrders, TriggerChildOrders, ForChildren, Put
  <2> HIDE DEF s2
  <2>5. s3 = IF d.insert THEN TakerPlaced(s2, Top(x).order, reg.index) ELSE s2
    BY DEF InsertTakerOrder, TakerPlaced
  <2> QED
    BY <2>1, <2>2, <2>3, <2>4, <2>5
<1>5. s0 = Assert(s, RestingAssertion(s, d))
  OBVIOUS
<1> HIDE DEF s0, x, p, s1, s2, s3
<1>6. /\ StateInv(u, s0) /\ SameExposure(s, s0) /\ (s0.ok => s.ok) /\ reg = Top(s0)
      /\ s0.new = NoNewInstructions /\ s0.book = s.book
  <2>1. /\ StateInv(u, s0) /\ SameExposure(s, s0) /\ (s0.ok => s.ok) /\ s0.rs = s.rs /\ s0.new = s.new
        /\ s0.orders = s.orders /\ s0.book = s.book
    BY <1>5, AssertedIsGood
  <2> QED
    BY <2>1 DEF Top
<1>7. CASE d = InsertTaker /\ (CanTrade(reg) => LeafIsEmpty(s, o))
  <2>1. d.cancel_taker = FALSE /\ d.cancel_maker = FALSE /\ d.insert = TRUE /\ d.kind = "NONE"
    BY <1>7 DEF InsertTaker, Decision
  <2>2. x = s0 /\ p = Popped(s0) /\ t = TakerPlaced(p, reg.order, reg.index)
    BY <1>1, <1>4, <1>6, <2>1
  <2>3. CanTrade(reg) => Uncrossed(s0, reg.order)
    <3> SUFFICES ASSUME CanTrade(reg) PROVE Uncrossed(s0, reg.order)
      OBVIOUS
    <3>1. reg # EmptyRegister
      BY DEF IsInsert
    <3>2. o \in OrderSet(u)
      BY <3>1, TopIsInstruction DEF RegisterInv
    <3>3. TreeInv(u, s.market, s.orders) /\ BookInv(u, s.orders, s.book)
      BY DEF StateInv, TreesInv
    <3>4. LeafIsEmpty(s, o)
      BY <1>7
    <3>5. Uncrossed(s, o)
      BY <3>2, <3>3, <3>4, RestsUncrossed
    <3> QED
      BY <1>6, <3>5 DEF Uncrossed
  <2>4. StateInv(u, t) /\ Room(t) /\ SameExposure(s0, t) /\ (t.ok => s0.ok)
    BY <1>6, <2>2, <2>3, InsertPath
  <2> QED
    BY <1>6, <2>4 DEF SameExposure
<1>8. CASE d = CancelTaker /\ CanTrade(reg)
  <2>1. d.cancel_taker = TRUE /\ d.cancel_maker = FALSE /\ d.insert = FALSE /\ d.kind = "NONE"
    BY <1>8 DEF CancelTaker, Decision
  <2>2. x = s0 /\ p = Popped(s0) /\ t = TakerDropped(p, reg.order)
    BY <1>1, <1>4, <1>6, <2>1
  <2>3. StateInv(u, t) /\ Room(t) /\ SameExposure(s0, t) /\ (t.ok => s0.ok)
    BY <1>6, <1>8, <2>2, CancelPath
  <2> QED
    BY <1>6, <2>3 DEF SameExposure
<1>9. CASE /\ CanTrade(reg) /\ ~LeafIsEmpty(s, o) /\ Feasible(o, s.orders[Maker(s, o)], d)
           /\ d.kind = "TRADE" =>
                /\ GoodTrade(s, o, s.orders[Maker(s, o)], reg.acc, d.amount, time, price)
                /\ ~Spot => ~NotValidReduceOnly(s, o)
  <2> DEFINE amount == d.amount
  <2>1. m = Maker(s, o)
    BY <1>9
  <2>2. /\ d.cancel_taker \in BOOLEAN /\ d.cancel_maker \in BOOLEAN /\ d.insert = FALSE
    BY <1>9 DEF Feasible
  <2>3. Leaves(x, s3, Top(x).order, m)
    <3>1. s1 = p \/ s1 = MakerDropped(p, m)
      BY <1>4
    <3>2. \/ p = x /\ s3 = s1
          \/ p = Popped(x) /\ s3 = TakerDropped(s1, Top(x).order)
      BY <1>4, <2>2
    <3> QED
      BY <3>1, <3>2 DEF Leaves
  <2>4. /\ Feasible(o, mk, d)
        /\ d.kind = "TRADE" => /\ GoodTrade(s, o, mk, reg.acc, amount, time, price)
                               /\ ~Spot => ~NotValidReduceOnly(s, o)
    BY <1>9, <2>1
  <2> DEFINE condition == RestingAssertion(s, d)
  <2>5. s0 = Assert(s, condition)
    BY <1>5
  <2>6. ~LeafIsEmpty(s, o) /\ CanTrade(reg) /\ o = reg.order /\ mk = s.orders[m] /\ amount = d.amount
    BY <1>9
  <2>7. reg = Top(s)
    OBVIOUS
  <2> HIDE DEF o, m, mk, amount, condition
  <2>8. MeetsMaker(s, c, time, price, reg, o, m, mk, d, amount, condition, s0, x, s3, t)
    BY <1>1, <1>3, <2>1, <2>3, <2>4, <2>5, <2>6, <2>7 DEF MeetsMaker
  <2> QED
    BY <2>8, MatchPath
<1> QED
  BY <1>2, <1>7, <1>8, <1>9

-----------------------------------------------------------------------------
(* The two pushes of a transaction, and its end.                           *)
LEMMA PushIsGood ==
  ASSUME NEW u, NEW max \in {3, 8}, NEW s, StateInv(u, s),
         s.rs.count = 0 \/ s.new.count = 0 \/ (max = 8 /\ Room(s)),
         PushAllowed(s.rs, s.new, max), NEW t, t = PushInstructionStack(s, max)
  PROVE  /\ StateInv(u, t) /\ t.new = NoNewInstructions /\ t.ok = s.ok
         /\ t.market = s.market /\ t.acct = s.acct /\ t.pos = s.pos /\ t.orders = s.orders
         /\ t.book = s.book /\ t.locked = s.locked /\ t.rs.count = s.rs.count + s.new.count
         /\ s.new.count = 0 => t.rs.stack = s.rs.stack
         /\ s.new.count # 0 => \E i \in NewSlots : /\ s.new.slot[i] # EmptyRegister
                                                   /\ Top(t) = s.new.slot[i]
<1> DEFINE q == PushInstructions(s.rs, s.new, max)
<1>1. /\ Typed(s) /\ StackInv(u, s.market, s.orders, s.rs)
      /\ NewInv(u, s.market, s.orders, s.rs, s.new)
  BY DEF StateInv, TreesInv
<1>2. \/ s.rs.count = 0 \/ s.new.count = 0
      \/ s.rs.count = 1 /\ max = 8 /\ s.new.slot[4] = EmptyRegister /\ s.new.slot[5] = EmptyRegister
  BY DEF Room, TakerSlotsEmpty
<1>3. /\ StackInv(u, s.market, s.orders, q) /\ q.count = s.rs.count + s.new.count
      /\ s.new.count = 0 => q.stack = s.rs.stack
      /\ s.new.count # 0 => \E i \in NewSlots : /\ s.new.slot[i] # EmptyRegister
                                                /\ q.stack[0] = s.new.slot[i]
  BY <1>1, <1>2, PushIsStack
<1>4. NewInv(u, s.market, s.orders, q, NoNewInstructions)
  BY DEF NewInv, NoNewInstructions, NewSlots, NEW_INSTRUCTIONS_MAX_SIZE, Registers, IsInsert, CanTrade
<1>5. /\ t.rs = q /\ t.new = NoNewInstructions /\ t.ok = s.ok /\ DOMAIN t = TxFields
      /\ t.market = s.market /\ t.acct = s.acct /\ t.pos = s.pos /\ t.orders = s.orders
      /\ t.book = s.book /\ t.locked = s.locked
  <2> HIDE DEF q
  <2>1. t = [[s EXCEPT !.ok = s.ok /\ PushAllowed(s.rs, s.new, max)]
               EXCEPT !.rs = q, !.new = NoNewInstructions]
    BY DEF PushInstructionStack, Assert, q
  <2>2. DOMAIN s = TxFields /\ s.ok \in BOOLEAN
    BY <1>1 DEF Typed
  <2> QED
    BY <2>1, <2>2 DEF TxFields
<1> HIDE DEF q
<1> QED
  BY <1>1, <1>3, <1>4, <1>5 DEF StateInv, TreesInv, Typed, Top

(* The state that a transaction writes back is sound.                      *)
LEMMA BecomeIsGood ==
  ASSUME NEW s, StateInv(setup, s), Room(s), Become(s)
  PROVE  /\ StateInv(setup', Tx') /\ s.ok /\ UNCHANGED <<setup, now, mark>>
         /\ market' = s.market /\ acct' = s.acct /\ pos' = s.pos /\ orders' = s.orders
         /\ book' = s.book /\ locked' = s.locked
<1> DEFINE t == Done(s)
           eight == 8
<1>1. /\ t.ok /\ UNCHANGED <<setup, now, mark>>
      /\ rs' = t.rs /\ market' = t.market /\ acct' = t.acct /\ pos' = t.pos
      /\ orders' = t.orders /\ book' = t.book /\ locked' = t.locked
  BY DEF Become
<1>2. t = PushInstructionStack(s, eight) /\ eight \in {3, 8} /\ eight = 8
  BY DEF Done
<1>3. Typed(s)
  BY DEF StateInv, TreesInv
<1>4. t.ok => PushAllowed(s.rs, s.new, eight)
  BY <1>3 DEF Done, PushInstructionStack, Assert, Typed, TxFields
<1> HIDE DEF t, eight
<1>5. PushAllowed(s.rs, s.new, eight)
  BY <1>1, <1>4
<1>6. /\ StateInv(setup, t) /\ t.new = NoNewInstructions /\ t.ok = s.ok
      /\ t.market = s.market /\ t.acct = s.acct /\ t.pos = s.pos /\ t.orders = s.orders
      /\ t.book = s.book /\ t.locked = s.locked
  BY <1>2, <1>5, PushIsGood
<1>7. StateInv(setup', Tx')
  <2> DEFINE q == Tx'
  <2>1. /\ q.rs = t.rs /\ q.new = t.new /\ q.market = t.market /\ q.acct = t.acct /\ q.pos = t.pos
        /\ q.orders = t.orders /\ q.book = t.book /\ q.locked = t.locked
        /\ DOMAIN q = TxFields /\ q.ok \in BOOLEAN /\ setup' = setup
    BY <1>1, <1>6 DEF Tx, TxFields
  <2> HIDE DEF q
  <2>2. StateInv(setup, q)
    BY <1>6, <2>1 DEF StateInv, TreesInv, Typed
  <2> QED
    BY <2>1, <2>2 DEF q
<1> QED
  BY <1>1, <1>6, <1>7

(* A transaction that asks for no matching.                                *)
LEMMA ApplyIsGood ==
  ASSUME NEW s, StateInv(setup, s), s.rs.count = 0 \/ s.new.count = 0, Become(Apply(s))
  PROVE  /\ StateInv(setup', Tx') /\ s.ok /\ UNCHANGED <<setup, now, mark>>
         /\ market' = s.market /\ acct' = s.acct /\ pos' = s.pos /\ orders' = s.orders
         /\ book' = s.book /\ locked' = s.locked
<1> DEFINE t == Apply(s)
           three == 3
<1>1. t = PushInstructionStack(s, three) /\ three \in {3, 8}
  BY DEF Apply
<1>2. Typed(s)
  BY DEF StateInv, TreesInv
<1>3. t.ok => PushAllowed(s.rs, s.new, three)
  BY <1>2 DEF Apply, PushInstructionStack, Assert, Typed, TxFields
<1>4. Done(t).ok => t.ok
  BY <1>2 DEF Done, Apply, PushInstructionStack, Assert, Typed, TxFields
<1>5. Become(t) => Done(t).ok
  BY DEF Become
<1> HIDE DEF t, three
<1>6. Become(t)
  BY DEF t
<1>7. PushAllowed(s.rs, s.new, three)
  BY <1>3, <1>4, <1>5, <1>6
<1>8. /\ StateInv(setup, t) /\ t.new = NoNewInstructions /\ t.ok = s.ok
      /\ t.market = s.market /\ t.acct = s.acct /\ t.pos = s.pos /\ t.orders = s.orders
      /\ t.book = s.book /\ t.locked = s.locked
  BY <1>1, <1>7, PushIsGood
<1>9. Room(t)
  BY <1>8, NothingNew DEF Room
<1>10. /\ StateInv(setup', Tx') /\ t.ok /\ UNCHANGED <<setup, now, mark>>
       /\ market' = t.market /\ acct' = t.acct /\ pos' = t.pos /\ orders' = t.orders
       /\ book' = t.book /\ locked' = t.locked
  BY <1>6, <1>8, <1>9, BecomeIsGood
<1> QED
  BY <1>8, <1>10

-----------------------------------------------------------------------------
(* What a step of the specification does to the positions: nothing, or it  *)
(* is a good trade.                                                        *)
SamePositions == \A a \in Accounts : pos'[a].position = pos[a].position

TradeStep ==
  /\ (TopIs(Tx, "INSERT_ORDER") /\ Top(Tx).order.reduce_only) => Shrinks(Top(Tx).account)
  /\ \E m \in Nonces :
       /\ orders[m] # NoOrder
       /\ ~IsExpired(orders[m], now) /\ ~ShouldDmsBeTriggered(Tx, orders[m].owner, now)
       /\ orders[m].reduce_only => Shrinks(orders[m].owner)
       /\ \A j \in Nonces : j # m => orders'[j] = orders[j]

GoodStep == SamePositions \/ TradeStep

(* A transaction that goes on to match ends in a sound state, and has      *)
(* traded well if it traded.                                               *)
LEMMA MatchIsGood ==
  ASSUME setup.max_nonce \in Nat, setup.open_interest_notional \in Nat, mark \in Nat, OpenInterestFits,
         NEW s, StateInv(setup, s), s.rs.count = 0 \/ s.new.count = 0,
         NEW three, three = 3, PushAllowed(s.rs, s.new, three),
         s.new.count = 0 => IsInsert(Top(s)),
         \A i \in NewSlots : s.new.slot[i] # EmptyRegister => IsInsert(s.new.slot[i]),
         s.rs = rs, s.acct = acct, s.pos = pos, s.orders = orders,
         s.market.open_interest = market.open_interest,
         NEW c, Verdict(c), Become(ApplyAndMatch(s, c))
  PROVE  /\ StateInv(setup', Tx') /\ UNCHANGED <<setup, now, mark>>
         /\ OpenInterestFits' /\ GoodStep
<1> DEFINE x == Apply(s)
           t == ExecuteMatching(x, c, now, mark)
<1>1. x = PushInstructionStack(s, three) /\ three \in {3, 8}
  BY DEF Apply
<1>2. Become(t)
  BY DEF ApplyAndMatch
<1> HIDE DEF x
<1>3. /\ StateInv(setup, x) /\ x.new = NoNewInstructions /\ x.ok = s.ok
      /\ x.market = s.market /\ x.acct = acct /\ x.pos = pos /\ x.orders = orders
      /\ x.book = s.book /\ x.locked = s.locked
      /\ s.new.count = 0 => Top(x) = Top(s)
      /\ IsInsert(Top(x))
  <2>1. /\ StateInv(setup, x) /\ x.new = NoNewInstructions /\ x.ok = s.ok
        /\ x.market = s.market /\ x.acct = s.acct /\ x.pos = s.pos /\ x.orders = s.orders
        /\ x.book = s.book /\ x.locked = s.locked /\ x.rs.count = s.rs.count + s.new.count
        /\ s.new.count = 0 => x.rs.stack = s.rs.stack
        /\ s.new.count # 0 => \E i \in NewSlots : /\ s.new.slot[i] # EmptyRegister
                                                  /\ Top(x) = s.new.slot[i]
    BY <1>1, PushIsGood
  <2>2. s.new.count = 0 => Top(x) = Top(s)
    BY <2>1 DEF Top
  <2> QED
    BY <2>1, <2>2
<1>4. x.market.open_interest * mark <= setup.open_interest_notional
  BY <1>3 DEF OpenInterestFits, MARKET_OPEN_INTEREST_NOTIONAL
<1> DEFINE reg == Top(x)
<1>5. reg = Top(x) /\ IsInsert(reg)
  BY <1>3
<1>6. t = ExecuteMatching(x, c, now, mark)
  OBVIOUS
<1> HIDE DEF t, reg
<1>7. /\ StateInv(setup, t) /\ Room(t) /\ (t.ok => x.ok)
      /\ SameExposure(x, t) \/ TradedWell(setup, x, t, now, mark)
  BY <1>3, <1>4, <1>5, <1>6, MatchingIsGood
<1>8. /\ StateInv(setup', Tx') /\ t.ok /\ UNCHANGED <<setup, now, mark>>
      /\ market' = t.market /\ acct' = t.acct /\ pos' = t.pos /\ orders' = t.orders
      /\ book' = t.book /\ locked' = t.locked
  BY <1>2, <1>7, BecomeIsGood
<1>9. CASE SameExposure(x, t)
  <2>1. SamePositions
    BY <1>3, <1>8, <1>9 DEF SameExposure, SamePositions
  <2>2. OpenInterestFits'
    BY <1>3, <1>8, <1>9 DEF SameExposure, OpenInterestFits, MARKET_OPEN_INTEREST_NOTIONAL
  <2> QED
    BY <1>8, <2>1, <2>2 DEF GoodStep
<1>10. CASE TradedWell(setup, x, t, now, mark)
  <2>1. OpenInterestFits'
    BY <1>8, <1>10 DEF TradedWell, OpenInterestFits, MARKET_OPEN_INTEREST_NOTIONAL
  <2>2. ASSUME NEW a, Reduced(x, t, a) PROVE Shrinks(a)
    BY <1>3, <1>8, <2>2 DEF Reduced, Shrinks
  <2>3. (TopIs(Tx, "INSERT_ORDER") /\ Top(Tx).order.reduce_only) => Shrinks(Top(Tx).account)
    <3> SUFFICES ASSUME TopIs(Tx, "INSERT_ORDER"), Top(Tx).order.reduce_only
                 PROVE  Shrinks(Top(Tx).account)
      OBVIOUS
    <3>1. Top(s) = Top(Tx) /\ Top(s) # EmptyRegister /\ IsInsert(Top(s))
      BY DEF Top, Tx, TopIs, IsInsert
    <3> DEFINE old == Top(s)
    <3>2. old = Top(s) /\ old # EmptyRegister
      BY <3>1
    <3> HIDE DEF old
    <3>3. s.rs.count # 0 /\ RegisterInv(setup, s.market, s.orders, old)
      BY <3>2, TopIsInstruction
    <3>4. s.new.count = 0 /\ Top(x) = old /\ old.account = old.order.owner
      BY <1>3, <3>1, <3>2, <3>3 DEF RegisterInv
    <3>5. Reduced(x, t, old.order.owner)
      BY <1>10, <3>1, <3>2, <3>4 DEF TradedWell
    <3> QED
      BY <2>2, <3>1, <3>2, <3>4, <3>5
  <2>4. PICK m \in NoncesOf(setup) :
          /\ x.orders[m] # NoOrder /\ ~MakerIsStale(x, x.orders[m], now)
          /\ x.orders[m].reduce_only => Reduced(x, t, x.orders[m].owner)
          /\ \A j \in NoncesOf(setup) : j # m => t.orders[j] = x.orders[j]
    BY <1>10 DEF TradedWell
  <2>5. Nonces = NoncesOf(setup)
    BY DEF Nonces, NoncesOf, FIRST_ASK_NONCE, FIRST_BID_NONCE, MaxNonce
  <2>6. ~IsExpired(orders[m], now) /\ ~ShouldDmsBeTriggered(Tx, orders[m].owner, now)
    BY <1>3, <2>4 DEF MakerIsStale, IsExpired, ShouldDmsBeTriggered, Tx
  <2>7. orders[m] # NoOrder /\ (orders[m].reduce_only => Shrinks(orders[m].owner))
        /\ \A j \in Nonces : j # m => orders'[j] = orders[j]
    BY <1>3, <1>8, <2>2, <2>4, <2>5
  <2> QED
    BY <1>8, <2>1, <2>3, <2>4, <2>5, <2>6, <2>7 DEF GoodStep, TradeStep
<1> QED
  BY <1>7, <1>9, <1>10

-----------------------------------------------------------------------------
(* The setup, and the state in which a transaction begins.                 *)
LEMMA SetupFacts ==
  ASSUME SetupInv
  PROVE  /\ setup.max_nonce \in Nat \ {0} /\ setup.open_interest_notional \in Nat
         /\ Nonces = NoncesOf(setup)
         /\ CreateRequests \subseteq Requests /\ ModifyRequests \subseteq Modifications
         /\ \A g \in GroupRequests : g.orders \in Seq(Requests) /\ g.type \in {"OCO", "OTO", "OTOCO"}
         /\ L1Requests \subseteq [type : OrderTypes, is_ask : BOOLEAN, price : Nat, base : Nat]
         /\ \A c \in Verdicts : Verdict(c)
         /\ TwapSlices \subseteq Nat /\ LiquidationPrices \subseteq Nat
         /\ MarkPrices \subseteq Nat \ {0} /\ InitialMark \in Nat \ {0} /\ MaxTime \in Nat
<1>1. PICK n \in DOMAIN Setups : setup = Setups[n]
  BY DEF SetupInv
<1>2. Nonces = NoncesOf(setup)
  BY DEF Nonces, NoncesOf, FIRST_ASK_NONCE, FIRST_BID_NONCE, MaxNonce
<1>3. setup.max_nonce \in Nat \ {0}
  BY <1>1, OrdersAssumption
<1>4. setup.open_interest_notional \in Nat
  BY <1>1, MatchingAssumption
<1>5. /\ MarkPrices \subseteq Nat \ {0} /\ InitialMark \in Nat \ {0} /\ MaxTime \in Nat
  BY <1>1, OrderFlowAssumption DEF MarkPrices, InitialMark, MaxTime
<1>6. /\ CreateRequests \subseteq Requests /\ ModifyRequests \subseteq Modifications
      /\ \A g \in GroupRequests : g.orders \in Seq(Requests) /\ g.type \in {"OCO", "OTO", "OTOCO"}
      /\ L1Requests \subseteq [type : OrderTypes, is_ask : BOOLEAN, price : Nat, base : Nat]
      /\ TwapSlices \subseteq Nat /\ LiquidationPrices \subseteq Nat
  BY <1>1, RequestsAssumption
     DEF CreateRequests, ModifyRequests, GroupRequests, L1Requests, TwapSlices, LiquidationPrices
<1>7. \A c \in Verdicts : Verdict(c)
  BY <1>1, RequestsAssumption DEF Verdicts, Verdict
<1> QED
  BY <1>2, <1>3, <1>4, <1>5, <1>6, <1>7

(* What the invariant says of the state in which a transaction begins.     *)
LEMMA TxFacts ==
  ASSUME IInv
  PROVE  /\ Tx.rs = rs /\ Tx.new = NoNewInstructions /\ Tx.market = market /\ Tx.acct = acct
         /\ Tx.pos = pos /\ Tx.orders = orders /\ Tx.book = book /\ Tx.locked = locked /\ Tx.ok = TRUE
         /\ StateInv(setup, Tx) /\ TreesInv(setup, Tx) /\ Typed(Tx) /\ market \in MarketSet(setup)
         /\ IsEmpty(rs) => rs.count = 0
         /\ ~IsEmpty(rs) => rs.count # 0
         /\ pos \in PosTree /\ orders \in OrderTree(setup)
         /\ \A a \in Accounts : PositionTiedAmount(a) \in Nat
<1>1. StateInv(setup, Tx) /\ TreesInv(setup, Tx)
  BY DEF IInv, StateInv
<1>2. /\ Tx.rs = rs /\ Tx.new = NoNewInstructions /\ Tx.market = market /\ Tx.acct = acct
      /\ Tx.pos = pos /\ Tx.orders = orders /\ Tx.book = book /\ Tx.locked = locked /\ Tx.ok = TRUE
  BY DEF Tx
<1>3. Typed(Tx) /\ market \in MarketSet(setup) /\ pos \in PosTree /\ orders \in OrderTree(setup)
  BY <1>1, <1>2 DEF TreesInv, TreeInv, Typed
<1>4. (IsEmpty(rs) => rs.count = 0) /\ (~IsEmpty(rs) => rs.count # 0)
  BY <1>1, <1>2 DEF TreesInv, StackInv, IsEmpty, Slots, REGISTER_STACK_SIZE
<1>5. \A a \in Accounts : PositionTiedAmount(a) \in Nat
  BY <1>3 DEF PositionTiedAmount, Abs, PosTree, PosSet
<1> QED
  BY <1>1, <1>2, <1>3, <1>4, <1>5

(* A fresh nonce.                                                          *)
LEMMA BumpIsGood ==
  ASSUME NEW u, u.max_nonce \in Nat, NEW s, StateInv(u, s), ~BookFull(s), NEW is_ask \in BOOLEAN,
         NEW n, n = NextNonce(s, is_ask), NEW t, t = BumpNonce(s, is_ask)
  PROVE  /\ StateInv(u, t) /\ Later(u, s.market, t.market)
         /\ t.rs = s.rs /\ t.new = s.new /\ t.acct = s.acct /\ t.pos = s.pos /\ t.orders = s.orders
         /\ t.book = s.book /\ t.locked = s.locked /\ t.ok = s.ok
         /\ t.market.open_interest = s.market.open_interest
         /\ t.market.total_order_count = s.market.total_order_count
         /\ n \in NoncesOf(u) /\ s.orders[n] = NoOrder /\ IndexTaken(u, t.market, n)
         /\ ~IndexTaken(u, s.market, n) /\ Fresh(u, s.orders, n)
         /\ \A o : (o.nonce = n /\ o.is_ask = is_ask) => NonceTaken(u, t.market, o)
<1>1. /\ Typed(s) /\ TreeInv(u, s.market, s.orders) /\ BookInv(u, s.orders, s.book)
      /\ StackInv(u, s.market, s.orders, s.rs) /\ NewInv(u, s.market, s.orders, s.rs, s.new)
  BY DEF StateInv, TreesInv
<1> DEFINE mk == s.market
           m2 == IF is_ask THEN [mk EXCEPT !.ask_nonce = mk.ask_nonce + 1]
                           ELSE [mk EXCEPT !.bid_nonce = mk.bid_nonce - 1]
<1>2. /\ mk \in MarketSet(u) /\ mk.ask_nonce < mk.bid_nonce
      /\ mk.ask_nonce \in NoncesOf(u) /\ mk.bid_nonce \in NoncesOf(u)
  BY <1>1 DEF TreeInv, BookFull, MarketSet, NoncesOf
<1>3. /\ t.rs = s.rs /\ t.new = s.new /\ t.acct = s.acct /\ t.pos = s.pos /\ t.orders = s.orders
      /\ t.book = s.book /\ t.locked = s.locked /\ t.ok = s.ok /\ DOMAIN t = TxFields
      /\ t.market = m2
  BY <1>1 DEF BumpNonce, Typed, TxFields
<1>4. /\ m2 \in MarketSet(u) /\ m2.ask_nonce <= m2.bid_nonce
      /\ m2.ask_nonce = mk.ask_nonce + (IF is_ask THEN 1 ELSE 0)
      /\ m2.bid_nonce = mk.bid_nonce - (IF is_ask THEN 0 ELSE 1)
      /\ m2.open_interest = mk.open_interest /\ m2.total_order_count = mk.total_order_count
  BY <1>2 DEF MarketSet, NoncesOf
<1>5. n = IF is_ask THEN mk.ask_nonce ELSE mk.bid_nonce
  BY DEF NextNonce
<1> HIDE DEF mk, m2
<1>6. Later(u, mk, m2)
  BY <1>2, <1>4 DEF Later, NoncesOf
<1>7. mk = s.market
  BY DEF mk
<1>8. TreeInv(u, m2, s.orders)
  BY <1>1, <1>4, <1>6, <1>7, LaterTaken DEF TreeInv
<1>9. /\ StackInv(u, m2, s.orders, s.rs) /\ NewInv(u, m2, s.orders, s.rs, s.new)
  <2>1. Fewer(u, s.orders, s.orders)
    BY DEF Fewer
  <2> QED
    BY <1>1, <1>6, <1>7, <2>1, StackStays, NewStays
<1>10. StateInv(u, t)
  BY <1>1, <1>3, <1>8, <1>9 DEF StateInv, TreesInv, Typed
<1>11. n \in NoncesOf(u) /\ ~IndexTaken(u, mk, n) /\ IndexTaken(u, m2, n)
  BY <1>2, <1>4, <1>5 DEF IndexTaken, NoncesOf
<1>12. s.orders[n] = NoOrder
  BY <1>1, <1>7, <1>11 DEF TreeInv
<1>13. Fresh(u, s.orders, n)
  <2> SUFFICES ASSUME NEW j \in NoncesOf(u), Active(s.orders, j), s.orders[j].nonce = n PROVE FALSE
    BY DEF Fresh
  <2>1. NonceTaken(u, mk, s.orders[j])
    BY <1>1, <1>7 DEF TreeInv
  <2> QED
    BY <1>2, <1>5, <2>1 DEF NonceTaken, NoncesOf
<1>14. \A o : (o.nonce = n /\ o.is_ask = is_ask) => NonceTaken(u, m2, o)
  BY <1>2, <1>4, <1>5 DEF NonceTaken, NoncesOf
<1> QED
  BY <1>3, <1>4, <1>6, <1>7, <1>10, <1>11, <1>12, <1>13, <1>14

(* A new order, and the instruction that inserts it.                       *)
Requested(f) ==
  /\ f.type \in OrderTypes /\ f.is_ask \in BOOLEAN /\ f.price \in Nat /\ f.tif \in TimesInForce
  /\ f.expiry \in Nat /\ f.reduce_only \in BOOLEAN /\ f.trigger_price \in Nat
  /\ f.stp \in SelfTradeModes /\ f.by_master \in BOOLEAN /\ f.integrator \in BOOLEAN

(* A request has the fields of an order.                                   *)
LEMMA RequestIsRequested ==
  ASSUME NEW f \in Requests
  PROVE  Requested(f) /\ f.base \in Nat
BY DEF Requests, Requested

(* An order made from a request.                                           *)
LEMMA NewOrderIsOrder ==
  ASSUME NEW u, u.max_nonce \in Nat, NEW a \in Accounts, NEW f, Requested(f), NEW base \in Nat,
         NEW n \in 0 .. u.max_nonce, NEW status \in TriggerStatuses, status # "NA" => n = 0,
         NEW o, o = NewOrder(a, f, base, n, status)
  PROVE  /\ o \in OrderSet(u) /\ o.owner = a /\ o.is_ask = f.is_ask /\ o.nonce = n
         /\ o.trigger_status = status /\ o.reduce_only = f.reduce_only /\ o.remaining = base
         /\ o.initial = base
<1>1. /\ f.type \in OrderTypes /\ f.is_ask \in BOOLEAN /\ f.price \in Nat /\ f.tif \in TimesInForce
      /\ f.expiry \in Nat /\ f.reduce_only \in BOOLEAN /\ f.trigger_price \in Nat
      /\ f.stp \in SelfTradeModes /\ f.by_master \in BOOLEAN /\ f.integrator \in BOOLEAN
  BY DEF Requested
<1>2. n \in Nat /\ base \in Int
  OBVIOUS
<1>3. o \in OrderRecords
  BY <1>1, <1>2 DEF NewOrder, OrderRecords, NIL
<1>4. SizedOrder(o) /\ InRange(u, o)
  BY <1>2 DEF NewOrder, SizedOrder, InRange, NIL
<1>5. /\ o.owner = a /\ o.is_ask = f.is_ask /\ o.nonce = n
      /\ o.trigger_status = status /\ o.reduce_only = f.reduce_only /\ o.remaining = base
      /\ o.initial = base
  BY DEF NewOrder
<1> QED
  BY <1>3, <1>4, <1>5 DEF OrderSet

(* The immediate reduce-only order that L1 or a liquidation creates.       *)
LEMMA ImmediateIsOrder ==
  ASSUME NEW u, u.max_nonce \in Nat, NEW a \in Accounts, NEW type \in OrderTypes,
         NEW is_ask \in BOOLEAN, NEW price \in Nat, NEW base \in Nat,
         NextNonce(Tx, is_ask) \in 0 .. u.max_nonce,
         NEW o, o = ImmediateReduceOnly(a, type, is_ask, price, base)
  PROVE  /\ o \in OrderSet(u) /\ o.is_ask = is_ask /\ o.nonce = NextNonce(Tx, is_ask)
         /\ o.trigger_status = "NA"
<1> DEFINE f == [is_ask |-> is_ask, price |-> price, type |-> type, tif |-> "IOC",
                 expiry |-> NIL, reduce_only |-> TRUE, trigger_price |-> NIL,
                 stp |-> "EXPIRE_MAKER", by_master |-> FALSE, integrator |-> FALSE]
           n == NextNonce(Tx, is_ask)
           na == "NA"
<1>1. Requested(f) /\ f.is_ask = is_ask
  BY DEF Requested, NIL, TimesInForce, SelfTradeModes
<1>2. o = NewOrder(a, f, base, n, na) /\ n \in 0 .. u.max_nonce /\ na \in TriggerStatuses
  BY DEF ImmediateReduceOnly, TriggerStatuses
<1>3. na = "NA" /\ n = NextNonce(Tx, is_ask)
  OBVIOUS
<1> HIDE DEF f, n, na
<1>4. /\ o \in OrderSet(u) /\ o.is_ask = f.is_ask /\ o.nonce = n /\ o.trigger_status = na
  BY <1>1, <1>2, <1>3, NewOrderIsOrder
<1> QED
  BY <1>1, <1>3, <1>4

(* The instruction that inserts an order.                                  *)
LEMMA InsertIsInstruction ==
  ASSUME NEW u, u.max_nonce \in Nat, NEW o \in OrderSet(u), NEW i \in 0 .. u.max_nonce,
         NEW reg, reg = InsertOrder(o, i)
  PROVE  /\ reg \in Instructions(u) /\ IsInsert(reg) /\ reg.order = o /\ reg.index = i
         /\ reg.account = o.owner /\ reg # EmptyRegister
<1>1. /\ reg.type = "INSERT_ORDER" /\ reg.account = o.owner /\ reg.size = 0 /\ reg.index = i
      /\ reg.order = o /\ reg.acc = 0
      /\ DOMAIN reg = {"type", "account", "size", "index", "order", "acc"}
  BY DEF InsertOrder, Instruction
<1>2. o \in OrderRecords /\ o.owner \in Accounts
  BY DEF OrderSet, OrderRecords
<1>3. reg = [type |-> "INSERT_ORDER", account |-> o.owner, size |-> 0, index |-> i, order |-> o, acc |-> 0]
  BY DEF InsertOrder, Instruction
<1>4. reg \in InstructionRecords
  BY <1>2, <1>3 DEF InstructionRecords
<1>5. reg \in Instructions(u) /\ reg # EmptyRegister
  BY <1>1, <1>4, EmptyAssumption DEF Instructions
<1> QED
  BY <1>1, <1>5 DEF IsInsert

(* A pending order is put aside.                                           *)
InsertPut(s, o, i, k) == Put(s, TRUE, InsertOrder(o, i), k)

(* Put aside, it keeps the state sound.                                    *)
LEMMA InsertIsPut ==
  ASSUME NEW u, u.max_nonce \in Nat, NEW s, StateInv(u, s), s.rs.count = 0,
         NEW o \in OrderSet(u), NEW i, IndexTaken(u, s.market, i), s.orders[i] = NoOrder,
         \A k \in NewSlots : IsInsert(s.new.slot[k]) => s.new.slot[k].index # i,
         NEW k \in NewSlots, \A j \in NewSlots : j < k => ~CanTrade(s.new.slot[j]),
         o.trigger_status = "NA" =>
           /\ NonceTaken(u, s.market, o) /\ Fresh(u, s.orders, o.nonce)
           /\ \A j \in NewSlots : j > k => s.new.slot[j] = EmptyRegister,
         NEW t, t = InsertPut(s, o, i, k)
  PROVE  /\ StateInv(u, t) /\ OnlyNew(s, t) /\ t.new.count = s.new.count + 1
         /\ IsInsert(t.new.slot[k]) /\ t.new.slot[k].order = o /\ t.new.slot[k].index = i
         /\ \A j \in NewSlots : j # k => t.new.slot[j] = s.new.slot[j]
<1> DEFINE reg == InsertOrder(o, i)
           q == PutToInstructionStack(s.new, reg, k)
<1>1. i \in 0 .. u.max_nonce
  BY DEF IndexTaken, NoncesOf
<1>2. reg = InsertOrder(o, i)
  OBVIOUS
<1>3. t = [s EXCEPT !.new = q]
  BY DEF InsertPut, Put
<1>4. q = PutToInstructionStack(s.new, reg, k)
  OBVIOUS
<1> HIDE DEF reg, q
<1>5. /\ reg \in Instructions(u) /\ IsInsert(reg) /\ reg.order = o /\ reg.index = i
      /\ reg.account = o.owner /\ reg # EmptyRegister
  BY <1>1, <1>2, InsertIsInstruction
<1>6. RegisterInv(u, s.market, s.orders, reg)
  BY <1>5 DEF RegisterInv, IsInsert, CanTrade, CancelAllKinds
<1>7. /\ Typed(s) /\ TreesInv(u, s) /\ NewInv(u, s.market, s.orders, s.rs, s.new)
  BY DEF StateInv, TreesInv
<1>8. /\ NewInv(u, s.market, s.orders, s.rs, q)
      /\ q.count = s.new.count + 1 /\ q.count # 0 /\ q.slot[k] = reg
      /\ \A j \in NewSlots : j # k => q.slot[j] = s.new.slot[j]
  <2>1. IsInsert(reg) =>
          s.rs.count = 0 /\ \A j \in NewSlots : IsInsert(s.new.slot[j]) => s.new.slot[j].index # reg.index
    BY <1>5
  <2>2. CanTrade(reg) => \A j \in NewSlots : j > k => s.new.slot[j] = EmptyRegister
    BY <1>5 DEF CanTrade
  <2> QED
    BY <1>4, <1>5, <1>6, <1>7, <2>1, <2>2, PutIsNew
<1>9. /\ t.new = q /\ t.rs = s.rs /\ t.market = s.market /\ t.acct = s.acct /\ t.pos = s.pos
      /\ t.orders = s.orders /\ t.book = s.book /\ t.locked = s.locked /\ t.ok = s.ok
      /\ DOMAIN t = DOMAIN s /\ DOMAIN t = TxFields
  BY <1>3, <1>7 DEF Typed, TxFields
<1> QED
  BY <1>5, <1>7, <1>8, <1>9 DEF StateInv, TreesInv, Typed, OnlyNew

-----------------------------------------------------------------------------
(* The steps of the specification, one lemma for every action.             *)
LEMMA ApplyStep ==
  ASSUME IInv, NEW s, StateInv(setup, s), s.rs.count = 0 \/ s.new.count = 0, SameExposure(Tx, s),
         Become(Apply(s))
  PROVE  IInv' /\ GoodStep /\ s.ok
<1>1. /\ StateInv(setup', Tx') /\ s.ok /\ UNCHANGED <<setup, now, mark>>
      /\ market' = s.market /\ acct' = s.acct /\ pos' = s.pos /\ orders' = s.orders
      /\ book' = s.book /\ locked' = s.locked
  BY ApplyIsGood
<1>2. Tx.pos = pos /\ Tx.market = market
  BY TxFacts
<1>3. SamePositions /\ OpenInterestFits'
  BY <1>1, <1>2 DEF SameExposure, SamePositions, IInv, OpenInterestFits, MARKET_OPEN_INTEREST_NOTIONAL
<1> QED
  BY <1>1, <1>3 DEF IInv, GoodStep, SetupInv

(* A transaction that goes on to match, from the state s.                  *)
Matches(s, c) ==
  /\ StateInv(setup, s) /\ (s.rs.count = 0 \/ s.new.count = 0) /\ PushAllowed(s.rs, s.new, 3)
  /\ s.new.count = 0 => IsInsert(Top(s))
  /\ \A i \in NewSlots : s.new.slot[i] # EmptyRegister => IsInsert(s.new.slot[i])
  /\ s.rs = rs /\ s.acct = acct /\ s.pos = pos /\ s.orders = orders
  /\ s.market.total_order_count = market.total_order_count
  /\ Verdict(c) /\ Become(ApplyAndMatch(s, c))

Matched == \E s, c : Matches(s, c)

(* One that matches keeps the invariant, and moves positions by a good     *)
(* trade only.                                                             *)
LEMMA MatchStep ==
  ASSUME IInv, NEW s, StateInv(setup, s), s.rs.count = 0 \/ s.new.count = 0,
         NEW three, three = 3, PushAllowed(s.rs, s.new, three),
         s.new.count = 0 => IsInsert(Top(s)),
         \A i \in NewSlots : s.new.slot[i] # EmptyRegister => IsInsert(s.new.slot[i]),
         s.rs = rs, s.acct = acct, s.pos = pos, s.orders = orders,
         s.market.open_interest = market.open_interest,
         s.market.total_order_count = market.total_order_count,
         NEW c, Verdict(c), Become(ApplyAndMatch(s, c))
  PROVE  IInv' /\ GoodStep /\ Matched
<1>1. /\ setup.max_nonce \in Nat /\ setup.open_interest_notional \in Nat /\ mark \in Nat
      /\ OpenInterestFits
  BY SetupFacts DEF IInv
<1>2. /\ StateInv(setup', Tx') /\ UNCHANGED <<setup, now, mark>>
      /\ OpenInterestFits' /\ GoodStep
  BY <1>1, MatchIsGood
<1>3. Matched
  <2>1. Matches(s, c)
    BY DEF Matches
  <2> QED
    BY <2>1 DEF Matched
<1> QED
  BY <1>2, <1>3 DEF IInv, SetupInv

(* One pending order, which matching takes up at once.                     *)
LEMMA SinglePlace ==
  ASSUME NEW new, NEW k \in 0 .. 2, new.count = 1, new.slot[k] # EmptyRegister,
         \A j \in NewSlots : j # k => new.slot[j] = EmptyRegister,
         NEW r, r.count = 0, NEW three, three = 3
  PROVE  PushAllowed(r, new, three)
<1> DEFINE p(i) == PlacedCount(new.slot, i)
<1>1. p(0) = 0 /\ \A i \in 0 .. 7 : p(i + 1) = p(i) + (IF new.slot[i] # EmptyRegister THEN 1 ELSE 0)
  BY PlacedSteps
<1>2. \A i \in 0 .. 7 : i # k => new.slot[i] = EmptyRegister
  BY DEF NewSlots, NEW_INSTRUCTIONS_MAX_SIZE
<1>3. p(0 + 1) = p(0) + (IF k = 0 THEN 1 ELSE 0)
  BY <1>1, <1>2
<1>4. p(1 + 1) = p(1) + (IF k = 1 THEN 1 ELSE 0)
  BY <1>1, <1>2
<1>5. p(2 + 1) = p(2) + (IF k = 2 THEN 1 ELSE 0)
  BY <1>1, <1>2
<1> HIDE DEF p
<1>6. p(3) = 1
  BY <1>1, <1>3, <1>4, <1>5
<1> QED
  BY <1>6 DEF PushAllowed, REGISTER_STACK_SIZE, p

(* A new pending order is pushed and matched at once.                      *)
LEMMA InsertStep ==
  ASSUME IInv, IsEmpty(rs), ~BookFull(Tx), NEW is_ask \in BOOLEAN, NEW n, n = NextNonce(Tx, is_ask),
         NEW o \in OrderSet(setup), o.is_ask = is_ask, o.nonce = n,
         NEW t, t = InsertPut(BumpNonce(Tx, is_ask), o, n, 0),
         NEW c, Verdict(c), Become(ApplyAndMatch(t, c))
  PROVE  IInv' /\ GoodStep /\ Matched
<1> DEFINE s == BumpNonce(Tx, is_ask)
           zero == 0
<1>1. /\ setup.max_nonce \in Nat /\ StateInv(setup, Tx) /\ rs.count = 0
      /\ Tx.rs = rs /\ Tx.new = NoNewInstructions /\ Tx.acct = acct /\ Tx.pos = pos
      /\ Tx.orders = orders /\ Tx.market = market
  BY SetupFacts, TxFacts DEF IInv
<1>2. s = BumpNonce(Tx, is_ask) /\ zero \in NewSlots /\ zero \in 0 .. 2 /\ zero = 0
      /\ t = InsertPut(s, o, n, zero)
  BY DEF NewSlots, NEW_INSTRUCTIONS_MAX_SIZE
<1> HIDE DEF s, zero
<1>3. /\ StateInv(setup, s) /\ s.rs = rs /\ s.new = NoNewInstructions /\ s.acct = acct /\ s.pos = pos
      /\ s.orders = orders /\ s.market.open_interest = market.open_interest
      /\ s.market.total_order_count = market.total_order_count
      /\ s.orders[n] = NoOrder /\ IndexTaken(setup, s.market, n) /\ Fresh(setup, s.orders, n)
      /\ NonceTaken(setup, s.market, o)
  BY <1>1, <1>2, BumpIsGood
<1>4. \A j \in NewSlots : s.new.slot[j] = EmptyRegister /\ ~IsInsert(s.new.slot[j]) /\ ~CanTrade(s.new.slot[j])
  BY <1>3 DEF NoNewInstructions, IsInsert, CanTrade, NewSlots, NEW_INSTRUCTIONS_MAX_SIZE
<1>5. s.new.count = 0 /\ s.rs.count = 0
  BY <1>1, <1>3, NothingNew
<1>6. o.trigger_status = "NA" =>
           /\ NonceTaken(setup, s.market, o) /\ Fresh(setup, s.orders, o.nonce)
           /\ \A j \in NewSlots : j > zero => s.new.slot[j] = EmptyRegister
  BY <1>3, <1>4
<1>7. /\ StateInv(setup, t) /\ OnlyNew(s, t) /\ t.new.count = s.new.count + 1
      /\ IsInsert(t.new.slot[zero]) /\ t.new.slot[zero].order = o /\ t.new.slot[zero].index = n
      /\ \A j \in NewSlots : j # zero => t.new.slot[j] = s.new.slot[j]
  BY <1>1, <1>2, <1>3, <1>4, <1>5, <1>6, InsertIsPut, SMTT(30)
<1>8. /\ t.rs = rs /\ t.acct = acct /\ t.pos = pos /\ t.orders = orders
      /\ t.market.open_interest = market.open_interest
      /\ t.market.total_order_count = market.total_order_count
  BY <1>3, <1>7 DEF OnlyNew
<1> DEFINE new == t.new
           three == 3
<1>9. /\ new.count = 1 /\ new.slot[zero] # EmptyRegister /\ new = t.new /\ three = 3
      /\ \A j \in NewSlots : j # zero => new.slot[j] = EmptyRegister
  BY <1>4, <1>5, <1>7 DEF IsInsert
<1> HIDE DEF new, three
<1>10. PushAllowed(t.rs, new, three)
  BY <1>1, <1>2, <1>8, <1>9, SinglePlace
<1>11. \A i \in NewSlots : t.new.slot[i] # EmptyRegister => IsInsert(t.new.slot[i])
  BY <1>7, <1>9
<1>12. t.rs.count = 0 /\ t.new.count = 1 /\ PushAllowed(t.rs, t.new, three)
  BY <1>1, <1>8, <1>9, <1>10
<1> QED
  BY <1>7, <1>8, <1>9, <1>11, <1>12, MatchStep

(* A pending order in the account orders tree.                             *)
WithOrder(s, i, o)   == [s EXCEPT !.orders[i] = o]
SetOrder(tree, i, o) == [tree EXCEPT ![i] = o]

(* Such an order waits for its trigger; it takes no part in the book.      *)
LEMMA PendingIsSet ==
  ASSUME NEW u, u.max_nonce \in Nat, NEW s, StateInv(u, s), NEW i, IndexTaken(u, s.market, i),
         ~Active(s.orders, i), NEW o \in OrderSet(u), o.trigger_status # "NA",
         s.orders[i] # NoOrder \/ (s.rs.count = 0 /\ s.new = NoNewInstructions),
         NEW t, t = WithOrder(s, i, o)
  PROVE  /\ StateInv(u, t) /\ SameExposure(s, t) /\ SameNonces(s, t)
         /\ t.rs = s.rs /\ t.new = s.new /\ t.market = s.market /\ t.acct = s.acct /\ t.pos = s.pos
         /\ t.book = s.book /\ t.locked = s.locked /\ t.ok = s.ok
         /\ t.orders = SetOrder(s.orders, i, o)
<1>1. /\ Typed(s) /\ TreeInv(u, s.market, s.orders) /\ BookInv(u, s.orders, s.book)
      /\ StackInv(u, s.market, s.orders, s.rs) /\ NewInv(u, s.market, s.orders, s.rs, s.new)
  BY DEF StateInv, TreesInv
<1> DEFINE t2 == [s.orders EXCEPT ![i] = o]
<1>2. /\ t.rs = s.rs /\ t.new = s.new /\ t.market = s.market /\ t.acct = s.acct /\ t.pos = s.pos
      /\ t.book = s.book /\ t.locked = s.locked /\ t.ok = s.ok /\ DOMAIN t = TxFields
      /\ t.orders = t2
  BY <1>1 DEF WithOrder, Typed, TxFields
<1>3. /\ TreeInv(u, s.market, t2) /\ BookInv(u, t2, s.book)
      /\ s.orders[i] # NoOrder => Fewer(u, s.orders, t2)
  BY <1>1, PendingSet
<1> HIDE DEF t2
<1>4. StackInv(u, s.market, t2, s.rs) /\ NewInv(u, s.market, t2, s.rs, s.new)
  <2>1. CASE s.orders[i] # NoOrder
    <3>1. Later(u, s.market, s.market)
      BY <1>1 DEF Later, TreeInv, MarketSet, NoncesOf
    <3> QED
      BY <1>1, <1>3, <2>1, <3>1, StackStays, NewStays
  <2>2. CASE s.rs.count = 0 /\ s.new = NoNewInstructions
    <3>1. \A k \in Slots : ~(k < s.rs.count)
      BY <2>2 DEF Slots, REGISTER_STACK_SIZE
    <3>2. StackInv(u, s.market, t2, s.rs)
      BY <1>1, <3>1 DEF StackInv
    <3>3. \A k \in NewSlots : s.new.slot[k] = EmptyRegister
      BY <2>2 DEF NoNewInstructions
    <3>4. NewInv(u, s.market, t2, s.rs, s.new)
      BY <1>1, <3>3 DEF NewInv
    <3> QED
      BY <3>2, <3>4
  <2> QED
    BY <2>1, <2>2
<1>5. StateInv(u, t)
  BY <1>1, <1>2, <1>3, <1>4 DEF StateInv, TreesInv, Typed
<1>6. SameExposure(s, t) /\ SameNonces(s, t)
  BY <1>2 DEF SameExposure, SameNonces
<1> QED
  BY <1>2, <1>5, <1>6 DEF t2, SetOrder

(* What the order of a request waits for.                                  *)
OfStatus(f) == IF f.type = "TWAP" THEN "TWAP"
               ELSE IF f.type \in ConditionalTypes THEN "MARK_PRICE" ELSE "NA"

(* l2_create_order keeps the invariant, whether the order is conditional   *)
(* or matched at once.                                                     *)
LEMMA L2CreateOrderStep ==
  ASSUME IInv, NEW a \in Accounts, NEW f \in CreateRequests, NEW c \in Verdicts, L2CreateOrder(a, f, c)
  PROVE  IInv' /\ GoodStep /\ (OfStatus(f) = "NA" => Matched)
<1> DEFINE conditional == f.type \in ConditionalTypes
           status == IF f.type = "TWAP" THEN "TWAP" ELSE IF conditional THEN "MARK_PRICE" ELSE "NA"
           base  == IF f.base = 0 /\ ~conditional THEN PositionTiedAmount(a) ELSE f.base
           index == NextNonce(Tx, f.is_ask)
           s     == BumpNonce(Tx, f.is_ask)
           n     == IF status = "NA" THEN index ELSE NIL
           o     == NewOrder(a, f, base, n, status)
           x     == WithOrder(s, index, o)
           t     == IncrementOrderCount(x, a, o)
<1>1. /\ IsEmpty(rs) /\ ~BookFull(Tx)
      /\ Become(IF status = "NA" THEN ApplyAndMatch(InsertPut(s, o, index, 0), c) ELSE Apply(t))
  BY DEF L2CreateOrder, UserTransaction, InsertPut, WithOrder
<1>2. /\ setup.max_nonce \in Nat /\ StateInv(setup, Tx) /\ rs.count = 0 /\ Verdict(c)
      /\ Tx.rs = rs /\ Tx.new = NoNewInstructions /\ f \in Requests
      /\ PositionTiedAmount(a) \in Nat
  BY <1>1, SetupFacts, TxFacts DEF IInv
<1>3. Requested(f) /\ f.base \in Nat /\ f.is_ask \in BOOLEAN
  BY <1>2, RequestIsRequested DEF Requested
<1>4. base \in Nat /\ status \in TriggerStatuses /\ (status # "NA" => n = 0) /\ (status = "NA" => n = index)
  BY <1>2, <1>3 DEF TriggerStatuses, NIL
<1>5. /\ s = BumpNonce(Tx, f.is_ask) /\ index = NextNonce(Tx, f.is_ask)
      /\ o = NewOrder(a, f, base, n, status) /\ x = WithOrder(s, index, o)
      /\ t = IncrementOrderCount(x, a, o) /\ status = OfStatus(f)
  BY DEF OfStatus
<1> HIDE DEF conditional, status, base, index, s, n, o, x, t
<1>6. /\ StateInv(setup, s) /\ s.rs = rs /\ s.new = NoNewInstructions /\ s.pos = Tx.pos
      /\ s.market.open_interest = Tx.market.open_interest
      /\ index \in NoncesOf(setup) /\ s.orders[index] = NoOrder /\ IndexTaken(setup, s.market, index)
  BY <1>1, <1>2, <1>3, <1>5, BumpIsGood
<1>7. n \in 0 .. setup.max_nonce
  BY <1>2, <1>4, <1>6 DEF NoncesOf
<1>8. /\ o \in OrderSet(setup) /\ o.owner = a /\ o.is_ask = f.is_ask /\ o.nonce = n
      /\ o.trigger_status = status
  BY <1>2, <1>3, <1>4, <1>5, <1>7, NewOrderIsOrder
<1>9. CASE status = "NA"
  <2> DEFINE y == InsertPut(BumpNonce(Tx, f.is_ask), o, index, 0)
  <2>1. Become(ApplyAndMatch(y, c)) /\ y = InsertPut(BumpNonce(Tx, f.is_ask), o, index, 0)
    BY <1>1, <1>5, <1>9
  <2> HIDE DEF y
  <2>2. o.nonce = index
    BY <1>4, <1>8, <1>9
  <2> QED
    BY <1>1, <1>2, <1>3, <1>5, <1>8, <2>1, <2>2, InsertStep
<1>10. CASE status # "NA"
  <2>1. Become(Apply(t))
    BY <1>1, <1>10
  <2>2. ~Active(s.orders, index) /\ s.rs.count = 0
    BY <1>2, <1>6 DEF Active
  <2>3. /\ StateInv(setup, x) /\ SameExposure(s, x) /\ x.rs = s.rs /\ x.new = s.new
    BY <1>2, <1>5, <1>6, <1>8, <1>10, <2>2, PendingIsSet
  <2>4. Typed(x) /\ x.market \in MarketSet(setup) /\ TreesInv(setup, x)
    BY <2>3 DEF StateInv, TreesInv, TreeInv
  <2>5. Bookkept(setup, x, t)
    BY <1>5, <2>4, IncrementIsKept
  <2>6. StateInv(setup, t)
    BY <1>2, <2>3, <2>4, <2>5, KeptIsGood
  <2>7. t.rs.count = 0 /\ SameExposure(Tx, t)
    BY <1>6, <2>2, <2>3, <2>5 DEF Bookkept, SameExposure
  <2> QED
    BY <1>5, <1>10, <2>1, <2>6, <2>7, ApplyStep
<1> QED
  BY <1>9, <1>10

(* l1_create_order keeps it.                                               *)
LEMMA L1CreateOrderStep ==
  ASSUME IInv, NEW a \in Accounts, NEW f \in L1Requests, NEW c \in Verdicts, L1CreateOrder(a, f, c)
  PROVE  IInv' /\ GoodStep /\ Matched
<1> DEFINE base == IF f.base = 0 THEN PositionTiedAmount(a) ELSE f.base
           o == ImmediateReduceOnly(a, f.type, f.is_ask, f.price, base)
           y == InsertPut(BumpNonce(Tx, f.is_ask), o, o.nonce, 0)
<1>1. IsEmpty(rs) /\ ~BookFull(Tx) /\ Become(ApplyAndMatch(y, c))
  BY DEF L1CreateOrder, UserTransaction, InsertPut
<1>2. /\ setup.max_nonce \in Nat /\ StateInv(setup, Tx) /\ Verdict(c) /\ PositionTiedAmount(a) \in Nat
      /\ f.type \in OrderTypes /\ f.is_ask \in BOOLEAN /\ f.price \in Nat /\ f.base \in Nat
  BY SetupFacts, TxFacts DEF IInv
<1>3. base \in Nat /\ o = ImmediateReduceOnly(a, f.type, f.is_ask, f.price, base)
      /\ y = InsertPut(BumpNonce(Tx, f.is_ask), o, o.nonce, 0)
  BY <1>2
<1> HIDE DEF base, o, y
<1> DEFINE n == NextNonce(Tx, f.is_ask)
           s == BumpNonce(Tx, f.is_ask)
<1>4. n = NextNonce(Tx, f.is_ask) /\ s = BumpNonce(Tx, f.is_ask)
  OBVIOUS
<1> HIDE DEF n, s
<1>5. n \in NoncesOf(setup)
  BY <1>1, <1>2, <1>4, BumpIsGood
<1>6. NextNonce(Tx, f.is_ask) \in 0 .. setup.max_nonce
  BY <1>2, <1>4, <1>5 DEF NoncesOf
<1>7. o \in OrderSet(setup) /\ o.is_ask = f.is_ask /\ o.nonce = n
  BY <1>2, <1>3, <1>4, <1>6, ImmediateIsOrder
<1>8. y = InsertPut(BumpNonce(Tx, f.is_ask), o, n, 0)
  BY <1>3, <1>7
<1> QED
  BY <1>1, <1>2, <1>4, <1>7, <1>8, InsertStep

(* internal_liquidate_position keeps it.                                   *)
LEMMA InternalLiquidatePositionStep ==
  ASSUME IInv, NEW a \in Accounts, NEW base \in 1 .. PositionTiedAmount(a),
         NEW price \in LiquidationPrices, NEW c \in Verdicts,
         InternalLiquidatePosition(a, base, price, c)
  PROVE  IInv' /\ GoodStep /\ Matched
<1> DEFINE is_ask == pos[a].position > 0
           type == "LIQUIDATION"
           o == ImmediateReduceOnly(a, type, is_ask, price, base)
           y == InsertPut(BumpNonce(Tx, is_ask), o, o.nonce, 0)
<1>1. IsEmpty(rs) /\ ~BookFull(Tx) /\ Become(ApplyAndMatch(y, c))
  BY DEF InternalLiquidatePosition, InsertPut
<1>2. /\ setup.max_nonce \in Nat /\ StateInv(setup, Tx) /\ Verdict(c) /\ PositionTiedAmount(a) \in Nat
      /\ price \in Nat /\ pos \in PosTree
  BY SetupFacts, TxFacts DEF IInv
<1>3. base \in Nat /\ is_ask \in BOOLEAN /\ type \in OrderTypes
  BY <1>2 DEF PosTree, PosSet, OrderTypes
<1>4. /\ o = ImmediateReduceOnly(a, type, is_ask, price, base)
      /\ y = InsertPut(BumpNonce(Tx, is_ask), o, o.nonce, 0)
  OBVIOUS
<1> HIDE DEF is_ask, type, o, y
<1> DEFINE n == NextNonce(Tx, is_ask)
           s == BumpNonce(Tx, is_ask)
<1>5. n = NextNonce(Tx, is_ask) /\ s = BumpNonce(Tx, is_ask)
  OBVIOUS
<1> HIDE DEF n, s
<1>6. n \in NoncesOf(setup)
  BY <1>1, <1>2, <1>3, <1>5, BumpIsGood
<1>7. NextNonce(Tx, is_ask) \in 0 .. setup.max_nonce
  BY <1>2, <1>5, <1>6 DEF NoncesOf
<1>8. o \in OrderSet(setup) /\ o.is_ask = is_ask /\ o.nonce = n
  BY <1>2, <1>3, <1>4, <1>5, <1>7, ImmediateIsOrder
<1>9. y = InsertPut(BumpNonce(Tx, is_ask), o, n, 0)
  BY <1>4, <1>8
<1> QED
  BY <1>1, <1>2, <1>3, <1>5, <1>8, <1>9, InsertStep

(* internal_claim_order, by which the pending order on top meets the next  *)
(* maker, keeps it.                                                        *)
LEMMA InternalClaimOrderStep ==
  ASSUME IInv, NEW c \in Verdicts, InternalClaimOrder(c)
  PROVE  IInv' /\ GoodStep /\ Matched
<1> DEFINE s == Tx
           three == 3
<1>1. IsInsert(Top(s)) /\ Become(ApplyAndMatch(s, c)) /\ three = 3 /\ s = Tx
  BY DEF InternalClaimOrder, TopIs, IsInsert
<1>2. /\ StateInv(setup, s) /\ s.rs = rs /\ s.new = NoNewInstructions /\ s.acct = acct /\ s.pos = pos
      /\ s.orders = orders /\ s.market.open_interest = market.open_interest
      /\ s.market.total_order_count = market.total_order_count /\ Verdict(c)
  BY SetupFacts, TxFacts DEF IInv
<1> HIDE DEF s, three
<1>3. s.new.count = 0 /\ \A i \in NewSlots : s.new.slot[i] = EmptyRegister
  BY <1>2, NothingNew DEF NoNewInstructions
<1>4. PushAllowed(s.rs, s.new, three)
  BY <1>3 DEF PushAllowed
<1> QED
  BY <1>1, <1>2, <1>3, <1>4, MatchStep

(* Cancelling an order.                                                    *)
LEMMA RemovedStep ==
  ASSUME IInv, NEW s, TreesInv(setup, s), StateInv(setup, s), NEW i, NEW t, Removed(s, t, i)
  PROVE  /\ SameExposure(s, t) /\ t.rs = s.rs /\ t.new = s.new /\ SameNonces(s, t)
         /\ t.orders = SetOrder(s.orders, i, NoOrder)
BY DEF Removed, SetOrder

(* A cancelled order and the cancel of its children.                       *)
LEMMA CancelFollowed ==
  ASSUME IInv, IsEmpty(rs), NEW i \in Nonces, orders[i] # NoOrder,
         Become(Apply(CancelChildOrders(CancelOne(Tx, i), TRUE, orders[i], 1)))
  PROVE  IInv' /\ GoodStep
<1> DEFINE one == 1
           s == CancelOne(Tx, i)
           o == orders[i]
           t == ForChildren(s, TRUE, "CANCEL_SINGLE_ACCOUNT_ORDER", o, 0, one)
<1>0. Become(Apply(t))
  BY Zenon DEF CancelChildOrders
<1>1. one = 1 /\ one \in 1 .. 7 /\ s = CancelOne(Tx, i) /\ o = orders[i]
  OBVIOUS
<1>9. t = ForChildren(s, TRUE, "CANCEL_SINGLE_ACCOUNT_ORDER", o, 0, one)
  OBVIOUS
<1>2. /\ setup.max_nonce \in Nat /\ TreesInv(setup, Tx) /\ StateInv(setup, Tx) /\ rs.count = 0
      /\ Tx.rs = rs /\ Tx.new = NoNewInstructions /\ i \in NoncesOf(setup) /\ Tx.orders[i] # NoOrder
      /\ orders \in OrderTree(setup)
  BY SetupFacts, TxFacts DEF IInv
<1>3. o \in OrderSet(setup)
  BY <1>2 DEF OrderTree
<1> HIDE DEF one, s, o, t
<1>4. StateInv(setup, s) /\ Removed(Tx, s, i)
  BY <1>1, <1>2, CancelledIsRemoved
<1>5. SameExposure(Tx, s) /\ s.rs.count = 0 /\ s.new = NoNewInstructions
  BY <1>2, <1>4, RemovedStep
<1>6. NoInserts(s)
  BY <1>5, NothingNew
<1>7. StateInv(setup, t) /\ NoInserts(t) /\ OnlyNew(s, t)
  BY <1>1, <1>2, <1>3, <1>4, <1>6, <1>9, ChildrenCancelled
<1>8. t.rs.count = 0 /\ SameExposure(Tx, t)
  BY <1>5, <1>7 DEF OnlyNew, SameExposure
<1> QED
  BY <1>0, <1>7, <1>8, ApplyStep

(* l2_cancel_order keeps the invariant ...                                 *)
LEMMA L2CancelOrderStep ==
  ASSUME IInv, NEW i \in Nonces, L2CancelOrder(i)
  PROVE  IInv' /\ GoodStep
BY CancelFollowed DEF L2CancelOrder, UserTransaction

(* ... and so does the cancel of an expired order.                         *)
LEMMA InternalCancelExpiredOrderStep ==
  ASSUME IInv, NEW i \in Nonces, InternalCancelExpiredOrder(i)
  PROVE  IInv' /\ GoodStep
BY CancelFollowed DEF InternalCancelExpiredOrder

(* The register of the transaction that executes it is popped.             *)
LEMMA TopIsPopped ==
  ASSUME IInv, NEW reg, reg = Top(Tx), reg # EmptyRegister
  PROVE  LET s == Popped(Tx)
         IN  /\ StateInv(setup, s) /\ SameExposure(Tx, s) /\ s.new.count = 0 /\ s.new = NoNewInstructions
             /\ s.orders = orders /\ s.pos = pos /\ s.acct = acct /\ s.market = market
             /\ reg \in Instructions(setup) /\ RegisterInv(setup, market, orders, reg)
<1> DEFINE s == Popped(Tx)
<1>1. /\ StateInv(setup, Tx) /\ Tx.new = NoNewInstructions /\ Tx.orders = orders /\ Tx.pos = pos
      /\ Tx.acct = acct /\ Tx.market = market
  BY TxFacts
<1>2. /\ reg \in Instructions(setup) /\ RegisterInv(setup, Tx.market, Tx.orders, reg)
      /\ Tx.rs.count # 0
  BY <1>1, TopIsInstruction
<1>3. s = Popped(Tx)
  OBVIOUS
<1> HIDE DEF s
<1>4. /\ StateInv(setup, s) /\ s.rs.count = Tx.rs.count - 1
      /\ \A k \in Slots : k < s.rs.count => k + 1 \in Slots /\ s.rs.stack[k] = Tx.rs.stack[k + 1]
      /\ s.new = Tx.new /\ s.market = Tx.market /\ s.acct = Tx.acct /\ s.pos = Tx.pos
      /\ s.orders = Tx.orders /\ s.book = Tx.book /\ (s.ok => Tx.ok)
  BY <1>1, <1>2, <1>3, PopIsGood
<1>5. s.new.count = 0 /\ SameExposure(Tx, s)
  BY <1>1, <1>4, NothingNew DEF SameExposure
<1> QED
  BY <1>1, <1>2, <1>4, <1>5 DEF s

(* internal_cancel_order for one order, which may be gone by then.         *)
LEMMA InternalCancelSingleOrderStep ==
  ASSUME IInv, InternalCancelSingleOrder
  PROVE  IInv' /\ GoodStep
<1> DEFINE reg == Top(Tx)
           i == reg.index
           s == Popped(Tx)
           condition == orders[i].owner = reg.account /\ orders[i].child0 = NIL /\ orders[i].child1 = NIL
           x == Assert(s, condition)
           t == CancelOne(x, i)
<1>1. /\ reg # EmptyRegister /\ reg.type = "CANCEL_SINGLE_ACCOUNT_ORDER"
      /\ Become(Apply(IF orders[i] = NoOrder THEN s ELSE t))
  BY DEF InternalCancelSingleOrder, TopIs, SingleCancelled, Popped
<1>2. reg = Top(Tx) /\ s = Popped(Tx) /\ x = Assert(s, condition) /\ t = CancelOne(x, i) /\ i = reg.index
  OBVIOUS
<1> HIDE DEF reg, i, s, condition, x, t
<1>3. /\ StateInv(setup, s) /\ SameExposure(Tx, s) /\ s.new.count = 0 /\ s.orders = orders
      /\ RegisterInv(setup, market, orders, reg)
  BY <1>1, <1>2, TopIsPopped
<1>4. i \in NoncesOf(setup) /\ setup.max_nonce \in Nat
  BY <1>1, <1>2, <1>3, SetupFacts DEF RegisterInv, IInv
<1>5. CASE orders[i] = NoOrder
  <2>1. Become(Apply(s))
    BY <1>1, <1>5
  <2> QED
    BY <1>3, <2>1, ApplyStep
<1>6. CASE orders[i] # NoOrder
  <2>1. Become(Apply(t))
    BY <1>1, <1>6
  <2>2. /\ StateInv(setup, x) /\ SameExposure(s, x) /\ x.new = s.new /\ x.orders = s.orders
    BY <1>2, <1>3, <1>4, AssertedIsGood
  <2>3. TreesInv(setup, x) /\ x.orders[i] # NoOrder
    BY <1>3, <1>6, <2>2 DEF StateInv
  <2>4. StateInv(setup, t) /\ Removed(x, t, i)
    BY <1>2, <1>4, <2>2, <2>3, CancelledIsRemoved
  <2>5. t.new.count = 0 /\ SameExposure(Tx, t)
    BY <1>3, <2>2, <2>4 DEF Removed, SameExposure
  <2> QED
    BY <2>1, <2>4, <2>5, ApplyStep
<1> QED
  BY <1>5, <1>6

(* The counted cancels.                                                    *)
LessPending(s, reg) == [s EXCEPT !.rs.stack[0].size = reg.size - 1]

(* One order less is pending for the cancel-all on top.                    *)
LEMMA PendingIsCounted ==
  ASSUME NEW u, u.max_nonce \in Nat, NEW s, StateInv(u, s), NEW reg, reg = Top(s), reg # EmptyRegister,
         reg.type \in CancelAllKinds, NEW t, t = LessPending(s, reg)
  PROVE  /\ StateInv(u, t) /\ SameExposure(s, t) /\ t.rs.count # 0
         /\ t.new = s.new /\ t.orders = s.orders /\ t.market = s.market /\ t.acct = s.acct /\ t.pos = s.pos
<1>1. /\ reg \in Instructions(u) /\ reg \in InstructionRecords
      /\ RegisterInv(u, s.market, s.orders, reg) /\ s.rs.count # 0
  BY TopIsInstruction
<1>2. /\ Typed(s) /\ TreeInv(u, s.market, s.orders) /\ BookInv(u, s.orders, s.book)
      /\ StackInv(u, s.market, s.orders, s.rs) /\ NewInv(u, s.market, s.orders, s.rs, s.new)
  BY DEF StateInv, TreesInv
<1> DEFINE r2 == [reg EXCEPT !.size = reg.size - 1]
           q == [s.rs EXCEPT !.stack = [s.rs.stack EXCEPT ![0] = r2]]
<1>3. /\ r2 \in Instructions(u) /\ r2.type = reg.type /\ r2.account = reg.account
  BY <1>1 DEF Instructions, InstructionRecords
<1>4. ~IsInsert(r2) /\ ~CanTrade(r2)
  BY <1>3 DEF IsInsert, CanTrade, CancelAllKinds
<1>5. RegisterInv(u, s.market, s.orders, r2)
  BY <1>1, <1>3, <1>4 DEF RegisterInv, CancelAllKinds
<1>6. t.rs = q /\ DOMAIN t = TxFields /\ t.new = s.new /\ t.market = s.market /\ t.acct = s.acct
      /\ t.pos = s.pos /\ t.orders = s.orders /\ t.book = s.book /\ t.locked = s.locked /\ t.ok = s.ok
  <2>1. t = [s EXCEPT !.rs = [s.rs EXCEPT !.stack = [s.rs.stack EXCEPT ![0] =
               [s.rs.stack[0] EXCEPT !.size = reg.size - 1]]]]
    BY DEF LessPending
  <2>2. reg = s.rs.stack[0] /\ DOMAIN s = TxFields
    BY <1>2 DEF Top, Typed
  <2>3. t = [s EXCEPT !.rs = q]
    BY <2>1, <2>2
  <2> HIDE DEF q
  <2> QED
    BY <2>2, <2>3 DEF TxFields
<1> HIDE DEF r2
<1>7. StackInv(u, s.market, s.orders, q) /\ q.count = s.rs.count
  BY <1>1, <1>2, <1>3, <1>4, <1>5, TopRewritten
<1> HIDE DEF q
<1>8. NewInv(u, s.market, s.orders, q, s.new)
  BY <1>2, <1>7 DEF NewInv
<1>9. StateInv(u, t)
  BY <1>2, <1>6, <1>7, <1>8 DEF StateInv, TreesInv, Typed
<1> QED
  BY <1>1, <1>6, <1>7, <1>9 DEF SameExposure

(* The last one pops it.                                                   *)
LEMMA PerhapsPopped ==
  ASSUME NEW u, NEW s, StateInv(u, s), s.rs.count # 0, NEW p, p = s \/ p = Popped(s)
  PROVE  StateInv(u, p) /\ SameExposure(s, p) /\ p.new = s.new /\ p.orders = s.orders
<1>1. CASE p = s
  BY <1>1 DEF SameExposure
<1>2. CASE p = Popped(s)
  <2>1. /\ StateInv(u, p) /\ p.rs.count = s.rs.count - 1
        /\ \A k \in Slots : k < p.rs.count => k + 1 \in Slots /\ p.rs.stack[k] = s.rs.stack[k + 1]
        /\ p.new = s.new /\ p.market = s.market /\ p.acct = s.acct /\ p.pos = s.pos
        /\ p.orders = s.orders /\ p.book = s.book /\ (p.ok => s.ok)
    BY <1>2, PopIsGood
  <2> QED
    BY <2>1 DEF SameExposure
<1> QED
  BY <1>1, <1>2

(* internal_cancel_order for a cancel-all keeps the invariant.             *)
LEMMA InternalCancelOneOfAllStep ==
  ASSUME IInv, NEW i \in Nonces, InternalCancelOneOfAll(i)
  PROVE  IInv' /\ GoodStep
<1> DEFINE reg == Top(Tx)
           s == LessPending(Tx, reg)
           p == IF reg.size = 1 THEN Popped(s) ELSE s
           condition == CancelAllTakes(reg, orders[i])
           x == Assert(p, condition)
           t == CancelOne(x, i)
<1>1. reg # EmptyRegister /\ reg.type \in CancelAllKinds /\ orders[i] # NoOrder
  BY DEF InternalCancelOneOfAll, TopIsCancelAll
<1>2. Become(Apply(t))
  <2>1. Pop(s, reg.size = 1) = p
    BY DEF Pop, Popped
  <2> DEFINE y == [Tx EXCEPT !.rs.stack[0].size = @ - 1]
  <2>4. s = y
    BY DEF LessPending, Top
  <2>5. OneOfAllCancelled(i) = Apply(CancelOne(Assert(Pop(y, reg.size = 1), CancelAllTakes(reg, orders[i])), i))
    BY Zenon DEF OneOfAllCancelled
  <2> HIDE DEF y
  <2>2. OneOfAllCancelled(i) = Apply(CancelOne(Assert(Pop(s, reg.size = 1), CancelAllTakes(reg, orders[i])), i))
    BY Zenon, <2>4, <2>5
  <2>3. OneOfAllCancelled(i) = Apply(t)
    BY Zenon, <2>1, <2>2
  <2> QED
    BY <2>3 DEF InternalCancelOneOfAll
<1>3. reg = Top(Tx) /\ s = LessPending(Tx, reg) /\ (p = s \/ p = Popped(s)) /\ x = Assert(p, condition)
      /\ t = CancelOne(x, i)
  OBVIOUS
<1> HIDE DEF reg, s, p, condition, x, t
<1>4. /\ setup.max_nonce \in Nat /\ StateInv(setup, Tx) /\ i \in NoncesOf(setup) /\ Tx.orders = orders
      /\ Tx.new = NoNewInstructions
  BY SetupFacts, TxFacts DEF IInv
<1>5. /\ StateInv(setup, s) /\ SameExposure(Tx, s) /\ s.rs.count # 0 /\ s.new = NoNewInstructions
      /\ s.orders = orders
  BY <1>1, <1>3, <1>4, PendingIsCounted
<1>6. /\ StateInv(setup, p) /\ SameExposure(Tx, p) /\ p.new = NoNewInstructions /\ p.orders = orders
  <2>1. StateInv(setup, p) /\ SameExposure(s, p) /\ p.new = s.new /\ p.orders = s.orders
    BY <1>3, <1>5, PerhapsPopped
  <2> QED
    BY <1>5, <2>1 DEF SameExposure
<1>7. /\ StateInv(setup, x) /\ SameExposure(p, x) /\ x.new = p.new /\ x.orders = p.orders
  BY <1>3, <1>4, <1>6, AssertedIsGood
<1>8. TreesInv(setup, x) /\ x.orders[i] # NoOrder
  BY <1>1, <1>6, <1>7 DEF StateInv
<1>9. StateInv(setup, t) /\ Removed(x, t, i)
  BY <1>3, <1>4, <1>7, <1>8, CancelledIsRemoved
<1>10. t.new.count = 0 /\ SameExposure(Tx, t)
  BY <1>6, <1>7, <1>9, NothingNew DEF Removed, SameExposure
<1> QED
  BY <1>2, <1>9, <1>10, ApplyStep

(* The cancels of all orders.                                              *)
SwitchSet(s, a, time)        == [s EXCEPT !.acct[a].cancel_all_time = time]
CountedPut(s, kind, a, n)    == Put(s, TRUE, Instruction(kind, a, n, NIL), 0)

(* The dead man's switch of an account is set.                             *)
LEMMA SwitchIsSet ==
  ASSUME NEW u, u.max_nonce \in Nat, NEW s, StateInv(u, s), NEW a \in Accounts, NEW time \in Nat,
         NEW t, t = SwitchSet(s, a, time)
  PROVE  /\ StateInv(u, t) /\ SameExposure(s, t) /\ t.rs = s.rs /\ t.new = s.new
         /\ t.pos = s.pos /\ t.orders = s.orders
         /\ t.acct[a].total_order_count = s.acct[a].total_order_count
<1>1. /\ Typed(s) /\ TreesInv(u, s) /\ s.market \in MarketSet(u)
  BY DEF StateInv, TreesInv, TreeInv
<1> DEFINE x == [s.acct[a] EXCEPT !.cancel_all_time = time]
<1>2. t = [s EXCEPT !.acct = [s.acct EXCEPT ![a] = x]]
  BY DEF SwitchSet
<1>3. s.acct \in AcctTree /\ x.total_order_count = s.acct[a].total_order_count
      /\ [s.acct EXCEPT ![a] = x] \in AcctTree
  BY <1>1 DEF Typed, AcctTree
<1> HIDE DEF x
<1>4. /\ t.rs = s.rs /\ t.new = s.new /\ t.market = s.market
      /\ t.acct = [s.acct EXCEPT ![a] = x] /\ t.pos = s.pos
      /\ t.orders = s.orders /\ t.book = s.book /\ t.locked = s.locked /\ t.ok = s.ok
      /\ DOMAIN t = TxFields
  BY <1>1, <1>2 DEF Typed, TxFields
<1>5. StateInv(u, t)
  BY <1>1, <1>3, <1>4 DEF StateInv, TreesInv, Typed
<1>6. t.acct[a] = x
  BY <1>3, <1>4 DEF AcctTree
<1> QED
  BY <1>3, <1>4, <1>5, <1>6 DEF SameExposure

(* A cancel-all that counts its orders is put aside, if there are any.     *)
LEMMA CountedIsPut ==
  ASSUME NEW u, u.max_nonce \in Nat, NEW s, StateInv(u, s), NoInserts(s), NEW kind \in CancelAllKinds,
         NEW a \in Accounts, NEW n \in Int, NEW t, t = s \/ t = CountedPut(s, kind, a, n)
  PROVE  StateInv(u, t) /\ SameExposure(s, t) /\ t.rs = s.rs
<1> DEFINE reg == Instruction(kind, a, n, NIL)
           zero == 0
<1>1. Plain(u, reg) /\ zero \in NewSlots
  BY PlainInstruction DEF NewSlots, NEW_INSTRUCTIONS_MAX_SIZE
<1>2. t = s \/ t = Put(s, TRUE, reg, zero)
  BY DEF CountedPut
<1> HIDE DEF reg, zero
<1>3. StateInv(u, t) /\ NoInserts(t) /\ OnlyNew(s, t)
  BY <1>1, <1>2, PlainPut
<1> QED
  BY <1>3 DEF OnlyNew, SameExposure

(* A transaction that only does that keeps the invariant.                  *)
LEMMA CountedStep ==
  ASSUME IInv, rs.count = 0, NEW s, StateInv(setup, s), SameExposure(Tx, s), s.rs = rs,
         s.new = NoNewInstructions, NEW kind \in CancelAllKinds, NEW a \in Accounts, NEW n \in Int,
         NEW t, t = s \/ t = CountedPut(s, kind, a, n), Become(Apply(t))
  PROVE  IInv' /\ GoodStep
<1>1. NoInserts(s) /\ setup.max_nonce \in Nat
  BY NothingNew, SetupFacts DEF IInv
<1>2. StateInv(setup, t) /\ SameExposure(s, t) /\ t.rs = s.rs
  BY <1>1, CountedIsPut
<1>3. SameExposure(Tx, t) /\ t.rs.count = 0
  BY <1>2 DEF SameExposure
<1> QED
  BY <1>2, <1>3, ApplyStep

(* The cancel of all orders of an account keeps it.                        *)
LEMMA CancelAllStep ==
  ASSUME IInv, IsEmpty(rs), NEW a \in Accounts, Become(Apply(CancelAll(Tx, a)))
  PROVE  IInv' /\ GoodStep
<1> DEFINE nil == NIL
           s == SwitchSet(Tx, a, nil)
           n == acct[a].total_order_count
           kind == "CANCEL_ALL_ACCOUNT_ORDERS"
           t == IF n # 0 THEN CountedPut(s, kind, a, n) ELSE s
<1>1. /\ setup.max_nonce \in Nat /\ StateInv(setup, Tx) /\ Typed(Tx) /\ Tx.acct = acct /\ rs.count = 0
      /\ Tx.rs = rs /\ Tx.new = NoNewInstructions
  BY SetupFacts, TxFacts DEF IInv
<1>2. n \in Int /\ kind \in CancelAllKinds /\ nil \in Nat /\ s = SwitchSet(Tx, a, nil)
  BY <1>1 DEF Typed, AcctTree, CancelAllKinds, NIL
<1>3. CancelAll(Tx, a) = t
  BY <1>1 DEF CancelAll, SwitchSet, CountedPut, Put
<1> HIDE DEF nil, s, n, kind
<1>4. t = s \/ t = CountedPut(s, kind, a, n)
  OBVIOUS
<1> HIDE DEF t
<1>5. /\ StateInv(setup, s) /\ SameExposure(Tx, s) /\ s.rs = rs /\ s.new = NoNewInstructions
  BY <1>1, <1>2, SwitchIsSet
<1>6. Become(Apply(t))
  BY <1>3
<1> QED
  BY <1>1, <1>2, <1>4, <1>5, <1>6, CountedStep

(* The counts of the margin modes and of the market.                       *)
LEMMA PlainTxStep ==
  ASSUME IInv, IsEmpty(rs), NEW kind \in CancelAllKinds, NEW a \in Accounts, NEW n \in Int,
         NEW t, t = Tx \/ t = CountedPut(Tx, kind, a, n), Become(Apply(t))
  PROVE  IInv' /\ GoodStep
<1> DEFINE s == Tx
<1>1. /\ StateInv(setup, s) /\ rs.count = 0 /\ s.rs = rs /\ s.new = NoNewInstructions
      /\ SameExposure(Tx, s) /\ (t = s \/ t = CountedPut(s, kind, a, n))
  BY TxFacts DEF SameExposure
<1> HIDE DEF s
<1> QED
  BY <1>1, CountedStep

(* What may be asked of l2_cancel_all_orders.                              *)
LEMMA CancelKinds ==
  ASSUME SetupInv
  PROVE  CancelAllRequests \subseteq {"IMMEDIATE", "SCHEDULED", "ABORT", "MARKET"}
BY RequestsAssumption DEF SetupInv, CancelAllRequests

(* Setting the switch keeps the invariant.                                 *)
LEMMA SwitchStep ==
  ASSUME IInv, IsEmpty(rs), NEW a \in Accounts, NEW time \in Nat, NEW t, t = SwitchSet(Tx, a, time),
         Become(Apply(t))
  PROVE  IInv' /\ GoodStep
<1> DEFINE s == Tx
<1>1. /\ setup.max_nonce \in Nat /\ StateInv(setup, s) /\ s.rs.count = 0 /\ t = SwitchSet(s, a, time)
      /\ s = Tx
  BY SetupFacts, TxFacts DEF IInv
<1> HIDE DEF s
<1>2. StateInv(setup, t) /\ SameExposure(s, t) /\ t.rs = s.rs
  BY <1>1, SwitchIsSet
<1> QED
  BY <1>1, <1>2, ApplyStep

(* l2_cancel_all_orders keeps it in every mode.                            *)
LEMMA L2CancelAllOrdersStep ==
  ASSUME IInv, NEW a \in Accounts, NEW kind \in CancelAllRequests, NEW time \in 0 .. MaxTime,
         L2CancelAllOrders(a, kind, time)
  PROVE  IInv' /\ GoodStep
<1> DEFINE t == CASE kind = "IMMEDIATE" -> CancelAll(Tx, a)
                  [] kind = "SCHEDULED" -> SwitchSet(Tx, a, time)
                  [] kind = "ABORT"     -> SwitchSet(Tx, a, NIL)
                  [] kind = "MARKET"    -> CancelAllMarket(Tx, a)
<1>1. IsEmpty(rs) /\ Become(Apply(t))
  BY DEF L2CancelAllOrders, UserTransaction, SwitchSet
<1>2. kind \in {"IMMEDIATE", "SCHEDULED", "ABORT", "MARKET"} /\ time \in Nat
  BY CancelKinds, SetupFacts DEF IInv
<1>3. CASE kind = "IMMEDIATE"
  <2>1. t = CancelAll(Tx, a)
    BY <1>3
  <2> QED
    BY <1>1, <2>1, CancelAllStep
<1>4. CASE kind = "SCHEDULED"
  <2>1. t = SwitchSet(Tx, a, time)
    BY <1>4
  <2> HIDE DEF t
  <2> QED
    BY <1>1, <1>2, <2>1, SwitchStep
<1>5. CASE kind = "ABORT"
  <2> DEFINE nil == NIL
  <2>1. t = SwitchSet(Tx, a, nil) /\ nil \in Nat
    BY <1>5 DEF NIL
  <2> HIDE DEF t, nil
  <2> QED
    BY <1>1, <2>1, SwitchStep
<1>6. CASE kind = "MARKET"
  <2> DEFINE type == "CANCEL_ALL_MARKET_ACCOUNT_ORDERS"
             n == pos[a].total_order_count
  <2>1. t = CancelAllMarket(Tx, a)
    BY <1>6
  <2> HIDE DEF t
  <2>2. t = Tx \/ t = CountedPut(Tx, type, a, n)
    BY <2>1, TxFacts DEF CancelAllMarket, CountedPut, Put
  <2>3. type \in CancelAllKinds /\ n \in Int
    BY TxFacts DEF CancelAllKinds, PosTree, PosSet
  <2> HIDE DEF type, n
  <2> QED
    BY <1>1, <2>2, <2>3, PlainTxStep
<1> QED
  BY <1>2, <1>3, <1>4, <1>5, <1>6

(* So do the cancel-all of L1 and that of a switch that is due ...         *)
LEMMA OtherCancelAllSteps ==
  ASSUME IInv, NEW a \in Accounts, L1CancelAllOrders(a) \/ InternalCancelAllDms(a)
  PROVE  IInv' /\ GoodStep
BY CancelAllStep DEF L1CancelAllOrders, InternalCancelAllDms, UserTransaction

(* ... and that of a liquidation.                                          *)
LEMMA InternalCancelAllLiquidationStep ==
  ASSUME IInv, NEW a \in Accounts, InternalCancelAllLiquidation(a)
  PROVE  IInv' /\ GoodStep
<1>1. /\ IsEmpty(rs)
      /\ Become(Apply(IF pos[a].isolated THEN CancelAllIsolated(Tx, a) ELSE CancelAllCross(Tx, a)))
  BY DEF InternalCancelAllLiquidation
<1>2. Tx.pos = pos /\ Tx.acct = acct /\ pos \in PosTree /\ acct \in AcctTree
  BY TxFacts DEF Typed
<1>3. CASE pos[a].isolated
  <2> DEFINE type == "CANCEL_ALL_ISOLATED_MARGIN_ORDERS"
             n == pos[a].total_order_count
             t == CancelAllIsolated(Tx, a)
  <2>1. t = Tx \/ t = CountedPut(Tx, type, a, n)
    BY <1>2 DEF CancelAllIsolated, CountedPut, Put
  <2>2. type \in CancelAllKinds /\ n \in Int /\ Become(Apply(t))
    BY <1>1, <1>2, <1>3 DEF CancelAllKinds, PosTree, PosSet
  <2> HIDE DEF type, n, t
  <2> QED
    BY <1>1, <2>1, <2>2, PlainTxStep
<1>4. CASE ~pos[a].isolated
  <2> DEFINE all  == acct[a].total_order_count
             n    == IF a \in Unified THEN all ELSE all - acct[a].total_non_cross_order_count
             type == IF a \in Unified THEN "CANCEL_ALL_ACCOUNT_ORDERS" ELSE "CANCEL_ALL_CROSS_MARGIN_ORDERS"
             t    == CancelAllCross(Tx, a)
  <2>1. t = Tx \/ t = CountedPut(Tx, type, a, n)
    BY <1>2 DEF CancelAllCross, CountedPut, Put
  <2>2. type \in CancelAllKinds /\ n \in Int
    BY <1>2 DEF CancelAllKinds, AcctTree
  <2>3. Become(Apply(t))
    BY <1>1, <1>4
  <2> HIDE DEF type, n, t
  <2> QED
    BY <1>1, <2>1, <2>2, <2>3, PlainTxStep
<1> QED
  BY <1>3, <1>4

(* The fee, the margin mode, the clock and the oracle.                     *)
LEMMA InternalTransferStep ==
  ASSUME IInv, InternalTransfer
  PROVE  IInv' /\ GoodStep
<1> DEFINE reg == Top(Tx)
           s == Popped(Tx)
<1>1. reg # EmptyRegister /\ Become(Apply(s)) /\ reg = Top(Tx) /\ s = Popped(Tx)
  BY DEF InternalTransfer, TopIs, Popped
<1> HIDE DEF reg, s
<1>2. StateInv(setup, s) /\ SameExposure(Tx, s) /\ s.new.count = 0
  BY <1>1, TopIsPopped
<1> QED
  BY <1>1, <1>2, ApplyStep

(* The clock moves nothing.                                                *)
LEMMA TickStep ==
  ASSUME IInv, Tick
  PROVE  IInv' /\ GoodStep
<1>1. Tx' = Tx
  BY DEF Tick, Tx
<1> QED
  BY <1>1 DEF Tick, IInv, SetupInv, OpenInterestFits, MARKET_OPEN_INTEREST_NOTIONAL, GoodStep, SamePositions

(* A new mark price keeps the notional of the open interest in bounds.     *)
LEMMA UpdateMarkPriceStep ==
  ASSUME IInv, NEW price \in MarkPrices, UpdateMarkPrice(price)
  PROVE  IInv' /\ GoodStep
<1>1. Tx' = Tx /\ UNCHANGED <<setup, now, pos, market>> /\ mark' = price
  BY DEF UpdateMarkPrice, Tx
<1>2. price \in Nat \ {0} /\ setup.open_interest_notional \in Nat /\ market.open_interest \in Int
  BY SetupFacts, TxFacts DEF IInv, MarketSet
<1> DEFINE oi == market.open_interest
           limit == setup.open_interest_notional
<1>3. oi # 0 => price <= limit \div oi
  BY DEF UpdateMarkPrice, MarkPriceAllowed, MARKET_OPEN_INTEREST_NOTIONAL
<1>4. limit \in Nat /\ oi \in Int
  BY <1>2
<1> HIDE DEF oi, limit
<1>5. oi * price <= limit
  <2>1. CASE oi = 0
    BY <1>2, <1>4, <2>1
  <2>2. CASE oi < 0
    <3> DEFINE x == -oi
    <3>1. x \in Nat /\ oi * price = -(x * price) /\ x * price \in Nat
      BY <1>2, <1>4, <2>2
    <3> HIDE DEF x
    <3> QED
      BY <1>2, <1>4, <3>1
  <2>3. CASE oi > 0
    <3>1. oi \in Nat /\ oi # 0
      BY <1>4, <2>3
    <3> DEFINE k == limit \div oi
    <3>2. k \in Nat /\ oi * k <= limit /\ price <= k
      BY <1>3, <1>4, <3>1, Quotient
    <3> HIDE DEF k
    <3>3. price \in Nat /\ oi * price \in Nat /\ oi * price <= oi * k
      BY <1>2, <3>1, <3>2, ProductBound
    <3>4. oi * k \in Nat
      BY <3>1, <3>2
    <3> QED
      BY <1>4, <3>2, <3>3, <3>4
  <2> QED
    BY <1>4, <2>1, <2>2, <2>3
<1>6. OpenInterestFits'
  BY <1>1, <1>5 DEF OpenInterestFits, MARKET_OPEN_INTEREST_NOTIONAL, oi, limit
<1> QED
  BY <1>1, <1>2, <1>6 DEF IInv, SetupInv, GoodStep, SamePositions

(* A change of the margin mode moves no position.                          *)
LEMMA L2UpdateLeverageStep ==
  ASSUME IInv, NEW a \in Accounts, NEW isolated \in BOOLEAN, L2UpdateLeverage(a, isolated)
  PROVE  IInv' /\ GoodStep
<1> DEFINE q == [[pos[a] EXCEPT !.isolated = isolated] EXCEPT !.margin_set = TRUE]
           t == [Tx EXCEPT !.pos = [Tx.pos EXCEPT ![a] = q]]
<1>1. /\ setup.max_nonce \in Nat /\ StateInv(setup, Tx) /\ TreesInv(setup, Tx) /\ Typed(Tx)
      /\ Tx.market \in MarketSet(setup) /\ Tx.pos = pos /\ pos \in PosTree
      /\ Tx.new = NoNewInstructions /\ Tx.market = market
  BY SetupFacts, TxFacts DEF IInv
<1>2. q \in PosSet /\ q.position = Tx.pos[a].position
  BY <1>1 DEF PosTree, PosSet
<1>3. Become(t)
  <2>1. t = [Tx EXCEPT !.pos[a].isolated = isolated, !.pos[a].margin_set = TRUE]
    BY <1>1 DEF PosTree, Tx
  <2> HIDE DEF t
  <2> QED
    BY <2>1 DEF L2UpdateLeverage
<1> HIDE DEF q
<1>4. t = [Tx EXCEPT !.pos = [Tx.pos EXCEPT ![a] = q]]
  OBVIOUS
<1>5. Bookkept(setup, Tx, t)
  BY <1>1, <1>2, PositionIsKept
<1> HIDE DEF t
<1>6. StateInv(setup, t) /\ SameExposure(Tx, t) /\ t.new = NoNewInstructions
  BY <1>1, <1>5, KeptIsGood DEF Bookkept, SameExposure
<1>7. Room(t)
  BY <1>6, NothingNew DEF Room
<1>8. /\ StateInv(setup', Tx') /\ t.ok /\ UNCHANGED <<setup, now, mark>>
      /\ market' = t.market /\ acct' = t.acct /\ pos' = t.pos /\ orders' = t.orders
      /\ book' = t.book /\ locked' = t.locked
  BY <1>3, <1>6, <1>7, BecomeIsGood
<1>9. SamePositions /\ OpenInterestFits'
  BY <1>1, <1>6, <1>8
     DEF SameExposure, SamePositions, IInv, OpenInterestFits, MARKET_OPEN_INTEREST_NOTIONAL
<1> QED
  BY <1>8, <1>9 DEF IInv, SetupInv, GoodStep

(* What has been asserted holds.                                           *)
LEMMA BecomeIsOk ==
  ASSUME NEW t, DOMAIN t = TxFields, t.ok \in BOOLEAN, Become(Apply(t))
  PROVE  t.ok
<1>1. Done(Apply(t)).ok => t.ok
  BY DEF Done, Apply, PushInstructionStack, Assert, TxFields
<1>2. Become(Apply(t)) => Done(Apply(t)).ok
  BY DEF Become
<1> QED
  BY <1>1, <1>2

TiedCounted(s, a, n) == [s EXCEPT !.pos[a].total_position_tied_order_count = @ + n]

(* The count of position tied orders is bookkeeping.                       *)
LEMMA TiedIsCounted ==
  ASSUME NEW u, u.max_nonce \in Nat, NEW s, Typed(s), s.market \in MarketSet(u),
         NEW a \in Accounts, NEW n \in Int, NEW t, t = TiedCounted(s, a, n)
  PROVE  Bookkept(u, s, t)
<1> DEFINE q == [s.pos[a] EXCEPT !.total_position_tied_order_count =
                   s.pos[a].total_position_tied_order_count + n]
<1>1. q \in PosSet /\ q.position = s.pos[a].position
  BY DEF Typed, PosTree, PosSet
<1>2. t = [s EXCEPT !.pos = [s.pos EXCEPT ![a] = q]]
  BY DEF TiedCounted
<1> HIDE DEF q
<1> QED
  BY <1>1, <1>2, PositionIsKept

ChildActive(o, size) == [o EXCEPT !.trigger_status = "MARK_PRICE", !.initial = size, !.remaining = size]

(* A child that is triggered becomes an order that waits for its price.    *)
LEMMA ChildIsOrder ==
  ASSUME NEW u, u.max_nonce \in Nat, NEW o \in OrderSet(u), o.trigger_status # "NA", NEW n \in Nat,
         NEW x, x = ChildActive(o, n)
  PROVE  x \in OrderSet(u) /\ x.trigger_status = "MARK_PRICE" /\ x.owner = o.owner
<1>1. o \in OrderRecords /\ o.nonce = 0 /\ InRange(u, o)
  BY OrderFacts DEF OrderSet
<1>2. /\ x.nonce = o.nonce /\ x.child0 = o.child0 /\ x.child1 = o.child1
      /\ x.cancel0 = o.cancel0 /\ x.remaining = n /\ x.initial = n /\ x.trigger_status = "MARK_PRICE"
      /\ x.owner = o.owner
  BY <1>1 DEF ChildActive, OrderRecords
<1>3. x \in OrderRecords
  <2> DEFINE watching == "MARK_PRICE"
  <2>1. n \in Int /\ watching \in TriggerStatuses
    BY DEF TriggerStatuses
  <2>2. x = [o EXCEPT !.trigger_status = watching, !.initial = n, !.remaining = n]
    BY DEF ChildActive
  <2> HIDE DEF watching
  <2> QED
    BY <1>1, <2>1, <2>2 DEF OrderRecords
<1> QED
  BY <1>1, <1>2, <1>3 DEF OrderSet, SizedOrder, InRange, NIL

(* The trigger of a child, which may be gone by then, keeps the            *)
(* invariant.                                                              *)
LEMMA InternalTriggerChildOrderStep ==
  ASSUME IInv, InternalTriggerChildOrder
  PROVE  IInv' /\ GoodStep
<1> DEFINE reg == Top(Tx)
           i == reg.index
           o == orders[i]
           p == Popped(Tx)
           condition == /\ ~BookFull(Tx) /\ ~Spot
                        /\ o # NoOrder => o.owner = reg.account /\ o.trigger_status = "PARENT_ORDER"
           s == Assert(p, condition)
           n == reg.size
           m == B2N(o.reduce_only)
           x == WithOrder(s, i, ChildActive(o, n))
           t == TiedCounted(x, o.owner, m)
<1>1. /\ reg # EmptyRegister /\ reg.type = "TRIGGER_CHILD_ORDER"
      /\ Become(Apply(IF o = NoOrder THEN s ELSE IF MustCancel(o) THEN Dropped(s, i) ELSE t))
  <2>1. reg # EmptyRegister /\ reg.type = "TRIGGER_CHILD_ORDER" /\ Become(ChildTriggered)
    BY DEF InternalTriggerChildOrder, TopIs
  <2>2. t = [s EXCEPT !.orders[i] = ChildActive(o, n),
                      !.pos[o.owner].total_position_tied_order_count = @ + m]
    BY DEF TiedCounted, WithOrder
  <2> HIDE DEF t
  <2>3. ChildTriggered = Apply(IF o = NoOrder THEN s ELSE IF MustCancel(o) THEN Dropped(s, i) ELSE t)
    BY Zenon, <2>2 DEF ChildTriggered, Popped, ChildActive
  <2> QED
    BY <2>1, <2>3
<1>2. /\ reg = Top(Tx) /\ p = Popped(Tx) /\ s = Assert(p, condition) /\ i = reg.index /\ o = orders[i]
      /\ x = WithOrder(s, i, ChildActive(o, n)) /\ t = TiedCounted(x, o.owner, m) /\ n = reg.size
  OBVIOUS
<1>3. o.reduce_only \in BOOLEAN => m \in Int
  BY DEF B2N
<1>4. condition => (o # NoOrder => o.trigger_status = "PARENT_ORDER")
  OBVIOUS
<1> HIDE DEF reg, i, o, p, condition, s, n, m, x, t
<1>5. /\ StateInv(setup, p) /\ SameExposure(Tx, p) /\ p.new.count = 0 /\ p.orders = orders
      /\ RegisterInv(setup, market, orders, reg) /\ p.market = market
  BY <1>1, <1>2, TopIsPopped
<1>6. /\ i \in NoncesOf(setup) /\ n \in Nat /\ setup.max_nonce \in Nat /\ orders \in OrderTree(setup)
  BY <1>1, <1>2, <1>5, SetupFacts, TxFacts DEF RegisterInv, IInv
<1>7. /\ StateInv(setup, s) /\ SameExposure(p, s) /\ s.new = p.new /\ s.orders = p.orders
      /\ s.market = p.market
  BY <1>2, <1>5, <1>6, AssertedIsGood
<1>8. Typed(s) /\ TreesInv(setup, s) /\ s.market \in MarketSet(setup) /\ TreeInv(setup, s.market, s.orders)
  BY <1>7 DEF StateInv, TreesInv, TreeInv
<1>9. s.ok => condition
  <2>1. Typed(p) /\ p.market \in MarketSet(setup)
    BY <1>5 DEF StateInv, TreesInv, TreeInv
  <2> QED
    BY <1>2, <2>1, AssertIsKept
<1>10. SameExposure(Tx, s) /\ s.new.count = 0
  BY <1>5, <1>7 DEF SameExposure
<1>11. CASE o = NoOrder
  <2>1. Become(Apply(s))
    BY <1>1, <1>11
  <2> QED
    BY <1>7, <1>10, <2>1, ApplyStep
<1>12. CASE o # NoOrder /\ MustCancel(o)
  <2> DEFINE y == Dropped(s, i)
  <2>1. Become(Apply(y)) /\ y = Dropped(s, i)
    BY <1>1, <1>12
  <2> HIDE DEF y
  <2>2. s.orders[i] # NoOrder
    BY <1>2, <1>5, <1>7, <1>12
  <2>3. StateInv(setup, y) /\ Removed(s, y, i)
    BY <1>6, <1>7, <1>8, <2>1, <2>2, DroppedIsRemoved
  <2>4. SameExposure(Tx, y) /\ y.new.count = 0
    BY <1>10, <2>3 DEF Removed, SameExposure
  <2> QED
    BY <2>1, <2>3, <2>4, ApplyStep
<1>13. CASE o # NoOrder /\ ~MustCancel(o)
  <2>1. Become(Apply(t))
    BY <1>1, <1>13
  <2>2. t.ok = s.ok /\ DOMAIN t = TxFields
    BY <1>2, <1>8 DEF TiedCounted, WithOrder, Typed, TxFields
  <2>3. s.ok
    BY <1>8, <2>1, <2>2, BecomeIsOk DEF Typed
  <2>4. o.trigger_status = "PARENT_ORDER"
    BY <1>4, <1>9, <1>13, <2>3
  <2>5. o \in OrderSet(setup) /\ s.orders[i] = o
    BY <1>2, <1>5, <1>6, <1>7, <1>13 DEF OrderTree
  <2> DEFINE active == ChildActive(o, n)
  <2>6. active = ChildActive(o, n) /\ x = WithOrder(s, i, active)
    BY <1>2
  <2> HIDE DEF active
  <2>7. active \in OrderSet(setup) /\ active.trigger_status # "NA"
    BY <1>6, <2>4, <2>5, <2>6, ChildIsOrder
  <2>8. IndexTaken(setup, s.market, i) /\ ~Active(s.orders, i) /\ s.orders[i] # NoOrder
    BY <1>6, <1>8, <1>13, <2>4, <2>5 DEF TreeInv, Active
  <2>9. StateInv(setup, x) /\ SameExposure(s, x) /\ x.rs = s.rs /\ x.new = s.new
    BY <1>6, <1>7, <2>6, <2>7, <2>8, PendingIsSet
  <2>10. Typed(x) /\ x.market \in MarketSet(setup) /\ TreesInv(setup, x)
    BY <2>9 DEF StateInv, TreesInv, TreeInv
  <2>11. o.owner \in Accounts /\ m \in Int
    BY <1>3, <2>5, OrderFacts
  <2>12. Bookkept(setup, x, t)
    BY <1>2, <1>6, <2>10, <2>11, TiedIsCounted
  <2>13. StateInv(setup, t)
    BY <1>6, <2>9, <2>10, <2>12, KeptIsGood
  <2>14. SameExposure(Tx, t) /\ t.new.count = 0
    BY <1>10, <2>9, <2>12 DEF Bookkept, SameExposure
  <2> QED
    BY <2>1, <2>13, <2>14, ApplyStep
<1> QED
  BY <1>11, <1>12, <1>13

(* Orders that are derived from others.                                    *)
SliceOf(o, base, price, n) ==
  [o EXCEPT !.price = price, !.nonce = n, !.type = "TWAP_SUB", !.tif = "IOC",
            !.initial = base, !.remaining = base, !.expiry = NIL,
            !.trigger_price = NIL, !.trigger_status = "NA"]

ActiveOf(o, base, n) ==
  [o EXCEPT !.nonce = n, !.initial = base, !.remaining = base, !.trigger_status = "NA"]

IsSlice(u, x, o, base, price, n) ==
  /\ u.max_nonce \in Nat /\ o \in OrderSet(u) /\ base \in Nat /\ price \in Nat
  /\ n \in 0 .. u.max_nonce /\ x = SliceOf(o, base, price, n)

(* A slice of a TWAP order.                                                *)
LEMMA SliceOfIsOrder ==
  ASSUME NEW u, NEW x, NEW o, NEW base, NEW price, NEW n, IsSlice(u, x, o, base, price, n)
  PROVE  x \in OrderSet(u) /\ x.trigger_status = "NA" /\ x.nonce = n /\ x.is_ask = o.is_ask
<1>0. /\ u.max_nonce \in Nat /\ o \in OrderSet(u) /\ base \in Nat /\ price \in Nat
      /\ n \in 0 .. u.max_nonce /\ x = SliceOf(o, base, price, n)
  BY DEF IsSlice
<1>1. o \in OrderRecords /\ InRange(u, o) /\ n \in Nat
  BY <1>0 DEF OrderSet
<1>2. /\ x.nonce = n /\ x.child0 = o.child0 /\ x.child1 = o.child1 /\ x.cancel0 = o.cancel0
      /\ x.remaining = base /\ x.initial = base /\ x.trigger_status = "NA" /\ x.is_ask = o.is_ask
  BY <1>0, <1>1 DEF SliceOf, OrderRecords
<1>3. x \in OrderRecords
  <2> DEFINE type == "TWAP_SUB"
             tif == "IOC"
             nil == NIL
             status == "NA"
             y == [o EXCEPT !.price = price, !.type = type, !.tif = tif, !.expiry = nil, !.trigger_price = nil]
  <2>1. type \in OrderTypes /\ tif \in TimesInForce /\ nil \in Nat /\ status \in TriggerStatuses
        /\ base \in Int
    BY <1>0 DEF OrderTypes, TimesInForce, TriggerStatuses, NIL
  <2>2. x = [y EXCEPT !.nonce = n, !.initial = base, !.remaining = base, !.trigger_status = status]
    BY <1>0, <1>1 DEF SliceOf, OrderRecords
  <2> HIDE DEF type, tif, nil, status
  <2>3. y \in OrderRecords
    BY <1>0, <1>1, <2>1 DEF OrderRecords
  <2> HIDE DEF y
  <2> QED
    BY <1>0, <1>1, <2>1, <2>2, <2>3 DEF OrderRecords
<1> QED
  BY <1>0, <1>1, <1>2, <1>3 DEF OrderSet, SizedOrder, InRange, NIL

IsActiveOf(u, x, o, base, n) ==
  /\ u.max_nonce \in Nat /\ o \in OrderSet(u) /\ base \in Nat
  /\ n \in 0 .. u.max_nonce /\ x = ActiveOf(o, base, n)

(* A triggered order, now active.                                          *)
LEMMA ActiveIsOrder ==
  ASSUME NEW u, NEW x, NEW o, NEW base, NEW n, IsActiveOf(u, x, o, base, n)
  PROVE  x \in OrderSet(u) /\ x.trigger_status = "NA" /\ x.nonce = n /\ x.is_ask = o.is_ask
         /\ x.owner = o.owner /\ x.cancel0 = o.cancel0
<1>0. /\ u.max_nonce \in Nat /\ o \in OrderSet(u) /\ base \in Nat
      /\ n \in 0 .. u.max_nonce /\ x = ActiveOf(o, base, n)
  BY DEF IsActiveOf
<1>1. o \in OrderRecords /\ InRange(u, o) /\ n \in Nat
  BY <1>0 DEF OrderSet
<1>2. /\ x.nonce = n /\ x.child0 = o.child0 /\ x.child1 = o.child1 /\ x.cancel0 = o.cancel0
      /\ x.remaining = base /\ x.initial = base /\ x.trigger_status = "NA" /\ x.is_ask = o.is_ask
      /\ x.owner = o.owner
  BY <1>0, <1>1 DEF ActiveOf, OrderRecords
<1>3. x \in OrderRecords
  <2> DEFINE status == "NA"
  <2>1. base \in Int /\ status \in TriggerStatuses
    BY <1>0 DEF TriggerStatuses
  <2>2. x = [o EXCEPT !.nonce = n, !.initial = base, !.remaining = base, !.trigger_status = status]
    BY <1>0 DEF ActiveOf
  <2> HIDE DEF status
  <2> QED
    BY <1>0, <1>1, <2>1, <2>2 DEF OrderRecords
<1> QED
  BY <1>0, <1>1, <1>2, <1>3 DEF OrderSet, SizedOrder, InRange, NIL

ChangedOf(o, r) ==
  [o EXCEPT !.price = r.price, !.trigger_price = r.trigger_price,
            !.initial = IF r.base = 0 THEN o.initial ELSE r.base,
            !.remaining = IF r.base = 0 THEN o.remaining ELSE r.base - (o.initial - o.remaining),
            !.stp = r.stp, !.by_master = r.by_master, !.integrator = r.integrator]

IsChangedOf(u, x, o, r) ==
  /\ u.max_nonce \in Nat /\ o \in OrderSet(u) /\ r \in Modifications /\ x = ChangedOf(o, r)
  /\ r.base # 0 => r.base > o.initial - o.remaining

(* A modified order.                                                       *)
LEMMA ChangedIsOrder ==
  ASSUME NEW u, NEW x, NEW o, NEW r, IsChangedOf(u, x, o, r)
  PROVE  /\ x \in OrderSet(u) /\ x.owner = o.owner /\ x.is_ask = o.is_ask /\ x.nonce = o.nonce
         /\ x.trigger_status = o.trigger_status
<1>0. /\ u.max_nonce \in Nat /\ o \in OrderSet(u) /\ r \in Modifications /\ x = ChangedOf(o, r)
      /\ r.base # 0 => r.base > o.initial - o.remaining
  BY DEF IsChangedOf
<1>1. o \in OrderRecords /\ InRange(u, o) /\ SizedOrder(o) /\ o.remaining \in Int /\ o.initial \in Nat
  BY <1>0, OrderFacts DEF OrderSet
<1>2. /\ r.price \in Nat /\ r.base \in Nat /\ r.trigger_price \in Nat /\ r.stp \in SelfTradeModes
      /\ r.by_master \in BOOLEAN /\ r.integrator \in BOOLEAN
  BY <1>0 DEF Modifications
<1> DEFINE initial == IF r.base = 0 THEN o.initial ELSE r.base
           remaining == IF r.base = 0 THEN o.remaining ELSE r.base - (o.initial - o.remaining)
<1>3. initial \in Nat /\ remaining \in Int /\ remaining <= initial
      /\ (o.remaining >= 0 => remaining >= 0)
  BY <1>0, <1>1, <1>2 DEF SizedOrder
<1>4. x = [o EXCEPT !.price = r.price, !.trigger_price = r.trigger_price,
                    !.initial = initial, !.remaining = remaining,
                    !.stp = r.stp, !.by_master = r.by_master, !.integrator = r.integrator]
  BY <1>0 DEF ChangedOf
<1> HIDE DEF initial, remaining
<1>5. /\ x.nonce = o.nonce /\ x.child0 = o.child0 /\ x.child1 = o.child1 /\ x.cancel0 = o.cancel0
      /\ x.remaining = remaining /\ x.initial = initial /\ x.trigger_status = o.trigger_status
      /\ x.is_ask = o.is_ask /\ x.owner = o.owner
  BY <1>1, <1>4 DEF OrderRecords
<1>6. x \in OrderRecords
  BY <1>1, <1>2, <1>3, <1>4 DEF OrderRecords
<1> QED
  BY <1>0, <1>1, <1>3, <1>5, <1>6 DEF OrderSet, SizedOrder, InRange

(* An order whose nonce is replaced, being active.                         *)
WithNonce(o, n) == [o EXCEPT !.nonce = n]

IsRenumbered(u, x, o, n) ==
  /\ u.max_nonce \in Nat /\ o \in OrderSet(u) /\ o.trigger_status = "NA"
  /\ n \in 0 .. u.max_nonce /\ x = WithNonce(o, n)

(* The same order with another nonce.                                      *)
LEMMA RenumberedIsOrder ==
  ASSUME NEW u, NEW x, NEW o, NEW n, IsRenumbered(u, x, o, n)
  PROVE  x \in OrderSet(u) /\ x.trigger_status = "NA" /\ x.nonce = n /\ x.is_ask = o.is_ask
<1>0. /\ u.max_nonce \in Nat /\ o \in OrderSet(u) /\ o.trigger_status = "NA"
      /\ n \in 0 .. u.max_nonce /\ x = [o EXCEPT !.nonce = n]
  BY DEF IsRenumbered, WithNonce
<1>1. o \in OrderRecords /\ InRange(u, o) /\ SizedOrder(o) /\ n \in Nat
  BY <1>0 DEF OrderSet
<1>2. /\ x.nonce = n /\ x.child0 = o.child0 /\ x.child1 = o.child1 /\ x.cancel0 = o.cancel0
      /\ x.remaining = o.remaining /\ x.initial = o.initial /\ x.trigger_status = o.trigger_status
      /\ x.is_ask = o.is_ask
  BY <1>0, <1>1 DEF OrderRecords
<1>3. x \in OrderRecords
  BY <1>0, <1>1 DEF OrderRecords
<1> QED
  BY <1>0, <1>1, <1>2, <1>3 DEF OrderSet, SizedOrder, InRange

(* A pending order that is given up.                                       *)
LEMMA DroppedStep ==
  ASSUME IInv, IsEmpty(rs), NEW i \in Nonces, orders[i] # NoOrder, Become(Apply(Dropped(Tx, i)))
  PROVE  IInv' /\ GoodStep
<1> DEFINE t == Dropped(Tx, i)
<1>1. /\ setup.max_nonce \in Nat /\ StateInv(setup, Tx) /\ TreesInv(setup, Tx) /\ i \in NoncesOf(setup)
      /\ Tx.orders[i] # NoOrder /\ Tx.new = NoNewInstructions /\ rs.count = 0 /\ Tx.rs = rs
  BY SetupFacts, TxFacts DEF IInv
<1>2. Become(Apply(t)) /\ t = Dropped(Tx, i)
  OBVIOUS
<1> HIDE DEF t
<1>3. StateInv(setup, t) /\ Removed(Tx, t, i)
  BY <1>1, <1>2, DroppedIsRemoved
<1>4. SameExposure(Tx, t) /\ t.rs.count = 0
  BY <1>1, <1>3 DEF Removed
<1> QED
  BY <1>2, <1>3, <1>4, ApplyStep

LessBy(o, base) == [o EXCEPT !.remaining = o.remaining - base]

(* What a slice leaves of its TWAP order.                                  *)
LEMMA SlicedIsOrder ==
  ASSUME NEW u, NEW o \in OrderSet(u), o.trigger_status = "TWAP", NEW base \in Nat,
         NEW x, x = LessBy(o, base)
  PROVE  x \in OrderSet(u) /\ x.trigger_status = "TWAP"
<1>1. o \in OrderRecords /\ InRange(u, o) /\ SizedOrder(o) /\ o.remaining \in Int /\ o.initial \in Nat
  BY OrderFacts DEF OrderSet
<1>2. /\ x.nonce = o.nonce /\ x.child0 = o.child0 /\ x.child1 = o.child1 /\ x.cancel0 = o.cancel0
      /\ x.remaining = o.remaining - base /\ x.initial = o.initial /\ x.trigger_status = "TWAP"
  BY <1>1 DEF LessBy, OrderRecords
<1>3. x \in OrderRecords
  BY <1>1 DEF LessBy, OrderRecords
<1> QED
  BY <1>1, <1>2, <1>3 DEF OrderSet, SizedOrder, InRange

(* The slicing of a TWAP order keeps the invariant.                        *)
LEMMA InternalCreateTwapSliceStep ==
  ASSUME IInv, NEW i \in Nonces, NEW base \in TwapSlices,
         InternalCreateTwapSlice(i, base, orders[i].price)
  PROVE  IInv' /\ GoodStep
<1> DEFINE o == orders[i]
           is_ask == o.is_ask
           n == NextNonce(Tx, is_ask)
           y == BumpNonce(Tx, is_ask)
           less == LessBy(o, base)
           x == WithOrder(y, i, less)
           slice == SliceOf(o, base, o.price, n)
           zero == 0
           s == InsertPut(x, slice, n, zero)
<1>0. y.orders[i] = o
  <2>1. Tx.orders = orders /\ Typed(Tx)
    BY TxFacts
  <2> QED
    BY <2>1 DEF BumpNonce, Typed, TxFields
<1>1. /\ IsEmpty(rs) /\ ~BookFull(Tx) /\ o # NoOrder /\ o.trigger_status = "TWAP"
      /\ Become(Apply(IF MustCancel(o) THEN Dropped(Tx, i) ELSE IF base = o.remaining THEN Dropped(s, i) ELSE s))
  <2> DEFINE w == [BumpNonce(Tx, o.is_ask) EXCEPT !.orders[i].remaining = @ - base]
  <2>1. w = x
    BY <1>0 DEF WithOrder, LessBy
  <2>2. s = Put(x, TRUE, InsertOrder(slice, n), zero)
    BY DEF InsertPut
  <2> HIDE DEF w, x, s
  <2>3. s = Put(w, TRUE, InsertOrder(slice, n), 0)
    BY <2>1, <2>2
  <2> QED
    BY Zenon, <2>3 DEF InternalCreateTwapSlice, SliceOf, w
<1>2. /\ setup.max_nonce \in Nat /\ StateInv(setup, Tx) /\ rs.count = 0 /\ Tx.rs = rs
      /\ Tx.new = NoNewInstructions /\ Tx.orders = orders /\ i \in NoncesOf(setup) /\ base \in Nat
      /\ orders \in OrderTree(setup)
  BY <1>1, SetupFacts, TxFacts DEF IInv
<1>3. o \in OrderSet(setup)
  BY <1>1, <1>2 DEF OrderTree
<1>4. o.is_ask \in BOOLEAN /\ o.price \in Nat
  BY <1>3, OrderFacts
<1>5. /\ n = NextNonce(Tx, is_ask) /\ y = BumpNonce(Tx, is_ask) /\ less = LessBy(o, base)
      /\ x = WithOrder(y, i, less) /\ s = InsertPut(x, slice, n, zero) /\ is_ask \in BOOLEAN
      /\ slice = SliceOf(o, base, o.price, n) /\ zero \in NewSlots /\ zero = 0 /\ o = orders[i]
      /\ is_ask = o.is_ask
  BY <1>4 DEF NewSlots, NEW_INSTRUCTIONS_MAX_SIZE
<1> HIDE DEF o, is_ask, n, y, less, x, slice, zero, s
<1>6. CASE MustCancel(o)
  <2>1. Become(Apply(Dropped(Tx, i)))
    BY <1>1, <1>6
  <2> QED
    BY <1>1, <1>5, <2>1, DroppedStep
<1>7. CASE ~MustCancel(o)
  <2>1. /\ StateInv(setup, y) /\ y.rs = Tx.rs /\ y.new = Tx.new /\ y.pos = Tx.pos /\ y.orders = Tx.orders
        /\ y.market.open_interest = Tx.market.open_interest
        /\ n \in NoncesOf(setup) /\ Tx.orders[n] = NoOrder /\ IndexTaken(setup, y.market, n)
        /\ Fresh(setup, Tx.orders, n)
        /\ \A w : (w.nonce = n /\ w.is_ask = is_ask) => NonceTaken(setup, y.market, w)
    BY <1>1, <1>2, <1>5, BumpIsGood
  <2>2. less \in OrderSet(setup) /\ less.trigger_status # "NA"
    BY <1>1, <1>2, <1>3, <1>5, SlicedIsOrder
  <2>3. TreeInv(setup, y.market, y.orders) /\ y.orders[i] = o /\ y.orders[i] # NoOrder
    BY <1>1, <1>2, <1>5, <2>1 DEF StateInv, TreesInv
  <2>4. IndexTaken(setup, y.market, i) /\ ~Active(y.orders, i)
    BY <1>1, <1>2, <2>3 DEF TreeInv, Active
  <2>5. /\ StateInv(setup, x) /\ SameExposure(y, x) /\ x.rs = y.rs /\ x.new = y.new /\ x.market = y.market
        /\ x.orders = SetOrder(y.orders, i, less)
    BY <1>2, <1>5, <2>1, <2>2, <2>3, <2>4, PendingIsSet
  <2>6. n \in 0 .. setup.max_nonce
    BY <1>2, <2>1 DEF NoncesOf
  <2>7. slice \in OrderSet(setup) /\ slice.trigger_status = "NA" /\ slice.nonce = n /\ slice.is_ask = is_ask
    <3> DEFINE price == o.price
    <3>1. slice = SliceOf(o, base, price, n) /\ price \in Nat /\ base \in Nat
      BY <1>2, <1>4, <1>5
    <3> HIDE DEF price
    <3>2. /\ slice \in OrderSet(setup) /\ slice.trigger_status = "NA" /\ slice.nonce = n
          /\ slice.is_ask = o.is_ask
      <4>1. setup.max_nonce \in Nat
        BY <1>2
      <4>2. IsSlice(setup, slice, o, base, price, n)
        BY <4>1, <1>3, <2>6, <3>1 DEF IsSlice
      <4> QED
        BY <4>2, SliceOfIsOrder
    <3> QED
      BY <1>5, <3>2
  <2>8. i # n /\ y.orders \in OrderTree(setup)
    BY <1>1, <1>2, <1>5, <2>1
  <2>9. x.orders[n] = NoOrder /\ x.orders[i] = less
        /\ \A j \in NoncesOf(setup) : j # i => x.orders[j] = y.orders[j]
    BY <1>2, <2>1, <2>5, <2>8 DEF SetOrder, OrderTree
  <2>10. Fresh(setup, x.orders, n) /\ NonceTaken(setup, x.market, slice)
    <3>1. NonceTaken(setup, x.market, slice)
      BY <2>1, <2>5, <2>7
    <3>2. Fresh(setup, x.orders, n)
      BY <2>1, <2>2, <2>9 DEF Fresh, Active
    <3> QED
      BY <3>1, <3>2
  <2>11. \A j \in NewSlots : x.new.slot[j] = EmptyRegister /\ ~IsInsert(x.new.slot[j]) /\ ~CanTrade(x.new.slot[j])
    BY <1>2, <2>1, <2>5 DEF NoNewInstructions, IsInsert, CanTrade
  <2>12. x.rs.count = 0 /\ IndexTaken(setup, x.market, n)
    BY <1>2, <2>1, <2>5
  <2>13. slice.trigger_status = "NA" =>
           /\ NonceTaken(setup, x.market, slice) /\ Fresh(setup, x.orders, slice.nonce)
           /\ \A j \in NewSlots : j > zero => x.new.slot[j] = EmptyRegister
    BY <2>7, <2>10, <2>11
  <2>14. StateInv(setup, s) /\ OnlyNew(x, s)
    BY <1>2, <1>5, <2>5, <2>7, <2>9, <2>11, <2>12, <2>13, InsertIsPut, SMTT(30)
  <2>15. SameExposure(Tx, s) /\ s.rs.count = 0
    BY <2>1, <2>5, <2>12, <2>14 DEF SameExposure, OnlyNew
  <2>16. CASE base # o.remaining
    <3>1. Become(Apply(s))
      BY <1>1, <1>7, <2>16
    <3> QED
      BY <2>14, <2>15, <3>1, ApplyStep
  <2>17. CASE base = o.remaining
    <3> DEFINE t == Dropped(s, i)
    <3>1. Become(Apply(t)) /\ t = Dropped(s, i)
      BY <1>1, <1>7, <2>17
    <3> HIDE DEF t
    <3>2. TreesInv(setup, s) /\ s.orders[i] # NoOrder
      BY <2>2, <2>9, <2>14, OrderFacts DEF StateInv, OnlyNew
    <3>3. StateInv(setup, t) /\ Removed(s, t, i)
      BY <1>2, <2>14, <3>1, <3>2, DroppedIsRemoved
    <3>4. SameExposure(Tx, t) /\ t.rs.count = 0
      BY <2>15, <3>3 DEF Removed, SameExposure
    <3> QED
      BY <3>1, <3>3, <3>4, ApplyStep
  <2> QED
    BY <2>16, <2>17
<1> QED
  BY <1>6, <1>7

-----------------------------------------------------------------------------
(* A pending order that becomes an instruction to match it, and leaves.    *)
LEMMA ReplacedIsGood ==
  ASSUME NEW u, u.max_nonce \in Nat, NEW y, StateInv(u, y), y.rs.count = 0, y.new = NoNewInstructions,
         NEW i \in NoncesOf(u), y.orders[i] # NoOrder, IndexTaken(u, y.market, i),
         NEW x \in OrderSet(u), NonceTaken(u, y.market, x), Fresh(u, y.orders, x.nonce),
         NEW k \in NewSlots, NEW s, s = InsertPut(y, x, i, k), NEW t, t = Dropped(s, i)
  PROVE  /\ StateInv(u, t) /\ SameExposure(y, t) /\ t.rs = y.rs
         /\ \A j \in NewSlots : j # k => t.new.slot[j] = EmptyRegister
<1> DEFINE reg == InsertOrder(x, i)
           q == PutToInstructionStack(y.new, reg, k)
<1>1. i \in 0 .. u.max_nonce
  BY DEF NoncesOf
<1>2. reg = InsertOrder(x, i) /\ q = PutToInstructionStack(y.new, reg, k)
  OBVIOUS
<1>3. s = [y EXCEPT !.new = q]
  BY DEF InsertPut, Put
<1> HIDE DEF reg, q
<1>4. /\ reg \in Instructions(u) /\ IsInsert(reg) /\ reg.order = x /\ reg.index = i
      /\ reg.account = x.owner
  BY <1>1, <1>2, InsertIsInstruction
<1>5. Typed(y) /\ TreesInv(u, y) /\ NewInv(u, y.market, y.orders, y.rs, y.new)
  BY DEF StateInv, TreesInv
<1>6. /\ s.new = q /\ s.rs = y.rs /\ s.market = y.market /\ s.acct = y.acct /\ s.pos = y.pos
      /\ s.orders = y.orders /\ s.book = y.book /\ s.locked = y.locked /\ s.ok = y.ok
      /\ DOMAIN s = TxFields
  BY <1>3, <1>5 DEF Typed, TxFields
<1>7. TreesInv(u, s)
  BY <1>5, <1>6 DEF TreesInv, Typed
<1>8. s.orders[i] # NoOrder
  BY <1>6
<1>9. /\ TreesInv(u, t) /\ Removed(s, t, i)
      /\ Later(u, s.market, t.market) /\ Fewer(u, s.orders, t.orders)
  BY <1>7, <1>8, DroppedIsRemoved
<1>10. /\ IndexTaken(u, t.market, i) /\ NonceTaken(u, t.market, x)
  BY <1>6, <1>9, LaterTaken
<1>11. Fresh(u, t.orders, x.nonce)
  BY <1>6, <1>9 DEF Fresh, Fewer
<1>12. t.orders[i] = NoOrder
  <2>1. s.orders \in OrderTree(u)
    BY <1>7 DEF TreesInv, TreeInv
  <2> QED
    BY <2>1, <1>9 DEF Removed, OrderTree
<1>13. RegisterInv(u, t.market, t.orders, reg)
  BY <1>4, <1>10, <1>11, <1>12 DEF RegisterInv, IsInsert, CanTrade, CancelAllKinds
<1>14. \A j \in NewSlots : y.new.slot[j] = EmptyRegister /\ ~IsInsert(y.new.slot[j]) /\ ~CanTrade(y.new.slot[j])
  BY DEF NoNewInstructions, IsInsert, CanTrade
<1>15. NewInv(u, t.market, t.orders, t.rs, y.new)
  BY <1>5, <1>14 DEF NewInv
<1>16. t.rs = y.rs /\ t.new = q
  BY <1>6, <1>9 DEF Removed
<1>17. /\ NewInv(u, t.market, t.orders, t.rs, q)
       /\ \A j \in NewSlots : j # k => q.slot[j] = y.new.slot[j]
  <2>1. IsInsert(reg) =>
          t.rs.count = 0 /\ \A j \in NewSlots : IsInsert(y.new.slot[j]) => y.new.slot[j].index # reg.index
    BY <1>14, <1>16
  <2>2. CanTrade(reg) => \A j \in NewSlots : j > k => y.new.slot[j] = EmptyRegister
    BY <1>14
  <2> QED
    BY <1>2, <1>4, <1>13, <1>14, <1>15, <2>1, <2>2, PutIsNew
<1> QED
  BY <1>6, <1>9, <1>14, <1>16, <1>17 DEF StateInv, Removed, SameExposure

(* internal_create_order for an order whose price is met keeps the         *)
(* invariant.                                                              *)
LEMMA InternalTriggerOrderStep ==
  ASSUME IInv, NEW i \in Nonces, InternalTriggerOrder(i)
  PROVE  IInv' /\ GoodStep
<1> DEFINE o == orders[i]
           is_ask == o.is_ask
           base == IF o.remaining = 0 THEN PositionTiedAmount(o.owner) ELSE o.remaining
           n == NextNonce(Tx, is_ask)
           y == BumpNonce(Tx, is_ask)
           active == ActiveOf(o, base, n)
           one == 1
           zero == 0
           s == InsertPut(y, active, i, one)
           t == Dropped(s, i)
           partner == Instruction("CANCEL_SINGLE_ACCOUNT_ORDER", o.owner, 0, o.cancel0)
           r == Put(t, o.cancel0 # NIL, partner, zero)
<1>1. /\ IsEmpty(rs) /\ ~BookFull(Tx) /\ o # NoOrder /\ o.trigger_status = "MARK_PRICE"
      /\ Become(Apply(IF MustCancel(o) THEN Dropped(Tx, i) ELSE r))
  <2>1. s = Put(y, TRUE, InsertOrder(active, i), one)
    BY DEF InsertPut
  <2> HIDE DEF s
  <2>2. s = Put(y, TRUE, InsertOrder(active, i), 1)
    BY <2>1
  <2> QED
    BY Zenon, <2>2 DEF InternalTriggerOrder, ActiveOf
<1>2. /\ setup.max_nonce \in Nat /\ StateInv(setup, Tx) /\ rs.count = 0 /\ Tx.rs = rs
      /\ Tx.new = NoNewInstructions /\ Tx.orders = orders /\ i \in NoncesOf(setup)
      /\ orders \in OrderTree(setup)
  BY <1>1, SetupFacts, TxFacts DEF IInv
<1>3. o \in OrderSet(setup)
  BY <1>1, <1>2 DEF OrderTree
<1>4. o.is_ask \in BOOLEAN /\ o.owner \in Accounts /\ o.cancel0 \in 0 .. setup.max_nonce /\ base \in Nat
  <2>1. o.is_ask \in BOOLEAN /\ o.owner \in Accounts /\ o.cancel0 \in 0 .. setup.max_nonce
        /\ o.remaining \in Nat
    BY <1>1, <1>3, OrderFacts
  <2>2. PositionTiedAmount(o.owner) \in Nat
    BY <2>1, TxFacts DEF IInv
  <2> QED
    BY <2>1, <2>2
<1>5. /\ n = NextNonce(Tx, is_ask) /\ y = BumpNonce(Tx, is_ask) /\ active = ActiveOf(o, base, n)
      /\ s = InsertPut(y, active, i, one) /\ is_ask \in BOOLEAN /\ t = Dropped(s, i)
      /\ one \in NewSlots /\ one = 1 /\ zero \in NewSlots /\ zero = 0 /\ o = orders[i]
      /\ is_ask = o.is_ask
  BY <1>4 DEF NewSlots, NEW_INSTRUCTIONS_MAX_SIZE
<1>6. r = t \/ (o.cancel0 # NIL /\ r = Put(t, TRUE, partner, zero))
  <2> HIDE DEF t, partner, zero
  <2> QED
    BY DEF Put
<1>7. o.cancel0 # NIL => Plain(setup, partner)
  <2>1. o.cancel0 # NIL => o.cancel0 \in NoncesOf(setup)
    BY <1>2, <1>4 DEF NIL, NoncesOf
  <2> QED
    BY <1>2, <1>4, <2>1, PlainInstruction
<1> HIDE DEF o, is_ask, base, n, y, active, one, zero, s, t, partner, r
<1>8. CASE MustCancel(o)
  <2>1. Become(Apply(Dropped(Tx, i)))
    BY <1>1, <1>8
  <2> QED
    BY <1>1, <1>5, <2>1, DroppedStep
<1>9. CASE ~MustCancel(o)
  <2>1. /\ StateInv(setup, y) /\ y.rs = Tx.rs /\ y.new = Tx.new /\ y.pos = Tx.pos /\ y.orders = Tx.orders
        /\ y.market.open_interest = Tx.market.open_interest
        /\ n \in NoncesOf(setup) /\ IndexTaken(setup, y.market, n) /\ Fresh(setup, Tx.orders, n)
        /\ \A w : (w.nonce = n /\ w.is_ask = is_ask) => NonceTaken(setup, y.market, w)
    BY <1>1, <1>2, <1>5, BumpIsGood
  <2>2. n \in 0 .. setup.max_nonce
    BY <1>2, <2>1 DEF NoncesOf
  <2>3. active \in OrderSet(setup) /\ active.nonce = n /\ active.is_ask = o.is_ask
    <3>1. IsActiveOf(setup, active, o, base, n)
      BY <1>2, <1>3, <1>4, <1>5, <2>2 DEF IsActiveOf
    <3> QED
      BY <3>1, ActiveIsOrder
  <2>4. y.orders[i] # NoOrder /\ TreeInv(setup, y.market, y.orders)
    BY <1>1, <1>2, <1>5, <2>1 DEF StateInv, TreesInv
  <2>5. IndexTaken(setup, y.market, i)
    BY <1>2, <2>4 DEF TreeInv
  <2>6. NonceTaken(setup, y.market, active) /\ Fresh(setup, y.orders, active.nonce)
    BY <1>5, <2>1, <2>3
  <2>7. y.rs.count = 0 /\ y.new = NoNewInstructions
    BY <1>2, <2>1
  <2>8. /\ StateInv(setup, t) /\ SameExposure(y, t) /\ t.rs = y.rs
        /\ \A j \in NewSlots : j # one => t.new.slot[j] = EmptyRegister
    BY <1>2, <1>5, <2>1, <2>3, <2>4, <2>5, <2>6, <2>7, ReplacedIsGood
  <2>9. SameExposure(Tx, t) /\ t.rs.count = 0
    BY <2>1, <2>7, <2>8 DEF SameExposure
  <2>10. CASE r = t
    <3>1. Become(Apply(t))
      BY <1>1, <1>9, <2>10
    <3> QED
      BY <2>8, <2>9, <3>1, ApplyStep
  <2>11. CASE o.cancel0 # NIL /\ r = Put(t, TRUE, partner, zero)
    <3> DEFINE q == PutToInstructionStack(t.new, partner, zero)
    <3>1. r = [t EXCEPT !.new = q]
      BY <2>11 DEF Put
    <3>2. q = PutToInstructionStack(t.new, partner, zero)
      OBVIOUS
    <3> HIDE DEF q
    <3>3. /\ partner \in Instructions(setup) /\ ~IsInsert(partner) /\ ~CanTrade(partner)
          /\ RegisterInv(setup, t.market, t.orders, partner)
      BY <1>7, <2>11 DEF Plain, CanTrade
    <3>4. Typed(t) /\ TreesInv(setup, t) /\ NewInv(setup, t.market, t.orders, t.rs, t.new)
      BY <2>8 DEF StateInv, TreesInv
    <3>5. \A j \in NewSlots : j < zero => ~CanTrade(t.new.slot[j])
      BY <1>5 DEF NewSlots
    <3>6. NewInv(setup, t.market, t.orders, t.rs, q)
      BY <1>5, <3>2, <3>3, <3>4, <3>5, PutIsNew
    <3>7. /\ r.new = q /\ r.rs = t.rs /\ r.market = t.market /\ r.acct = t.acct /\ r.pos = t.pos
          /\ r.orders = t.orders /\ r.book = t.book /\ r.locked = t.locked /\ r.ok = t.ok
          /\ DOMAIN r = TxFields
      BY <3>1, <3>4 DEF Typed, TxFields
    <3>8. StateInv(setup, r) /\ SameExposure(Tx, r) /\ r.rs.count = 0
      BY <2>9, <3>4, <3>6, <3>7 DEF StateInv, TreesInv, Typed, SameExposure
    <3>9. Become(Apply(r))
      BY <1>1, <1>9
    <3> QED
      BY <3>8, <3>9, ApplyStep
  <2> QED
    BY <1>6, <2>10, <2>11
<1> QED
  BY <1>8, <1>9

-----------------------------------------------------------------------------
(* An order that is changed: one that has matched enough leaves, an active *)
(* one leaves the book to be matched again, a pending one stays.           *)
LEMMA L2ModifyOrderStep ==
  ASSUME IInv, NEW i \in Nonces, NEW r \in Modifications, L2ModifyOrder(i, r)
  PROVE  IInv' /\ GoodStep
<1> DEFINE o == orders[i]
           is_ask == o.is_ask
           flag == ModifyUnlocks(o)
           matched == o.initial - o.remaining
           filled == r.base # 0 /\ r.base <= matched
           changed == ChangedOf(o, r)
           gone == RemoveOrder(Unlock(DecrementOrderCount(Tx, o.owner, o), flag, o, o.remaining), i)
           n == NextNonce(Tx, is_ask)
           again == WithNonce(changed, n)
           zero == 0
           one == 1
           y == BumpNonce(gone, is_ask)
           s == InsertPut(y, again, i, zero)
           kids == ForChildren(gone, TRUE, "TRIGGER_CHILD_ORDER", o, matched, one)
           here == WithOrder(Tx, i, changed)
<1>1. /\ IsEmpty(rs) /\ ~BookFull(Tx) /\ o # NoOrder
      /\ Become(Apply(IF filled THEN kids ELSE IF o.trigger_status = "NA" THEN s ELSE here))
  <2> DEFINE other == [o EXCEPT !.price = r.price, !.trigger_price = r.trigger_price,
                                !.initial = IF r.base = 0 THEN @ ELSE r.base,
                                !.remaining = IF r.base = 0 THEN @ ELSE r.base - matched,
                                !.stp = r.stp, !.by_master = r.by_master,
                                !.integrator = r.integrator]
  <2>1. other = changed
    BY DEF ChangedOf
  <2>2. s = Put(y, TRUE, InsertOrder(again, i), 0)
    BY DEF InsertPut
  <2>3. kids = TriggerChildOrders(gone, TRUE, o, matched, 1)
    BY DEF TriggerChildOrders
  <2>4. here = [Tx EXCEPT !.orders[i] = changed]
    BY DEF WithOrder
  <2>5. again = [changed EXCEPT !.nonce = NextNonce(Tx, o.is_ask)]
    BY DEF WithNonce
  <2> HIDE DEF changed, s, kids, here, again
  <2> QED
    BY Zenon, <2>1, <2>2, <2>3, <2>4, <2>5 DEF L2ModifyOrder, UserTransaction
<1>2. /\ setup.max_nonce \in Nat /\ StateInv(setup, Tx) /\ TreesInv(setup, Tx) /\ rs.count = 0
      /\ Tx.rs = rs /\ Tx.new = NoNewInstructions /\ Tx.orders = orders /\ i \in NoncesOf(setup)
      /\ orders \in OrderTree(setup) /\ TreeInv(setup, market, orders) /\ Tx.market = market
  <2>1. TreeInv(setup, market, orders)
    BY TxFacts DEF TreesInv
  <2> QED
    BY <1>1, <2>1, SetupFacts, TxFacts DEF IInv
<1>3. o \in OrderSet(setup)
  BY <1>1, <1>2 DEF OrderTree
<1>4. o.is_ask \in BOOLEAN /\ o.owner \in Accounts /\ matched \in Nat /\ r.base \in Nat
  <2>1. o.is_ask \in BOOLEAN /\ o.owner \in Accounts /\ o.initial \in Nat /\ o.remaining \in Int
        /\ o.remaining <= o.initial
    BY <1>3, OrderFacts
  <2> QED
    BY <2>1 DEF Modifications
<1>5. /\ n = NextNonce(Tx, is_ask) /\ y = BumpNonce(gone, is_ask) /\ again = WithNonce(changed, n)
      /\ changed = ChangedOf(o, r) /\ s = InsertPut(y, again, i, zero)
      /\ gone = RemoveOrder(Unlock(DecrementOrderCount(Tx, o.owner, o), flag, o, o.remaining), i)
      /\ here = WithOrder(Tx, i, changed) /\ is_ask \in BOOLEAN
      /\ zero \in NewSlots /\ zero = 0 /\ one \in 1 .. 7 /\ o = orders[i] /\ is_ask = o.is_ask
  BY <1>4 DEF NewSlots, NEW_INSTRUCTIONS_MAX_SIZE
<1>6. kids = ForChildren(gone, TRUE, "TRIGGER_CHILD_ORDER", o, matched, one)
  OBVIOUS
<1>7. ~filled => (r.base # 0 => r.base > o.initial - o.remaining)
  BY <1>4
<1> HIDE DEF o, is_ask, flag, matched, filled, changed, gone, n, again, zero, one, y, s, kids, here
<1>8. /\ StateInv(setup, gone) /\ Removed(Tx, gone, i)
      /\ Later(setup, Tx.market, gone.market) /\ Fewer(setup, Tx.orders, gone.orders)
  BY <1>1, <1>2, <1>5, UnlockedIsRemoved
<1>9. /\ SameExposure(Tx, gone) /\ gone.rs.count = 0 /\ gone.new = NoNewInstructions
      /\ gone.orders = [orders EXCEPT ![i] = NoOrder]
  BY <1>2, <1>8 DEF Removed
<1>10. \A k \in NewSlots : /\ gone.new.slot[k] = EmptyRegister
                           /\ ~IsInsert(gone.new.slot[k]) /\ ~CanTrade(gone.new.slot[k])
  BY <1>9 DEF NoNewInstructions, IsInsert, CanTrade
<1>11. CASE filled
  <2>1. NoInserts(gone)
    BY <1>10 DEF NoInserts
  <2>2. StateInv(setup, kids) /\ OnlyNew(gone, kids)
    BY <1>2, <1>3, <1>4, <1>5, <1>6, <1>8, <2>1, ChildrenTriggered
  <2>3. SameExposure(Tx, kids) /\ kids.rs.count = 0
    BY <1>9, <2>2 DEF SameExposure, OnlyNew
  <2>4. Become(Apply(kids))
    BY <1>1, <1>11
  <2> QED
    BY <2>2, <2>3, <2>4, ApplyStep
<1>12. ~filled => /\ changed \in OrderSet(setup) /\ changed.is_ask = is_ask
                  /\ changed.trigger_status = o.trigger_status
  <2> SUFFICES ASSUME ~filled PROVE /\ changed \in OrderSet(setup) /\ changed.is_ask = is_ask
                                    /\ changed.trigger_status = o.trigger_status
    OBVIOUS
  <2>1. IsChangedOf(setup, changed, o, r)
    BY <1>2, <1>3, <1>5, <1>7 DEF IsChangedOf
  <2> QED
    BY <1>5, <2>1, ChangedIsOrder
<1>13. CASE ~filled /\ o.trigger_status = "NA"
  <2>1. ~BookFull(gone) /\ n = NextNonce(gone, is_ask)
    BY <1>1, <1>5, <1>8 DEF Removed, SameNonces, BookFull, NextNonce
  <2>2. /\ StateInv(setup, y) /\ y.rs = gone.rs /\ y.new = gone.new /\ y.pos = gone.pos
        /\ y.orders = gone.orders /\ y.market.open_interest = gone.market.open_interest
        /\ Later(setup, gone.market, y.market)
        /\ n \in NoncesOf(setup) /\ Fresh(setup, gone.orders, n)
        /\ \A w : (w.nonce = n /\ w.is_ask = is_ask) => NonceTaken(setup, y.market, w)
    BY <1>2, <1>5, <1>8, <2>1, BumpIsGood
  <2>3. n \in 0 .. setup.max_nonce
    BY <1>2, <2>2 DEF NoncesOf
  <2>4. again \in OrderSet(setup) /\ again.nonce = n /\ again.is_ask = is_ask
    <3>1. IsRenumbered(setup, again, changed, n)
      BY <1>2, <1>5, <1>12, <1>13, <2>3 DEF IsRenumbered
    <3> QED
      BY <1>12, <1>13, <3>1, RenumberedIsOrder
  <2>5. IndexTaken(setup, y.market, i)
    <3>1. IndexTaken(setup, market, i)
      BY <1>1, <1>2, <1>5 DEF TreeInv
    <3> QED
      BY <1>2, <1>8, <2>2, <3>1, LaterTaken
  <2>6. y.orders[i] = NoOrder
    BY <1>2, <1>9, <2>2 DEF OrderTree
  <2>7. NonceTaken(setup, y.market, again) /\ Fresh(setup, y.orders, again.nonce)
    BY <2>2, <2>4
  <2>8. /\ \A k \in NewSlots : IsInsert(y.new.slot[k]) => y.new.slot[k].index # i
        /\ \A j \in NewSlots : j < zero => ~CanTrade(y.new.slot[j])
        /\ \A j \in NewSlots : j > zero => y.new.slot[j] = EmptyRegister
    BY <1>10, <2>2
  <2>9. y.rs.count = 0
    BY <1>9, <2>2
  <2>10. StateInv(setup, s) /\ OnlyNew(y, s)
    <3>1. again.trigger_status = "NA" =>
            /\ NonceTaken(setup, y.market, again) /\ Fresh(setup, y.orders, again.nonce)
            /\ \A j \in NewSlots : j > zero => y.new.slot[j] = EmptyRegister
      BY <2>7, <2>8
    <3>2. /\ setup.max_nonce \in Nat /\ StateInv(setup, y) /\ y.rs.count = 0
          /\ again \in OrderSet(setup) /\ IndexTaken(setup, y.market, i) /\ y.orders[i] = NoOrder
          /\ zero \in NewSlots /\ s = InsertPut(y, again, i, zero)
      BY <1>2, <1>5, <2>2, <2>4, <2>5, <2>6, <2>9
    <3>3. /\ \A k \in NewSlots : IsInsert(y.new.slot[k]) => y.new.slot[k].index # i
          /\ \A j \in NewSlots : j < zero => ~CanTrade(y.new.slot[j])
      BY <2>8
    <3> QED
      BY <3>1, <3>2, <3>3, InsertIsPut
  <2>11. SameExposure(Tx, s) /\ s.rs.count = 0
    BY <1>9, <2>2, <2>9, <2>10 DEF SameExposure, OnlyNew
  <2>12. Become(Apply(s))
    BY <1>1, <1>13
  <2> QED
    BY <2>10, <2>11, <2>12, ApplyStep
<1>14. CASE ~filled /\ o.trigger_status # "NA"
  <2>1. IndexTaken(setup, Tx.market, i) /\ ~Active(Tx.orders, i) /\ Tx.orders[i] # NoOrder
    BY <1>1, <1>2, <1>5, <1>14 DEF TreeInv, Active
  <2>2. changed \in OrderSet(setup) /\ changed.trigger_status # "NA"
    BY <1>12, <1>14
  <2>3. StateInv(setup, here) /\ SameExposure(Tx, here) /\ here.rs = Tx.rs
    BY <1>2, <1>5, <2>1, <2>2, PendingIsSet
  <2>4. Become(Apply(here)) /\ here.rs.count = 0
    BY <1>1, <1>2, <1>14, <2>3
  <2> QED
    BY <2>3, <2>4, ApplyStep
<1> QED
  BY <1>11, <1>13, <1>14

-----------------------------------------------------------------------------
(* A group of orders: the nonces it takes, ...                             *)
LEMMA CountedTo ==
  ASSUME NEW S
  PROVE  LET count(m) == Cardinality({k \in 1 .. m : k \in S})
         IN  /\ count(0) = 0
             /\ \A m \in 0 .. 2 : count(m) \in Nat
             /\ \A m \in 0 .. 2 : count(m + 1) = count(m) + (IF m + 1 \in S THEN 1 ELSE 0)
<1> DEFINE Upto(m) == {k \in 1 .. m : k \in S}
<1>1. ASSUME NEW m \in 0 .. 2 PROVE IsFiniteSet(Upto(m)) /\ Cardinality(Upto(m)) \in Nat
  <2>1. IsFiniteSet(1 .. m) /\ Upto(m) \subseteq 1 .. m
    BY FS_Interval
  <2> HIDE DEF Upto
  <2> QED
    BY <2>1, FS_Subset, FS_CardinalityType
<1>2. ASSUME NEW m \in 0 .. 2
      PROVE  Cardinality(Upto(m + 1)) = Cardinality(Upto(m)) + (IF m + 1 \in S THEN 1 ELSE 0)
  <2>1. m + 1 \notin Upto(m)
    OBVIOUS
  <2>2. Upto(m + 1) = IF m + 1 \in S THEN Upto(m) \cup {m + 1} ELSE Upto(m)
    OBVIOUS
  <2>3. IsFiniteSet(Upto(m)) /\ Cardinality(Upto(m)) \in Nat
    BY <1>1
  <2> DEFINE T == Upto(m)
             V == Upto(m + 1)
             e == m + 1
  <2>4. IsFiniteSet(T) /\ Cardinality(T) \in Nat /\ e \notin T /\ V = IF e \in S THEN T \cup {e} ELSE T
    BY <2>1, <2>2, <2>3
  <2> HIDE DEF Upto, T, V, e
  <2>5. Cardinality(V) = Cardinality(T) + (IF e \in S THEN 1 ELSE 0)
    BY <2>4, FS_AddElement
  <2> QED
    BY <2>5 DEF T, V, e
<1>3. Upto(0) = {}
  OBVIOUS
<1> QED
  BY <1>1, <1>2, <1>3, FS_EmptySet

GroupRank(g, i) == Cardinality({k \in 1 .. i - 1 : g[k].is_ask = g[i].is_ask})

(* How many orders of the same side come earlier in a group.               *)
LEMMA GroupRanks ==
  ASSUME NEW g, NEW i \in 1 .. 3
  PROVE  /\ i = 1 => GroupRank(g, i) = 0
         /\ i = 2 => GroupRank(g, i) = IF g[1].is_ask = g[2].is_ask THEN 1 ELSE 0
         /\ i = 3 => GroupRank(g, i) = (IF g[1].is_ask = g[3].is_ask THEN 1 ELSE 0)
                                       + (IF g[2].is_ask = g[3].is_ask THEN 1 ELSE 0)
<1> DEFINE S == {k \in 1 .. 3 : g[k].is_ask = g[i].is_ask}
           count(m) == Cardinality({k \in 1 .. m : k \in S})
<1>1. /\ count(0) = 0
      /\ \A m \in 0 .. 2 : count(m + 1) = count(m) + (IF m + 1 \in S THEN 1 ELSE 0)
  <2> HIDE DEF S
  <2> QED
    BY CountedTo
<1>2. /\ 1 \in S <=> g[1].is_ask = g[i].is_ask
      /\ 2 \in S <=> g[2].is_ask = g[i].is_ask
  OBVIOUS
<1>3. GroupRank(g, i) = count(i - 1)
  <2>1. {k \in 1 .. i - 1 : g[k].is_ask = g[i].is_ask} = {k \in 1 .. i - 1 : k \in S}
    OBVIOUS
  <2> QED
    BY <2>1 DEF GroupRank
<1> HIDE DEF S, count
<1>4. count(0 + 1) = count(0) + (IF 1 \in S THEN 1 ELSE 0)
  BY <1>1
<1>5. count(1 + 1) = count(1) + (IF 2 \in S THEN 1 ELSE 0)
  BY <1>1
<1>6. /\ count(1) = IF 1 \in S THEN 1 ELSE 0
      /\ count(2) = (IF 1 \in S THEN 1 ELSE 0) + (IF 2 \in S THEN 1 ELSE 0)
  BY <1>1, <1>4, <1>5
<1>7. CASE i = 1
  BY <1>1, <1>3, <1>7
<1>8. CASE i = 2
  BY <1>2, <1>3, <1>6, <1>8
<1>9. CASE i = 3
  BY <1>2, <1>3, <1>6, <1>9
<1> QED
  BY <1>7, <1>8, <1>9

GroupAsks(g, n) == Cardinality({k \in 1 .. n : g[k].is_ask})

(* How many asks a group has.                                              *)
LEMMA GroupAsksCount ==
  ASSUME NEW g
  PROVE  /\ GroupAsks(g, 2) = (IF g[1].is_ask THEN 1 ELSE 0) + (IF g[2].is_ask THEN 1 ELSE 0)
         /\ GroupAsks(g, 3) = (IF g[1].is_ask THEN 1 ELSE 0) + (IF g[2].is_ask THEN 1 ELSE 0)
                              + (IF g[3].is_ask THEN 1 ELSE 0)
<1> DEFINE S == {k \in 1 .. 3 : g[k].is_ask}
           count(m) == Cardinality({k \in 1 .. m : k \in S})
<1>1. /\ count(0) = 0
      /\ \A m \in 0 .. 2 : count(m + 1) = count(m) + (IF m + 1 \in S THEN 1 ELSE 0)
  <2> HIDE DEF S
  <2> QED
    BY CountedTo
<1>2. (1 \in S <=> g[1].is_ask) /\ (2 \in S <=> g[2].is_ask) /\ (3 \in S <=> g[3].is_ask)
  OBVIOUS
<1>3. GroupAsks(g, 2) = count(2) /\ GroupAsks(g, 3) = count(3)
  <2>1. {k \in 1 .. 2 : g[k].is_ask} = {k \in 1 .. 2 : k \in S}
    OBVIOUS
  <2>2. {k \in 1 .. 3 : g[k].is_ask} = {k \in 1 .. 3 : k \in S}
    OBVIOUS
  <2> QED
    BY <2>1, <2>2 DEF GroupAsks
<1> HIDE DEF S, count
<1>4. count(0 + 1) = count(0) + (IF 1 \in S THEN 1 ELSE 0)
  BY <1>1
<1>5. count(1 + 1) = count(1) + (IF 2 \in S THEN 1 ELSE 0)
  BY <1>1
<1>6. count(2 + 1) = count(2) + (IF 3 \in S THEN 1 ELSE 0)
  BY <1>1
<1> QED
  BY <1>1, <1>2, <1>3, <1>4, <1>5, <1>6

(* The orders of a group take nonces of their own, which the market's      *)
(* counters then pass.                                                     *)
LEMMA GroupIndices ==
  ASSUME IInv, NEW g, NEW n \in {2, 3}, \A i \in 1 .. n : g[i].is_ask \in BOOLEAN,
         n <= market.bid_nonce - market.ask_nonce, NEW asks, asks = GroupAsks(g, n)
  PROVE  /\ asks \in 0 .. n
         /\ \A i \in 1 .. n : IF g[i].is_ask
              THEN GroupIndex(g, i) \in market.ask_nonce .. market.ask_nonce + asks - 1
              ELSE GroupIndex(g, i) \in market.bid_nonce - (n - asks) + 1 .. market.bid_nonce
         /\ \A i, j \in 1 .. n : i # j => GroupIndex(g, i) # GroupIndex(g, j)
<1> DEFINE b(i) == IF g[i].is_ask THEN 1 ELSE 0
           a0 == market.ask_nonce
           b0 == market.bid_nonce
           x(i) == GroupIndex(g, i)
           r(i) == GroupRank(g, i)
<1>1. /\ r(1) = 0
      /\ r(2) = IF g[1].is_ask = g[2].is_ask THEN 1 ELSE 0
      /\ r(3) = (IF g[1].is_ask = g[3].is_ask THEN 1 ELSE 0) + (IF g[2].is_ask = g[3].is_ask THEN 1 ELSE 0)
  <2>1. 1 \in 1 .. 3 /\ 2 \in 1 .. 3 /\ 3 \in 1 .. 3
    OBVIOUS
  <2> QED
    BY <2>1, GroupRanks
<1>2. a0 \in Nat /\ b0 \in Nat /\ n <= b0 - a0
  BY TxFacts, SetupFacts DEF MarketSet, NoncesOf, IInv
<1>3. \A i : x(i) = IF b(i) = 1 THEN a0 + r(i) ELSE b0 - r(i)
  BY DEF GroupIndex, GroupRank
<1>4. \A i : b(i) \in {0, 1} /\ (b(i) = 1 <=> g[i].is_ask)
  OBVIOUS
<1>5. /\ n = 2 => asks = b(1) + b(2)
      /\ n = 3 => asks = b(1) + b(2) + b(3)
  BY GroupAsksCount
<1>6. /\ r(2) = IF b(1) = b(2) THEN 1 ELSE 0
      /\ n = 3 => r(3) = (IF b(1) = b(3) THEN 1 ELSE 0) + (IF b(2) = b(3) THEN 1 ELSE 0)
  <2>1. 1 \in 1 .. n /\ 2 \in 1 .. n /\ (n = 3 => 3 \in 1 .. n)
    OBVIOUS
  <2>2. g[1].is_ask \in BOOLEAN /\ g[2].is_ask \in BOOLEAN /\ (n = 3 => g[3].is_ask \in BOOLEAN)
    BY <2>1
  <2>3. (b(1) = b(2)) <=> (g[1].is_ask = g[2].is_ask)
    BY <2>2
  <2>4. n = 3 => /\ (b(1) = b(3)) <=> (g[1].is_ask = g[3].is_ask)
                 /\ (b(2) = b(3)) <=> (g[2].is_ask = g[3].is_ask)
    BY <2>2
  <2> HIDE DEF b, r
  <2> QED
    BY <1>1, <2>3, <2>4
<1>7. r(1) = 0
  BY <1>1
<1>8. \A i : g[i].is_ask => x(i) = GroupIndex(g, i)
  OBVIOUS
<1> HIDE DEF b, a0, b0, r, x
<1>9. asks \in 0 .. n
  BY <1>4, <1>5
<1>10. \A i \in 1 .. n : IF b(i) = 1 THEN x(i) \in a0 .. a0 + asks - 1
                                     ELSE x(i) \in b0 - (n - asks) + 1 .. b0
  <2>1. x(1) = (IF b(1) = 1 THEN a0 + r(1) ELSE b0 - r(1)) /\ b(1) \in {0, 1}
        /\ x(2) = (IF b(2) = 1 THEN a0 + r(2) ELSE b0 - r(2)) /\ b(2) \in {0, 1}
        /\ x(3) = (IF b(3) = 1 THEN a0 + r(3) ELSE b0 - r(3)) /\ b(3) \in {0, 1}
    BY <1>3, <1>4
  <2>2. CASE n = 2
    BY <1>2, <1>5, <1>6, <1>7, <2>1, <2>2
  <2>3. CASE n = 3
    BY <1>2, <1>5, <1>6, <1>7, <2>1, <2>3
  <2> QED
    BY <2>2, <2>3
<1>11. \A i, j \in 1 .. n : i # j => x(i) # x(j)
  <2>1. x(1) = (IF b(1) = 1 THEN a0 + r(1) ELSE b0 - r(1)) /\ b(1) \in {0, 1}
        /\ x(2) = (IF b(2) = 1 THEN a0 + r(2) ELSE b0 - r(2)) /\ b(2) \in {0, 1}
        /\ x(3) = (IF b(3) = 1 THEN a0 + r(3) ELSE b0 - r(3)) /\ b(3) \in {0, 1}
    BY <1>3, <1>4
  <2>2. CASE n = 2
    BY <1>2, <1>5, <1>6, <1>7, <2>1, <2>2
  <2>3. CASE n = 3
    BY <1>2, <1>5, <1>6, <1>7, <2>1, <2>3
  <2> QED
    BY <2>2, <2>3
<1> QED
  BY <1>4, <1>9, <1>10, <1>11 DEF a0, b0, x

TakenNonces(s, k, m) == [s EXCEPT !.market.ask_nonce = @ + k, !.market.bid_nonce = @ - m]

AreTaken(u, s, k, m, t) ==
  /\ u.max_nonce \in Nat /\ StateInv(u, s) /\ k \in Nat /\ m \in Nat
  /\ k + m <= s.market.bid_nonce - s.market.ask_nonce /\ t = TakenNonces(s, k, m)

(* The market hands out the nonces of a group, asks and bids.              *)
LEMMA GroupBumped ==
  ASSUME NEW u, NEW s, NEW k, NEW m, NEW t, AreTaken(u, s, k, m, t)
  PROVE  /\ StateInv(u, t) /\ Later(u, s.market, t.market)
         /\ t.rs = s.rs /\ t.new = s.new /\ t.acct = s.acct /\ t.pos = s.pos /\ t.orders = s.orders
         /\ t.market.open_interest = s.market.open_interest
         /\ t.market.total_order_count = s.market.total_order_count
         /\ t.market.ask_nonce = s.market.ask_nonce + k /\ t.market.bid_nonce = s.market.bid_nonce - m
<1> SUFFICES ASSUME u.max_nonce \in Nat, StateInv(u, s), k \in Nat, m \in Nat,
                    k + m <= s.market.bid_nonce - s.market.ask_nonce, t = TakenNonces(s, k, m)
             PROVE  /\ StateInv(u, t) /\ Later(u, s.market, t.market)
                    /\ t.rs = s.rs /\ t.new = s.new /\ t.acct = s.acct /\ t.pos = s.pos /\ t.orders = s.orders
                    /\ t.market.open_interest = s.market.open_interest
                    /\ t.market.total_order_count = s.market.total_order_count
                    /\ t.market.ask_nonce = s.market.ask_nonce + k
                    /\ t.market.bid_nonce = s.market.bid_nonce - m
  BY DEF AreTaken
<1>1. /\ Typed(s) /\ TreeInv(u, s.market, s.orders) /\ BookInv(u, s.orders, s.book)
      /\ StackInv(u, s.market, s.orders, s.rs) /\ NewInv(u, s.market, s.orders, s.rs, s.new)
  BY DEF StateInv, TreesInv
<1> DEFINE mk == s.market
           m2 == [mk EXCEPT !.ask_nonce = mk.ask_nonce + k, !.bid_nonce = mk.bid_nonce - m]
<1>2. /\ mk \in MarketSet(u) /\ mk.ask_nonce \in NoncesOf(u) /\ mk.bid_nonce \in NoncesOf(u)
      /\ k + m <= mk.bid_nonce - mk.ask_nonce
  BY <1>1 DEF TreeInv, MarketSet, NoncesOf
<1>3. t = [s EXCEPT !.market = m2]
  <2>1. DOMAIN s = TxFields
    BY <1>1 DEF Typed
  <2> QED
    BY <1>2, <2>1 DEF TakenNonces, TxFields, MarketSet
<1>4. /\ m2 \in MarketSet(u) /\ m2.ask_nonce <= m2.bid_nonce
      /\ m2.ask_nonce = mk.ask_nonce + k /\ m2.bid_nonce = mk.bid_nonce - m
      /\ m2.open_interest = mk.open_interest /\ m2.total_order_count = mk.total_order_count
  <2> DEFINE v == mk.ask_nonce + k
             w == mk.bid_nonce - m
  <2>1. v \in NoncesOf(u) /\ w \in NoncesOf(u) /\ v <= w
    BY <1>2 DEF NoncesOf
  <2>2. m2 = [mk EXCEPT !.ask_nonce = v, !.bid_nonce = w] /\ v = mk.ask_nonce + k /\ w = mk.bid_nonce - m
    OBVIOUS
  <2> HIDE DEF v, w, m2
  <2>3. /\ m2 \in MarketSet(u) /\ m2.ask_nonce = v /\ m2.bid_nonce = w
        /\ m2.open_interest = mk.open_interest /\ m2.total_order_count = mk.total_order_count
    BY <1>2, <2>1, <2>2 DEF MarketSet
  <2> QED
    BY <2>1, <2>2, <2>3
<1>5. mk = s.market
  OBVIOUS
<1> HIDE DEF mk, m2
<1>6. /\ t.rs = s.rs /\ t.new = s.new /\ t.acct = s.acct /\ t.pos = s.pos /\ t.orders = s.orders
      /\ t.book = s.book /\ t.locked = s.locked /\ t.ok = s.ok /\ DOMAIN t = TxFields
      /\ t.market = m2
  BY <1>1, <1>3 DEF Typed, TxFields
<1>7. Later(u, mk, m2)
  BY <1>2, <1>4 DEF Later, NoncesOf
<1>8. TreeInv(u, m2, s.orders)
  BY <1>1, <1>4, <1>5, <1>7, LaterTaken DEF TreeInv
<1>9. /\ StackInv(u, m2, s.orders, s.rs) /\ NewInv(u, m2, s.orders, s.rs, s.new)
  <2>1. Fewer(u, s.orders, s.orders)
    BY DEF Fewer
  <2> QED
    BY <1>1, <1>5, <1>7, <2>1, StackStays, NewStays
<1> QED
  BY <1>1, <1>4, <1>5, <1>6, <1>7, <1>8, <1>9 DEF StateInv, TreesInv, Typed

(* ..., the orders with their links, ...                                   *)
Grouped(o, x, y, z) == [o EXCEPT !.child0 = x, !.child1 = y, !.cancel0 = z]

IsGrouped(u, o, p, x, y, z) ==
  /\ u.max_nonce \in Nat /\ p \in OrderSet(u) /\ o = Grouped(p, x, y, z)
  /\ {x, y, z} \subseteq 0 .. u.max_nonce

(* The links to children and siblings change nothing else of an order.     *)
LEMMA GroupedIsOrder ==
  ASSUME NEW u, NEW o, NEW p, NEW x, NEW y, NEW z, IsGrouped(u, o, p, x, y, z)
  PROVE  /\ o \in OrderSet(u) /\ o.is_ask = p.is_ask /\ o.nonce = p.nonce /\ o.owner = p.owner
         /\ o.trigger_status = p.trigger_status
<1>0. /\ u.max_nonce \in Nat /\ p \in OrderSet(u) /\ o = Grouped(p, x, y, z)
      /\ x \in 0 .. u.max_nonce /\ y \in 0 .. u.max_nonce /\ z \in 0 .. u.max_nonce
  BY DEF IsGrouped
<1>1. p \in OrderRecords /\ InRange(u, p) /\ SizedOrder(p)
  BY <1>0 DEF OrderSet
<1>2. /\ o.nonce = p.nonce /\ o.child0 = x /\ o.child1 = y /\ o.cancel0 = z
      /\ o.remaining = p.remaining /\ o.initial = p.initial /\ o.trigger_status = p.trigger_status
      /\ o.is_ask = p.is_ask /\ o.owner = p.owner
  BY <1>0, <1>1 DEF Grouped, OrderRecords
<1>3. o \in OrderRecords
  <2>1. x \in Nat /\ y \in Nat /\ z \in Nat
    BY <1>0
  <2>2. o = [p EXCEPT !.child0 = x, !.child1 = y, !.cancel0 = z]
    BY <1>0 DEF Grouped
  <2> QED
    BY <1>1, <2>1, <2>2 DEF OrderRecords
<1> QED
  BY <1>0, <1>1, <1>2, <1>3 DEF OrderSet, SizedOrder, InRange

IsNewOrder(u, p, a, f, base, n, status) ==
  /\ u.max_nonce \in Nat /\ a \in Accounts /\ Requested(f) /\ base \in Nat
  /\ n \in 0 .. u.max_nonce /\ status \in TriggerStatuses /\ (status # "NA" => n = 0)
  /\ p = NewOrder(a, f, base, n, status)

(* The order of a request, wherever it is made.                            *)
LEMMA NewIsOrder ==
  ASSUME NEW u, NEW p, NEW a, NEW f, NEW base, NEW n, NEW status,
         IsNewOrder(u, p, a, f, base, n, status)
  PROVE  /\ p \in OrderSet(u) /\ p.owner = a /\ p.is_ask = f.is_ask /\ p.nonce = n
         /\ p.trigger_status = status
<1>1. /\ u.max_nonce \in Nat /\ a \in Accounts /\ Requested(f) /\ base \in Nat
      /\ n \in 0 .. u.max_nonce /\ status \in TriggerStatuses /\ (status # "NA" => n = 0)
      /\ p = NewOrder(a, f, base, n, status)
  BY DEF IsNewOrder
<1> QED
  BY <1>1, NewOrderIsOrder

GroupTypes == {"OCO", "OTO", "OTOCO"}

IsOfGroup(a, g, n, type, i, o) ==
  /\ setup.max_nonce \in Nat /\ a \in Accounts /\ n = Len(g) /\ type \in GroupTypes
  /\ PositionTiedAmount(a) \in Nat /\ ValidGroup(g, type)
  /\ \A k \in 1 .. n : Requested(g[k]) /\ g[k].base \in Nat /\ GroupIndex(g, k) \in 0 .. setup.max_nonce
  /\ i \in 1 .. n /\ o = GroupOrder(a, g, type, i)

(* Only the first order of a group can be active, and then with its own    *)
(* nonce.                                                                  *)
LEMMA GroupOrderIsOrder ==
  ASSUME NEW a, NEW g, NEW n, NEW type, NEW i, NEW o, IsOfGroup(a, g, n, type, i, o)
  PROVE  /\ o \in OrderSet(setup) /\ o.is_ask = g[i].is_ask
         /\ o.trigger_status = "NA" => i = 1 /\ o.nonce = GroupIndex(g, i)
<1> SUFFICES ASSUME setup.max_nonce \in Nat, a \in Accounts, n = Len(g), type \in GroupTypes,
                    PositionTiedAmount(a) \in Nat, ValidGroup(g, type),
                    \A k \in 1 .. n : Requested(g[k]) /\ g[k].base \in Nat
                                      /\ GroupIndex(g, k) \in 0 .. setup.max_nonce,
                    i \in 1 .. n, o = GroupOrder(a, g, type, i)
             PROVE  /\ o \in OrderSet(setup) /\ o.is_ask = g[i].is_ask
                    /\ o.trigger_status = "NA" => i = 1 /\ o.nonce = GroupIndex(g, i)
  BY DEF IsOfGroup
<1> DEFINE f == g[i]
           base == IF i = 1 /\ type # "OCO" /\ g[1].base = 0
                   THEN PositionTiedAmount(a) ELSE g[i].base
           is_parent == type # "OCO" /\ i = 1
           status == IF type = "OCO" THEN "MARK_PRICE" ELSE IF is_parent THEN "NA" ELSE "PARENT_ORDER"
           partner == IF type = "OCO" THEN GroupIndex(g, 3 - i)
                      ELSE IF type = "OTOCO" /\ ~is_parent THEN GroupIndex(g, 5 - i) ELSE NIL
           nonce == IF is_parent THEN GroupIndex(g, i) ELSE NIL
           c0 == IF is_parent THEN GroupIndex(g, 2) ELSE NIL
           c1 == IF is_parent /\ type = "OTOCO" THEN GroupIndex(g, 3) ELSE NIL
           p == NewOrder(a, f, base, nonce, status)
<1>1. n \in {2, 3} /\ (type = "OCO" => n = 2) /\ (type = "OTOCO" => n = 3)
  BY DEF ValidGroup, GroupTypes
<1>2. o = Grouped(p, c0, c1, partner)
  BY DEF GroupOrder, Grouped
<1>3. Requested(f) /\ base \in Nat /\ f.is_ask = g[i].is_ask
  <2>1. 1 \in 1 .. n
    BY <1>1
  <2> QED
    BY <2>1
<1>4. status \in TriggerStatuses /\ (status # "NA" => nonce = 0) /\ (status = "NA" => is_parent)
  BY DEF TriggerStatuses, NIL
<1>5. nonce \in 0 .. setup.max_nonce /\ c0 \in 0 .. setup.max_nonce /\ c1 \in 0 .. setup.max_nonce
  BY <1>1 DEF NIL
<1>6. partner \in 0 .. setup.max_nonce
  <2>0. (n = 2 => i \in 1 .. 2) /\ (n = 3 => i \in 1 .. 3)
    OBVIOUS
  <2>1. type = "OCO" => 3 - i \in 1 .. n
    <3>1. i \in 1 .. 2 => 3 - i \in 1 .. 2
      OBVIOUS
    <3> QED
      BY <1>1, <2>0, <3>1
  <2>2. (type = "OTOCO" /\ ~is_parent) => 5 - i \in 1 .. n
    <3>1. (i \in 1 .. 3 /\ i # 1) => 5 - i \in 1 .. 3
      OBVIOUS
    <3>2. (type = "OTOCO" /\ ~is_parent) => i # 1
      OBVIOUS
    <3> HIDE DEF is_parent
    <3> QED
      BY <1>1, <2>0, <3>1, <3>2
  <2> QED
    BY <2>1, <2>2 DEF NIL
<1>7. is_parent => i = 1 /\ nonce = GroupIndex(g, i)
  OBVIOUS
<1>8. p = NewOrder(a, f, base, nonce, status)
  OBVIOUS
<1> HIDE DEF f, base, is_parent, status, partner, nonce, c0, c1, p
<1>9. IsNewOrder(setup, p, a, f, base, nonce, status)
  BY <1>3, <1>4, <1>5, <1>8 DEF IsNewOrder
<1>10. /\ p \in OrderSet(setup) /\ p.owner = a /\ p.is_ask = f.is_ask /\ p.nonce = nonce
       /\ p.trigger_status = status
  BY <1>9, NewIsOrder
<1>11. IsGrouped(setup, o, p, c0, c1, partner)
  BY <1>2, <1>5, <1>6, <1>10 DEF IsGrouped
<1>12. o \in OrderSet(setup) /\ o.is_ask = p.is_ask /\ o.nonce = p.nonce /\ o.trigger_status = p.trigger_status
  BY <1>11, GroupedIsOrder
<1> QED
  BY <1>3, <1>4, <1>7, <1>10, <1>12

(* The places of two or three pending orders are allowed ones.             *)
LEMMA PlacedIsAllowed ==
  ASSUME NEW new, NEW n \in 1 .. 3, new.count = n,
         \A j \in NewSlots : new.slot[j] # EmptyRegister <=> j \in 3 - n .. 2,
         NEW r, r.count = 0, NEW three, three = 3
  PROVE  PushAllowed(r, new, three)
<1> DEFINE p(i) == PlacedCount(new.slot, i)
           full(i) == IF new.slot[i] # EmptyRegister THEN 1 ELSE 0
<1>1. p(0) = 0 /\ \A i \in 0 .. 7 : p(i + 1) = p(i) + full(i)
  BY PlacedSteps
<1>2. \A i \in 0 .. 2 : full(i) = IF i \in 3 - n .. 2 THEN 1 ELSE 0
  BY DEF NewSlots, NEW_INSTRUCTIONS_MAX_SIZE
<1> HIDE DEF full
<1>3. p(0 + 1) = p(0) + full(0)
  BY <1>1
<1>4. p(1 + 1) = p(1) + full(1)
  BY <1>1
<1>5. p(2 + 1) = p(2) + full(2)
  BY <1>1
<1> HIDE DEF p
<1>6. full(0) = (IF 0 \in 3 - n .. 2 THEN 1 ELSE 0) /\ full(1) = (IF 1 \in 3 - n .. 2 THEN 1 ELSE 0)
      /\ full(2) = (IF 2 \in 3 - n .. 2 THEN 1 ELSE 0)
  BY <1>2
<1>7. p(3) = n
  BY <1>1, <1>3, <1>4, <1>5, <1>6
<1> QED
  BY <1>7 DEF PushAllowed, REGISTER_STACK_SIZE, p

(* ... and the instructions that insert them, the last one on top.         *)
IsInserted(u, s, o, i, k, t) ==
  /\ u.max_nonce \in Nat /\ StateInv(u, s) /\ s.rs.count = 0
  /\ o \in OrderSet(u) /\ IndexTaken(u, s.market, i) /\ s.orders[i] = NoOrder
  /\ k \in 0 .. 2 /\ t = InsertPut(s, o, i, k)
  /\ \A j \in NewSlots : s.new.slot[j] # EmptyRegister =>
       IsInsert(s.new.slot[j]) /\ s.new.slot[j].index # i /\ j > k
  /\ o.trigger_status = "NA" =>
       /\ NonceTaken(u, s.market, o) /\ Fresh(u, s.orders, o.nonce)
       /\ \A j \in NewSlots : s.new.slot[j] = EmptyRegister

(* One order of the group is put aside.                                    *)
LEMMA GroupPut ==
  ASSUME NEW u, NEW s, NEW o, NEW i, NEW k, NEW t, IsInserted(u, s, o, i, k, t)
  PROVE  /\ StateInv(u, t) /\ OnlyNew(s, t) /\ t.new.count = s.new.count + 1
         /\ IsInsert(t.new.slot[k]) /\ t.new.slot[k].index = i /\ t.new.slot[k] # EmptyRegister
         /\ \A j \in NewSlots : j # k => t.new.slot[j] = s.new.slot[j]
<1>1. /\ u.max_nonce \in Nat /\ StateInv(u, s) /\ s.rs.count = 0
      /\ o \in OrderSet(u) /\ IndexTaken(u, s.market, i) /\ s.orders[i] = NoOrder
      /\ k \in NewSlots /\ t = InsertPut(s, o, i, k)
  BY DEF IsInserted, NewSlots, NEW_INSTRUCTIONS_MAX_SIZE
<1>2. /\ \A j \in NewSlots : IsInsert(s.new.slot[j]) => s.new.slot[j].index # i
      /\ \A j \in NewSlots : j < k => ~CanTrade(s.new.slot[j])
  BY DEF IsInserted, IsInsert, CanTrade, NewSlots, NEW_INSTRUCTIONS_MAX_SIZE
<1>3. o.trigger_status = "NA" =>
        /\ NonceTaken(u, s.market, o) /\ Fresh(u, s.orders, o.nonce)
        /\ \A j \in NewSlots : j > k => s.new.slot[j] = EmptyRegister
  BY DEF IsInserted
<1>4. /\ StateInv(u, t) /\ OnlyNew(s, t) /\ t.new.count = s.new.count + 1
      /\ IsInsert(t.new.slot[k]) /\ t.new.slot[k].order = o /\ t.new.slot[k].index = i
      /\ \A j \in NewSlots : j # k => t.new.slot[j] = s.new.slot[j]
  BY <1>1, <1>2, <1>3, InsertIsPut
<1> QED
  BY <1>4 DEF IsInsert

(* l2_create_grouped_orders keeps the invariant.                           *)
LEMMA L2CreateGroupedOrdersStep ==
  ASSUME IInv, NEW a \in Accounts, NEW g \in Seq(Requests), NEW type \in GroupTypes,
         NEW c \in Verdicts, L2CreateGroupedOrders(a, g, type, c)
  PROVE  IInv' /\ GoodStep /\ Matched
<1> DEFINE n == Len(g)
           asks == GroupAsks(g, n)
           bids == n - asks
           s0 == TakenNonces(Tx, asks, bids)
           x(i) == GroupIndex(g, i)
           o(i) == GroupOrder(a, g, type, i)
           s1 == InsertPut(s0, o(1), x(1), 2)
           s2 == InsertPut(s1, o(2), x(2), 1)
           s3 == InsertPut(s2, o(3), x(3), 0)
           last == IF n = 3 THEN s3 ELSE s2
<1>1. /\ IsEmpty(rs) /\ ValidGroup(g, type) /\ n <= market.bid_nonce - market.ask_nonce
  BY DEF L2CreateGroupedOrders, UserTransaction
<1>2. n \in {2, 3}
  BY <1>1 DEF ValidGroup, GroupTypes
<1>3. Become(ApplyAndMatch(last, c))
  <2> DEFINE put(s, i) == Put(s, i <= n, InsertOrder(GroupOrder(a, g, type, i), GroupIndex(g, i)), 3 - i)
             old == [Tx EXCEPT !.market.ask_nonce = @ + Cardinality({i \in 1 .. n : g[i].is_ask}),
                               !.market.bid_nonce = @ - (n - Cardinality({i \in 1 .. n : g[i].is_ask}))]
             final == IF n = 3 THEN put(put(put(old, 1), 2), 3) ELSE put(put(old, 1), 2)
  <2>1. Become(ApplyAndMatch(final, c))
    BY DEF L2CreateGroupedOrders
  <2>2. old = s0
    BY DEF TakenNonces, GroupAsks
  <2> HIDE DEF old, s0
  <2>n. 1 <= n /\ 2 <= n /\ (n = 3 => 3 <= n) /\ 3 - 1 = 2 /\ 3 - 2 = 1 /\ 3 - 3 = 0
    BY <1>2
  <2> HIDE DEF n
  <2>3. put(s0, 1) = s1
    BY Zenon, <2>n DEF Put, InsertPut
  <2> HIDE DEF s1
  <2>4. put(s1, 2) = s2
    BY Zenon, <2>n DEF Put, InsertPut
  <2> HIDE DEF s2
  <2>5. n = 3 => put(s2, 3) = s3
    BY Zenon, <2>n DEF Put, InsertPut
  <2> HIDE DEF put, s3
  <2>6. final = last
    BY <2>2, <2>3, <2>4, <2>5
  <2> QED
    BY <2>1, <2>6
<1>4. /\ setup.max_nonce \in Nat /\ StateInv(setup, Tx) /\ rs.count = 0 /\ Verdict(c)
      /\ Tx.rs = rs /\ Tx.new = NoNewInstructions /\ Tx.acct = acct /\ Tx.pos = pos
      /\ Tx.orders = orders /\ Tx.market = market /\ PositionTiedAmount(a) \in Nat
      /\ TreeInv(setup, market, orders) /\ market \in MarketSet(setup)
  <2>1. TreeInv(setup, market, orders)
    BY TxFacts DEF TreesInv
  <2> QED
    BY <1>1, <2>1, SetupFacts, TxFacts DEF IInv
<1>5. \A i \in 1 .. n : Requested(g[i]) /\ g[i].base \in Nat /\ g[i].is_ask \in BOOLEAN
  <2> SUFFICES ASSUME NEW i \in 1 .. n PROVE Requested(g[i]) /\ g[i].base \in Nat /\ g[i].is_ask \in BOOLEAN
    OBVIOUS
  <2> DEFINE f == g[i]
  <2>1. f \in Requests
    OBVIOUS
  <2> HIDE DEF f
  <2>2. Requested(f) /\ f.base \in Nat
    BY <2>1, RequestIsRequested
  <2> QED
    BY <2>2 DEF f, Requested
<1>6. 1 \in 1 .. n /\ 2 \in 1 .. n /\ (n = 3 => 3 \in 1 .. n) /\ n = Len(g)
  BY <1>2
<1>7. /\ s0 = TakenNonces(Tx, asks, bids) /\ asks = GroupAsks(g, n) /\ bids = n - asks
      /\ n <= Tx.market.bid_nonce - Tx.market.ask_nonce
  BY <1>1, <1>4
<1>8. \A i : x(i) = GroupIndex(g, i) /\ o(i) = GroupOrder(a, g, type, i)
  OBVIOUS
<1> HIDE DEF n, asks, bids, s0, x, o
<1>9. /\ asks \in 0 .. n
      /\ \A i \in 1 .. n : IF g[i].is_ask
           THEN x(i) \in market.ask_nonce .. market.ask_nonce + asks - 1
           ELSE x(i) \in market.bid_nonce - bids + 1 .. market.bid_nonce
      /\ \A i, j \in 1 .. n : i # j => x(i) # x(j)
  BY <1>1, <1>2, <1>5, <1>7, <1>8, GroupIndices
<1>10. bids \in Nat /\ asks \in Nat /\ asks + bids = n /\ bids <= n
  BY <1>2, <1>7, <1>9
<1>11. /\ StateInv(setup, s0) /\ Later(setup, Tx.market, s0.market)
       /\ s0.rs = rs /\ s0.new = NoNewInstructions /\ s0.acct = acct /\ s0.pos = pos /\ s0.orders = orders
       /\ s0.market.open_interest = market.open_interest
       /\ s0.market.total_order_count = market.total_order_count
       /\ s0.market.ask_nonce = market.ask_nonce + asks /\ s0.market.bid_nonce = market.bid_nonce - bids
  <2>1. asks + bids <= Tx.market.bid_nonce - Tx.market.ask_nonce
    BY <1>7, <1>10
  <2>2. AreTaken(setup, Tx, asks, bids, s0)
    BY <1>4, <1>7, <1>10, <2>1 DEF AreTaken
  <2> DEFINE s == Tx
  <2>3. s = Tx
    OBVIOUS
  <2> HIDE DEF s
  <2>4. AreTaken(setup, s, asks, bids, s0)
    BY <2>2, <2>3
  <2>5. /\ StateInv(setup, s0) /\ Later(setup, s.market, s0.market)
        /\ s0.rs = s.rs /\ s0.new = s.new /\ s0.acct = s.acct /\ s0.pos = s.pos /\ s0.orders = s.orders
        /\ s0.market.open_interest = s.market.open_interest
        /\ s0.market.total_order_count = s.market.total_order_count
        /\ s0.market.ask_nonce = s.market.ask_nonce + asks /\ s0.market.bid_nonce = s.market.bid_nonce - bids
    BY <2>4, GroupBumped
  <2> QED
    BY <1>4, <2>3, <2>5
<1>12. \A i \in 1 .. n : /\ x(i) \in NoncesOf(setup) /\ IndexTaken(setup, s0.market, x(i))
                         /\ orders[x(i)] = NoOrder /\ x(i) \in 0 .. setup.max_nonce
  <2> SUFFICES ASSUME NEW i \in 1 .. n
               PROVE  /\ x(i) \in NoncesOf(setup) /\ IndexTaken(setup, s0.market, x(i))
                      /\ orders[x(i)] = NoOrder /\ x(i) \in 0 .. setup.max_nonce
    OBVIOUS
  <2> DEFINE v == x(i)
             a0 == market.ask_nonce
             b0 == market.bid_nonce
  <2>1. v \in a0 .. a0 + asks - 1 \/ v \in b0 - bids + 1 .. b0
    BY <1>9
  <2>2. a0 \in 1 .. setup.max_nonce /\ b0 \in 1 .. setup.max_nonce /\ n <= b0 - a0
    BY <1>1, <1>4, <1>7 DEF MarketSet, NoncesOf
  <2>3. s0.market.ask_nonce = a0 + asks /\ s0.market.bid_nonce = b0 - bids
    BY <1>11
  <2> HIDE DEF v, a0, b0
  <2>4. v \in 1 .. setup.max_nonce /\ v >= a0 /\ v <= b0
    BY <1>2, <1>4, <1>10, <2>1, <2>2
  <2>5. v < a0 + asks \/ v > b0 - bids
    BY <1>2, <1>4, <1>10, <2>1, <2>2
  <2>6. IndexTaken(setup, s0.market, v) /\ ~IndexTaken(setup, market, v)
    BY <2>3, <2>4, <2>5, <2>2 DEF IndexTaken, NoncesOf, a0, b0
  <2>7. orders[v] = NoOrder
    BY <1>4, <2>4, <2>6 DEF TreeInv, NoncesOf
  <2> QED
    BY <1>4, <2>4, <2>6, <2>7 DEF v, NoncesOf
<1>13. \A i \in 1 .. n : /\ o(i) \in OrderSet(setup) /\ o(i).is_ask = g[i].is_ask
                         /\ o(i).trigger_status = "NA" => i = 1 /\ o(i).nonce = x(i)
  <2> SUFFICES ASSUME NEW i \in 1 .. n
               PROVE  /\ o(i) \in OrderSet(setup) /\ o(i).is_ask = g[i].is_ask
                      /\ o(i).trigger_status = "NA" => i = 1 /\ o(i).nonce = x(i)
    OBVIOUS
  <2>1. \A k \in 1 .. n : Requested(g[k]) /\ g[k].base \in Nat /\ GroupIndex(g, k) \in 0 .. setup.max_nonce
    BY <1>5, <1>8, <1>12
  <2>2. o(i) = GroupOrder(a, g, type, i)
    BY <1>8
  <2>3. /\ o(i) \in OrderSet(setup) /\ o(i).is_ask = g[i].is_ask
        /\ o(i).trigger_status = "NA" => i = 1 /\ o(i).nonce = GroupIndex(g, i)
    <3> DEFINE p == o(i)
    <3>1. p = GroupOrder(a, g, type, i)
      BY <2>2
    <3> HIDE DEF p
    <3>2. IsOfGroup(a, g, n, type, i, p)
      BY <1>1, <1>4, <1>6, <2>1, <3>1 DEF IsOfGroup
    <3>3. /\ p \in OrderSet(setup) /\ p.is_ask = g[i].is_ask
          /\ p.trigger_status = "NA" => i = 1 /\ p.nonce = GroupIndex(g, i)
      BY <3>2, GroupOrderIsOrder
    <3> QED
      BY <3>3 DEF p
  <2> QED
    BY <1>8, <2>3
<1>14. o(1).trigger_status = "NA" => NonceTaken(setup, s0.market, o(1)) /\ Fresh(setup, orders, o(1).nonce)
  <2> SUFFICES ASSUME o(1).trigger_status = "NA"
               PROVE  NonceTaken(setup, s0.market, o(1)) /\ Fresh(setup, orders, o(1).nonce)
    OBVIOUS
  <2> DEFINE v == x(1)
             a0 == market.ask_nonce
             b0 == market.bid_nonce
             is_ask == g[1].is_ask
  <2>1. /\ is_ask => v \in a0 .. a0 + asks - 1
        /\ ~is_ask => v \in b0 - bids + 1 .. b0
        /\ o(1).nonce = v /\ o(1).is_ask = is_ask
    BY <1>6, <1>9, <1>13
  <2>2. a0 \in 1 .. setup.max_nonce /\ b0 \in 1 .. setup.max_nonce /\ n <= b0 - a0
    BY <1>1, <1>4, <1>7 DEF MarketSet, NoncesOf
  <2>3. s0.market.ask_nonce = a0 + asks /\ s0.market.bid_nonce = b0 - bids
    BY <1>11
  <2>4. NonceTaken(setup, s0.market, o(1))
    <3> HIDE DEF v, a0, b0, is_ask
    <3> QED
      BY <1>4, <1>10, <2>1, <2>2, <2>3, SMTT(30) DEF NonceTaken
  <2>5. Fresh(setup, orders, v)
    <3> SUFFICES ASSUME NEW j \in NoncesOf(setup), Active(orders, j), orders[j].nonce = v PROVE FALSE
      BY DEF Fresh
    <3>1. NonceTaken(setup, market, orders[j])
      BY <1>4 DEF TreeInv
    <3>2. orders[j].nonce < a0 \/ orders[j].nonce > b0
      BY <3>1, <2>2 DEF NonceTaken
    <3> HIDE DEF v, a0, b0, is_ask
    <3>3. v >= a0 /\ v <= b0 /\ v \in Int
      BY <1>2, <1>10, <2>1, <2>2
    <3> QED
      BY <2>2, <3>2, <3>3
  <2> QED
    BY <2>1, <2>4, <2>5
<1> DEFINE two == 2
           one == 1
           zero == 0
           o1 == o(1)
           o2 == o(2)
           o3 == o(3)
           x1 == x(1)
           x2 == x(2)
           x3 == x(3)
<1>15. /\ s1 = InsertPut(s0, o1, x1, two) /\ s2 = InsertPut(s1, o2, x2, one)
       /\ s3 = InsertPut(s2, o3, x3, zero) /\ last = IF n = 3 THEN s3 ELSE s2
  BY DEF n
<1>16. two = 2 /\ one = 1 /\ zero = 0
  OBVIOUS
<1>17. /\ o1 \in OrderSet(setup) /\ o2 \in OrderSet(setup) /\ o2.trigger_status # "NA"
       /\ n = 3 => o3 \in OrderSet(setup) /\ o3.trigger_status # "NA"
  BY <1>6, <1>13
<1>18. /\ IndexTaken(setup, s0.market, x1) /\ orders[x1] = NoOrder
       /\ IndexTaken(setup, s0.market, x2) /\ orders[x2] = NoOrder /\ x1 # x2
       /\ n = 3 => IndexTaken(setup, s0.market, x3) /\ orders[x3] = NoOrder /\ x1 # x3 /\ x2 # x3
  BY <1>6, <1>9, <1>12
<1>19. o1.trigger_status = "NA" => NonceTaken(setup, s0.market, o1) /\ Fresh(setup, orders, o1.nonce)
  BY <1>14
<1> HIDE DEF s1, s2, s3, last, two, one, zero, o1, o2, o3, x1, x2, x3
<1>20. NewSlots = 0 .. 7
  BY DEF NewSlots, NEW_INSTRUCTIONS_MAX_SIZE
<1>21. s0.new.count = 0 /\ \A j \in NewSlots : s0.new.slot[j] = EmptyRegister
  BY <1>11 DEF NoNewInstructions
<1>22. /\ StateInv(setup, s1) /\ OnlyNew(s0, s1) /\ s1.new.count = 1
       /\ IsInsert(s1.new.slot[2]) /\ s1.new.slot[2].index = x1 /\ s1.new.slot[2] # EmptyRegister
       /\ \A j \in NewSlots : j # 2 => s1.new.slot[j] = EmptyRegister
  <2>1. IsInserted(setup, s0, o1, x1, two, s1)
    BY <1>4, <1>11, <1>15, <1>16, <1>17, <1>18, <1>19, <1>21 DEF IsInserted
  <2>2. /\ StateInv(setup, s1) /\ OnlyNew(s0, s1) /\ s1.new.count = s0.new.count + 1
        /\ IsInsert(s1.new.slot[two]) /\ s1.new.slot[two].index = x1 /\ s1.new.slot[two] # EmptyRegister
        /\ \A j \in NewSlots : j # two => s1.new.slot[j] = s0.new.slot[j]
    BY <2>1, GroupPut
  <2> QED
    BY <1>16, <1>21, <2>2
<1>23. /\ StateInv(setup, s2) /\ OnlyNew(s0, s2) /\ s2.new.count = 2
       /\ IsInsert(s2.new.slot[1]) /\ s2.new.slot[1].index = x2 /\ s2.new.slot[1] # EmptyRegister
       /\ IsInsert(s2.new.slot[2]) /\ s2.new.slot[2].index = x1 /\ s2.new.slot[2] # EmptyRegister
       /\ \A j \in NewSlots : (j # 1 /\ j # 2) => s2.new.slot[j] = EmptyRegister
  <2>1. IsInserted(setup, s1, o2, x2, one, s2)
    BY <1>4, <1>11, <1>15, <1>16, <1>17, <1>18, <1>20, <1>22 DEF IsInserted, OnlyNew
  <2>2. /\ StateInv(setup, s2) /\ OnlyNew(s1, s2) /\ s2.new.count = s1.new.count + 1
        /\ IsInsert(s2.new.slot[one]) /\ s2.new.slot[one].index = x2 /\ s2.new.slot[one] # EmptyRegister
        /\ \A j \in NewSlots : j # one => s2.new.slot[j] = s1.new.slot[j]
    BY <2>1, GroupPut
  <2>3. OnlyNew(s0, s2)
    BY <1>22, <2>2 DEF OnlyNew
  <2> QED
    BY <1>16, <1>20, <1>22, <2>2, <2>3
<1>24. n = 3 =>
       /\ StateInv(setup, s3) /\ OnlyNew(s0, s3) /\ s3.new.count = 3
       /\ \A j \in NewSlots : j \in 0 .. 2 => IsInsert(s3.new.slot[j]) /\ s3.new.slot[j] # EmptyRegister
       /\ \A j \in NewSlots : j \notin 0 .. 2 => s3.new.slot[j] = EmptyRegister
  <2> SUFFICES ASSUME n = 3
               PROVE /\ StateInv(setup, s3) /\ OnlyNew(s0, s3) /\ s3.new.count = 3
                     /\ \A j \in NewSlots : j \in 0 .. 2 => IsInsert(s3.new.slot[j]) /\ s3.new.slot[j] # EmptyRegister
                     /\ \A j \in NewSlots : j \notin 0 .. 2 => s3.new.slot[j] = EmptyRegister
    OBVIOUS
  <2>1. IsInserted(setup, s2, o3, x3, zero, s3)
    BY <1>4, <1>11, <1>15, <1>16, <1>17, <1>18, <1>20, <1>23 DEF IsInserted, OnlyNew
  <2>2. /\ StateInv(setup, s3) /\ OnlyNew(s2, s3) /\ s3.new.count = s2.new.count + 1
        /\ IsInsert(s3.new.slot[zero]) /\ s3.new.slot[zero].index = x3 /\ s3.new.slot[zero] # EmptyRegister
        /\ \A j \in NewSlots : j # zero => s3.new.slot[j] = s2.new.slot[j]
    BY <2>1, GroupPut
  <2>3. OnlyNew(s0, s3)
    BY <1>23, <2>2 DEF OnlyNew
  <2> QED
    BY <1>16, <1>20, <1>23, <2>2, <2>3
<1>25. /\ StateInv(setup, last) /\ OnlyNew(s0, last) /\ last.new.count = n
       /\ \A j \in NewSlots : last.new.slot[j] # EmptyRegister <=> j \in 3 - n .. 2
       /\ \A j \in NewSlots : last.new.slot[j] # EmptyRegister => IsInsert(last.new.slot[j])
  <2>1. CASE n = 2
    BY <1>15, <1>20, <1>23, <2>1
  <2>2. CASE n = 3
    BY <1>15, <1>20, <1>24, <2>2
  <2> QED
    BY <1>2, <2>1, <2>2 DEF n
<1> DEFINE three == 3
           new == last.new
<1>26. three = 3 /\ new = last.new
  OBVIOUS
<1> HIDE DEF three, new
<1>27. /\ last.rs = rs /\ last.acct = acct /\ last.pos = pos /\ last.orders = orders
       /\ last.market.open_interest = market.open_interest /\ last.rs.count = 0
       /\ last.market.total_order_count = market.total_order_count
  BY <1>4, <1>11, <1>25 DEF OnlyNew
<1>28. PushAllowed(last.rs, new, three)
  <2>1. n \in 1 .. 3
    BY <1>2 DEF n
  <2> QED
    BY <1>25, <1>26, <1>27, <2>1, PlacedIsAllowed
<1>29. last.new.count # 0
  BY <1>2, <1>25
<1>30. PushAllowed(last.rs, last.new, three)
  BY <1>26, <1>28
<1> QED
  BY <1>3, <1>4, <1>25, <1>26, <1>27, <1>29, <1>30, MatchStep

-----------------------------------------------------------------------------
(* The invariant holds in every state, and every step is a good one.       *)
LEMMA InitInv == Init => IInv
<1> SUFFICES ASSUME Init PROVE IInv
  OBVIOUS
<1>1. SetupInv
  BY DEF Init, SetupInv
<1>2. /\ setup.max_nonce \in Nat \ {0} /\ setup.open_interest_notional \in Nat
      /\ Nonces = NoncesOf(setup) /\ InitialMark \in Nat \ {0}
  BY <1>1, SetupFacts
<1>3. /\ Tx.rs = rs /\ Tx.new = NoNewInstructions /\ Tx.market = market /\ Tx.acct = acct
      /\ Tx.pos = pos /\ Tx.orders = orders /\ Tx.book = book /\ Tx.locked = locked
      /\ Tx.ok = TRUE /\ DOMAIN Tx = TxFields
  BY DEF Tx, TxFields
<1>4. now \in Nat /\ mark \in Nat \ {0}
  BY <1>2 DEF Init
<1>5. /\ acct \in AcctTree /\ pos \in PosTree /\ locked \in LockTree
  BY DEF Init, AcctTree, PosTree, PosSet, LockTree, NIL
<1>6. /\ market \in MarketSet(setup) /\ market.ask_nonce <= market.bid_nonce
      /\ market.open_interest = 0
  BY <1>2 DEF Init, MarketSet, NoncesOf, FIRST_ASK_NONCE, FIRST_BID_NONCE, MaxNonce
<1>7. orders \in OrderTree(setup) /\ \A i \in NoncesOf(setup) : orders[i] = NoOrder
  BY <1>2 DEF Init, OrderTree
<1>8. TreeInv(setup, market, orders)
  BY <1>6, <1>7 DEF TreeInv, Active
<1>9. BookInv(setup, orders, book)
  <2>1. book = {}
    BY DEF Init
  <2>2. LeavesOf(setup, orders) = {}
    BY <1>7 DEF LeavesOf, Active
  <2> QED
    BY <2>1, <2>2 DEF BookInv, NotCrossed
<1>10. StackInv(setup, market, orders, rs)
  <2>1. rs = EmptyStack
    BY DEF Init
  <2>2. /\ DOMAIN rs = {"stack", "count"} /\ rs.count = 0 /\ rs.stack = [k \in Slots |-> EmptyRegister]
    BY <2>1 DEF EmptyStack
  <2>3. /\ rs.stack \in [Slots -> Registers(setup)] /\ Slots \subseteq Nat
        /\ \A k \in Slots : rs.stack[k] = EmptyRegister
    BY <2>2 DEF Registers, Slots, REGISTER_STACK_SIZE
  <2> QED
    BY <2>2, <2>3 DEF StackInv, IsInsert, CanTrade
<1>11. NewInv(setup, market, orders, rs, NoNewInstructions)
  BY DEF NewInv, NoNewInstructions, NewSlots, NEW_INSTRUCTIONS_MAX_SIZE, Registers, IsInsert, CanTrade
<1>12. OpenInterestFits
  <2>1. market.open_interest * mark = 0 /\ MARKET_OPEN_INTEREST_NOTIONAL \in Nat
    BY <1>2, <1>4, <1>6 DEF MARKET_OPEN_INTEREST_NOTIONAL
  <2> QED
    BY <2>1 DEF OpenInterestFits
<1> QED
  BY <1>1, <1>3, <1>4, <1>5, <1>8, <1>9, <1>10, <1>11, <1>12 DEF IInv, StateInv, TreesInv, Typed

(* Every transaction of a user or of L1 keeps it ...                       *)
LEMMA UserStep == ASSUME IInv, UserNext PROVE IInv' /\ GoodStep
<1>1. /\ CreateRequests \subseteq Requests /\ ModifyRequests \subseteq Modifications
      /\ \A g \in GroupRequests : g.orders \in Seq(Requests) /\ g.type \in GroupTypes
  BY SetupFacts DEF IInv, GroupTypes
<1>2. ASSUME NEW i \in Nonces, NEW r \in ModifyRequests, L2ModifyOrder(i, r) PROVE IInv' /\ GoodStep
  BY <1>1, <1>2, L2ModifyOrderStep
<1>3. ASSUME NEW i \in Nonces, L2CancelOrder(i) PROVE IInv' /\ GoodStep
  BY <1>3, L2CancelOrderStep
<1>4. ASSUME NEW a \in Accounts, NEW f \in CreateRequests, NEW c \in Verdicts, L2CreateOrder(a, f, c)
      PROVE  IInv' /\ GoodStep
  BY <1>4, L2CreateOrderStep
<1>5. ASSUME NEW a \in Accounts, NEW g \in GroupRequests, NEW c \in Verdicts,
             L2CreateGroupedOrders(a, g.orders, g.type, c)
      PROVE  IInv' /\ GoodStep
  <2> DEFINE list == g.orders
             type == g.type
  <2>1. list \in Seq(Requests) /\ type \in GroupTypes /\ L2CreateGroupedOrders(a, list, type, c)
    BY <1>1, <1>5
  <2> HIDE DEF list, type
  <2> QED
    BY <2>1, L2CreateGroupedOrdersStep
<1>6. ASSUME NEW a \in Accounts, NEW f \in L1Requests, NEW c \in Verdicts, L1CreateOrder(a, f, c)
      PROVE  IInv' /\ GoodStep
  BY <1>6, L1CreateOrderStep
<1>7. ASSUME NEW a \in Accounts, NEW kind \in CancelAllRequests, NEW time \in 0 .. MaxTime,
             L2CancelAllOrders(a, kind, time)
      PROVE  IInv' /\ GoodStep
  BY <1>7, L2CancelAllOrdersStep
<1>8. ASSUME NEW a \in Accounts, L1CancelAllOrders(a) PROVE IInv' /\ GoodStep
  BY <1>8, OtherCancelAllSteps
<1>9. ASSUME NEW a \in Accounts, NEW isolated \in BOOLEAN, L2UpdateLeverage(a, isolated)
      PROVE  IInv' /\ GoodStep
  BY <1>9, L2UpdateLeverageStep
<1> QED
  BY <1>2, <1>3, <1>4, <1>5, <1>6, <1>7, <1>8, <1>9 DEF UserNext

(* ... every transaction of the sequencer ...                              *)
LEMMA SequencerStep == ASSUME IInv, SequencerNext PROVE IInv' /\ GoodStep
<1>1. ASSUME NEW i \in Nonces, InternalCancelExpiredOrder(i) PROVE IInv' /\ GoodStep
  BY <1>1, InternalCancelExpiredOrderStep
<1>2. ASSUME NEW i \in Nonces, InternalTriggerOrder(i) PROVE IInv' /\ GoodStep
  BY <1>2, InternalTriggerOrderStep
<1>3. ASSUME NEW i \in Nonces, NEW base \in TwapSlices,
             InternalCreateTwapSlice(i, base, orders[i].price)
      PROVE  IInv' /\ GoodStep
  BY <1>3, InternalCreateTwapSliceStep
<1>4. ASSUME NEW a \in Accounts, InternalCancelAllDms(a) PROVE IInv' /\ GoodStep
  BY <1>4, OtherCancelAllSteps
<1>5. ASSUME NEW a \in Accounts, InternalCancelAllLiquidation(a) PROVE IInv' /\ GoodStep
  BY <1>5, InternalCancelAllLiquidationStep
<1>6. ASSUME NEW a \in Accounts, NEW base \in 1 .. PositionTiedAmount(a),
             NEW price \in LiquidationPrices, NEW c \in Verdicts,
             InternalLiquidatePosition(a, base, price, c)
      PROVE  IInv' /\ GoodStep
  BY <1>6, InternalLiquidatePositionStep
<1> QED
  BY <1>1, <1>2, <1>3, <1>4, <1>5, <1>6 DEF SequencerNext

(* ... and every transaction that an instruction on top calls for.         *)
LEMMA RegisterStep == ASSUME IInv, RegisterNext PROVE IInv' /\ GoodStep
BY InternalClaimOrderStep, InternalCancelSingleOrderStep, InternalCancelOneOfAllStep,
   InternalTriggerChildOrderStep, InternalTransferStep DEF RegisterNext

(* So every step keeps it, and is a good one or a stutter.                 *)
LEMMA NextInv == ASSUME IInv, [Next]_vars PROVE IInv' /\ (GoodStep \/ UNCHANGED vars)
<1>1. CASE UserNext
  BY <1>1, UserStep
<1>2. CASE SequencerNext
  BY <1>2, SequencerStep
<1>3. CASE RegisterNext
  BY <1>3, RegisterStep
<1>4. CASE BlockNext
  BY <1>4, TickStep, UpdateMarkPriceStep DEF BlockNext
<1>5. CASE UNCHANGED vars
  <2>1. /\ setup' = setup /\ now' = now /\ mark' = mark /\ market' = market /\ Tx' = Tx
    BY <1>5 DEF vars, Tx
  <2>2. /\ SetupInv' /\ (now \in Nat)' /\ (mark \in Nat \ {0})' /\ StateInv(setup', Tx')
        /\ OpenInterestFits'
    BY <2>1 DEF IInv, SetupInv, OpenInterestFits, MARKET_OPEN_INTEREST_NOTIONAL
  <2> QED
    BY <1>5, <2>2 DEF IInv
<1> QED
  BY <1>1, <1>2, <1>3, <1>4, <1>5 DEF Next

(* The invariant holds in every state of every behaviour.                  *)
LEMMA SpecInv == Spec => []IInv
<1>1. IInv /\ [Next]_vars => IInv'
  BY NextInv
<1> QED
  BY <1>1, InitInv, PTL DEF Spec

(* No step of any behaviour moves a position, or the open interest, but    *)
(* by a good trade.                                                        *)
LEMMA SpecGood == Spec => [][GoodStep]_vars
<1>1. IInv /\ [Next]_vars => [GoodStep]_vars
  BY NextInv
<1> QED
  BY <1>1, SpecInv, PTL DEF Spec

-----------------------------------------------------------------------------
(* Market orders are never short of what they gained at better prices than *)
(* theirs (matching_engine.rs, the slippage accumulator of the register),  *)
(* whatever the requests, the marks and the order of the transactions.     *)
THEOREM MarketOrdersKeepTheirPrice == Spec => []SlippageCovered
<1>1. IInv => SlippageCovered
  <2> SUFFICES ASSUME IInv, NEW k \in 0 .. rs.count - 1, rs.stack[k].type = "INSERT_ORDER",
                      MarketFlag(rs.stack[k].order)
               PROVE  rs.stack[k].acc >= 0
    BY DEF SlippageCovered, PendingInserts, Pending
  <2>1. StackInv(setup, market, orders, rs)
    BY TxFacts DEF TreesInv
  <2>2. k \in Slots /\ k < rs.count
    BY <2>1 DEF StackInv, Slots, REGISTER_STACK_SIZE
  <2>3. rs.stack[k] \in Instructions(setup)
    BY <2>1, <2>2 DEF StackInv, Registers
  <2> QED
    BY <2>3 DEF Instructions, InstructionRecords
<1> QED
  BY <1>1, SpecInv, PTL

(* The matching engine runs for the only instruction on the stack, so that *)
(* what it leaves there always fits (matching_engine.rs,                   *)
(* types/register.rs, REGISTER_STACK_SIZE).                                *)
THEOREM MatchingIsAlone == Spec => []MatchesAlone
<1>1. IInv => MatchesAlone
  <2> SUFFICES ASSUME IInv, TopIs(Tx, "INSERT_ORDER"), Top(Tx).order.trigger_status = "NA"
               PROVE  rs.count = 1
    BY DEF MatchesAlone
  <2>1. StackInv(setup, market, orders, rs) /\ Top(Tx) = rs.stack[0]
    BY TxFacts DEF TreesInv, Top
  <2>2. 0 \in Slots /\ CanTrade(rs.stack[0])
    BY <2>1 DEF Slots, REGISTER_STACK_SIZE, CanTrade, IsInsert, TopIs
  <2> QED
    BY <2>1, <2>2 DEF StackInv
<1> QED
  BY <1>1, SpecInv, PTL

(* The order book holds exactly the active orders with something left, and *)
(* resting orders never cross: what could trade has traded                 *)
(* (matching_engine.rs, order_book_tree.rs).                               *)
THEOREM BookIsSound == Spec => [](BookMatchesOrders /\ BookNotCrossed)
<1>1. IInv => BookMatchesOrders /\ BookNotCrossed
  <2> SUFFICES ASSUME IInv PROVE BookMatchesOrders /\ BookNotCrossed
    OBVIOUS
  <2>1. BookInv(setup, orders, book)
    BY TxFacts DEF TreesInv
  <2>2. Nonces = NoncesOf(setup)
    BY SetupFacts DEF IInv
  <2>3. {j \in Live : /\ orders[j].trigger_status = "NA"
                      /\ orders[j].remaining # 0}
        = {j \in NoncesOf(setup) : Active(orders, j) /\ orders[j].remaining # 0}
    BY <2>2 DEF Live, Active
  <2> QED
    BY <2>1, <2>3 DEF BookInv, LeavesOf, NotCrossed, BookMatchesOrders, BookNotCrossed
<1> QED
  BY <1>1, SpecInv, PTL

(* Neither trades nor new mark prices take the notional of the open        *)
(* interest beyond its field (matching_engine.rs, is_open_interest_valid;  *)
(* internal_update_oracle prices).                                         *)
THEOREM OpenInterestAlwaysFits == Spec => []OpenInterestFits
<1>1. IInv => OpenInterestFits
  BY DEF IInv
<1> QED
  BY <1>1, SpecInv, PTL

-----------------------------------------------------------------------------
(* What a step may do to a position.                                       *)
LEMMA ReduceOnlyStep ==
  ASSUME IInv, GoodStep
  PROVE  /\ \A i \in Nonces : (MakerTrades(i) /\ orders[i].reduce_only) => Shrinks(orders[i].owner)
         /\ (TopIs(Tx, "INSERT_ORDER") /\ Top(Tx).order.reduce_only) => Shrinks(Top(Tx).account)
<1>1. /\ Nonces = NoncesOf(setup) /\ orders \in OrderTree(setup) /\ pos \in PosTree
      /\ StackInv(setup, market, orders, rs) /\ Top(Tx) = rs.stack[0]
  BY SetupFacts, TxFacts DEF IInv, TreesInv, Top
<1>2. \A i \in Nonces : orders[i] # NoOrder => orders[i].owner \in Accounts
  BY <1>1, OrderFacts DEF OrderTree
<1>3. TopIs(Tx, "INSERT_ORDER") => Top(Tx).account \in Accounts
  <2> SUFFICES ASSUME TopIs(Tx, "INSERT_ORDER") PROVE Top(Tx).account \in Accounts
    OBVIOUS
  <2>1. 0 \in Slots /\ IsInsert(rs.stack[0])
    BY <1>1 DEF TopIs, IsInsert, Slots, REGISTER_STACK_SIZE
  <2>2. 0 < rs.count /\ RegisterInv(setup, market, orders, rs.stack[0])
    BY <1>1, <2>1 DEF StackInv, IsInsert
  <2> QED
    BY <1>1, <2>1, <2>2, OrderFacts DEF RegisterInv
<1>4. CASE SamePositions
  <2>1. \A a \in Accounts : Shrinks(a)
    BY <1>1, <1>4 DEF SamePositions, Shrinks, PosTree, PosSet
  <2> QED
    BY <1>2, <1>3, <2>1 DEF MakerTrades
<1>5. CASE TradeStep
  BY <1>5 DEF TradeStep, MakerTrades
<1> QED
  BY <1>4, <1>5 DEF GoodStep

(* No fill of a reduce-only order opens or turns a position, neither as    *)
(* maker nor as pending taker (matching_engine.rs, the reduce-only caps of *)
(* the trade size).                                                        *)
THEOREM ReduceOnlyOrdersReduce == Spec => ReduceOnlyReduces
<1>1. IInv /\ GoodStep =>
        /\ \A i \in Nonces : (MakerTrades(i) /\ orders[i].reduce_only) => Shrinks(orders[i].owner)
        /\ (TopIs(Tx, "INSERT_ORDER") /\ Top(Tx).order.reduce_only) => Shrinks(Top(Tx).account)
  BY ReduceOnlyStep
<1> QED
  BY <1>1, SpecInv, SpecGood, PTL DEF ReduceOnlyReduces

(* No order that has expired, or whose owner's dead man's switch is due,   *)
(* trades as maker, even before anyone has cancelled it                    *)
(* (matching_engine.rs, the checks of the maker).                          *)
THEOREM StaleOrdersNeverTrade == Spec => StaleMakersNeverTrade
<1>1. IInv /\ GoodStep =>
        \A i \in Nonces : MakerTrades(i) =>
          ~IsExpired(orders[i], now) /\ ~ShouldDmsBeTriggered(Tx, orders[i].owner, now)
  <2> SUFFICES ASSUME IInv, GoodStep, NEW i \in Nonces, MakerTrades(i)
               PROVE  ~IsExpired(orders[i], now) /\ ~ShouldDmsBeTriggered(Tx, orders[i].owner, now)
    OBVIOUS
  <2>1. orders[i].owner \in Accounts
    <3>1. Nonces = NoncesOf(setup) /\ orders \in OrderTree(setup)
      BY SetupFacts, TxFacts DEF IInv
    <3> QED
      BY <3>1, OrderFacts DEF OrderTree, MakerTrades
  <2> QED
    BY <2>1 DEF GoodStep, SamePositions, TradeStep, MakerTrades
<1> QED
  BY <1>1, SpecInv, SpecGood, PTL DEF StaleMakersNeverTrade
=============================================================================
