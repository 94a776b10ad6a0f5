------------------------------- MODULE Orders -------------------------------
(***************************************************************************)
(* The order bookkeeping of one market, as operators on the state of the   *)
(* transaction being executed (src/circuit/src/types/tx_state.rs).         *)
(*                                                                         *)
(* A transaction state s is a record:                                      *)
(*   rs, new   the register stack and the instructions put aside for it    *)
(*   market    nonces, number of orders and open interest of the market    *)
(*   acct      per account: order counts and the dead man's switch         *)
(*   pos       per account: position, order counts and margin mode         *)
(*   orders    the account orders tree, by order index                     *)
(*   book      the order book tree: its non-empty leaves                   *)
(*   locked    per account: balance locked by resting spot orders          *)
(*   ok        FALSE once an assertion of the circuit has failed: such a   *)
(*             transaction has no proof and cannot happen                  *)
(* The order index of the code is the market and the nonce the order was   *)
(* created with; there is one market here, so it is that nonce.            *)
(***************************************************************************)
EXTENDS RegisterOps

CONSTANTS Accounts,
          Setups,           \* the markets and accounts to study, by name
          FeeAccount,       \* pays the integrators' fees
          NoOrder

VARIABLE setup              \* the one that is being studied

Master          == setup.master           \* account -> its master account
InsuranceFund   == setup.insurance_fund   \* accounts of insurance fund type
Spot            == setup.spot             \* is the market a spot market?
DefaultIsolated == setup.default_isolated \* the market's default margin mode
MaxNonce        == setup.max_nonce        \* the first bid nonce, 2^48 - 1 in the code

ASSUME OrdersAssumption ==
  \A n \in DOMAIN Setups :
    /\ Setups[n].master \in [Accounts -> Accounts]
    /\ Setups[n].insurance_fund \subseteq Accounts
    /\ Setups[n].spot \in BOOLEAN /\ Setups[n].default_isolated \in BOOLEAN
    /\ Setups[n].max_nonce \in Nat \ {0}

NIL == 0                    \* nil index, nonce, expiry and trigger price
FIRST_ASK_NONCE == 1
FIRST_BID_NONCE == MaxNonce
Nonces == FIRST_ASK_NONCE .. FIRST_BID_NONCE

ConditionalTypes == {"STOP_LOSS", "STOP_LOSS_LIMIT", "TAKE_PROFIT", "TAKE_PROFIT_LIMIT"}
StopLossVariants == {"STOP_LOSS", "STOP_LOSS_LIMIT"}
MarketFlagTypes  == {"MARKET", "STOP_LOSS", "TAKE_PROFIT", "TWAP_SUB"}
LimitFlagTypes   == {"LIMIT", "LIQUIDATION", "STOP_LOSS_LIMIT", "TAKE_PROFIT_LIMIT"}
CancelAllKinds   == {"CANCEL_ALL_ACCOUNT_ORDERS", "CANCEL_POSITION_TIED_ACCOUNT_ORDERS",
                     "CANCEL_ALL_CROSS_MARGIN_ORDERS", "CANCEL_ALL_ISOLATED_MARGIN_ORDERS",
                     "CANCEL_ALL_MARKET_ACCOUNT_ORDERS"}

Abs(n)  == IF n < 0 THEN -n ELSE n
Sign(n) == IF n < 0 THEN -1 ELSE IF n = 0 THEN 0 ELSE 1
MinOf(m, n) == IF m <= n THEN m ELSE n

(* An assertion of the circuit.                                            *)
Assert(s, condition) == [s EXCEPT !.ok = @ /\ condition]

-----------------------------------------------------------------------------
(* Instructions.  The pending order of an INSERT_ORDER is a whole order    *)
(* with its remaining size; acc is its slippage accumulator                *)
(* (generic_field_0).  The others name an account, a size or an index.     *)
Instruction(type, account, size, index) ==
  [type |-> type, account |-> account, size |-> size, index |-> index,
   order |-> NoOrder, acc |-> 0]

InsertOrder(o, index) ==
  [Instruction("INSERT_ORDER", o.owner, 0, index) EXCEPT !.order = o]

Put(s, flag, instruction, slot) ==
  IF flag THEN [s EXCEPT !.new = PutToInstructionStack(@, instruction, slot)]
          ELSE s

Top(s)      == s.rs.stack[0]
TopIs(s, t) == Top(s) # EmptyRegister /\ Top(s).type = t

Pop(s, flag) ==
  IF flag THEN [Assert(s, s.rs.count # 0) EXCEPT !.rs = PopFront(@)] ELSE s

(* push_instruction_stack::<max>, which also forgets what was put aside.   *)
PushInstructionStack(s, max) ==
  [Assert(s, PushAllowed(s.rs, s.new, max))
     EXCEPT !.rs = PushInstructions(@, s.new, max), !.new = NoNewInstructions]

(* trigger_child_orders and cancel_child_orders: child 0 goes to slot max, *)
(* child 1 to the slot before it.                                          *)
ForChildren(s, flag, type, o, size, max) ==
  Put(Put(s, flag /\ o.child0 # NIL, Instruction(type, o.owner, size, o.child0), max),
      flag /\ o.child1 # NIL, Instruction(type, o.owner, size, o.child1), max - 1)

TriggerChildOrders(s, flag, o, filled, max) ==
  ForChildren(s, flag, "TRIGGER_CHILD_ORDER", o, filled, max)

CancelChildOrders(s, flag, o, max) ==
  ForChildren(s, flag, "CANCEL_SINGLE_ACCOUNT_ORDER", o, 0, max)

CancelPositionTied(s, flag, a, slot) ==
  LET count == s.pos[a].total_position_tied_order_count
  IN  Put(s, flag /\ count # 0,
          Instruction("CANCEL_POSITION_TIED_ACCOUNT_ORDERS", a, count, NIL), slot)

-----------------------------------------------------------------------------
(* Nonces: asks take them from the bottom and bids from the top, so that   *)
(* an older order has priority at the same price on either side.           *)
BookFull(s) == s.market.ask_nonce = s.market.bid_nonce

NextNonce(s, is_ask) == IF is_ask THEN s.market.ask_nonce ELSE s.market.bid_nonce

BumpNonce(s, is_ask) ==
  IF is_ask THEN [s EXCEPT !.market.ask_nonce = @ + 1]
            ELSE [s EXCEPT !.market.bid_nonce = @ - 1]

-----------------------------------------------------------------------------
(* Order counts.                                                           *)
IsPositionEmpty(p) ==
  /\ p.position = 0 /\ p.total_order_count = 0
  /\ p.total_position_tied_order_count = 0 /\ ~p.isolated /\ ~p.margin_set

(* init_if_empty: the first order or trade fixes the margin mode.          *)
InitIfEmpty(p, a) ==
  IF IsPositionEmpty(p)
  THEN [p EXCEPT !.isolated = DefaultIsolated /\ a \notin InsuranceFund,
                 !.margin_set = TRUE]
  ELSE p

IsTied(o) == o.reduce_only /\ o.trigger_status # "PARENT_ORDER"

B2N(b) == IF b THEN 1 ELSE 0

(* Mutant: spot orders count for the position. *)
AddToOrderCounts_SpotPosition(s, a, o, n) ==
  [s EXCEPT !.market.total_order_count = @ + n,
            !.acct[a].total_order_count = @ + n,
            !.acct[a].total_non_cross_order_count = @ + n * B2N(Spot \/ s.pos[a].isolated),
            !.pos[a].total_position_tied_order_count = @ + n * B2N(IsTied(o)),
            !.pos[a].total_order_count = @ + n]

(* The common part of increment_ and decrement_order_count_in_place.       *)
AddToOrderCounts(s, a, o, n) ==
  [s EXCEPT !.market.total_order_count = @ + n,
            !.acct[a].total_order_count = @ + n,
            !.acct[a].total_non_cross_order_count =
               @ + n * B2N(Spot \/ s.pos[a].isolated),
            !.pos[a].total_position_tied_order_count =
               @ + n * B2N(~Spot /\ IsTied(o)),
            !.pos[a].total_order_count = @ + n * B2N(~Spot)]

IncrementOrderCount(s, a, o) ==
  AddToOrderCounts(IF Spot THEN s ELSE [s EXCEPT !.pos[a] = InitIfEmpty(@, a)], a, o, 1)

DecrementOrderCount(s, a, o) == AddToOrderCounts(s, a, o, -1)

-----------------------------------------------------------------------------
(* Locked balances of resting spot limit orders: base for asks, quote for  *)
(* bids.  The insurance fund locks nothing.                                *)
Locks(o) == Spot /\ o.type = "LIMIT" /\ o.owner \notin InsuranceFund

Unlock(s, flag, o, size) ==
  IF ~flag THEN s
  ELSE IF o.is_ask
       THEN [Assert(s, s.locked[o.owner].base >= size)
               EXCEPT !.locked[o.owner].base = @ - size]
       ELSE [Assert(s, s.locked[o.owner].quote >= size * o.price)
               EXCEPT !.locked[o.owner].quote = @ - size * o.price]

Lock(s, flag, o) ==
  IF ~flag THEN s
  ELSE IF o.is_ask THEN [s EXCEPT !.locked[o.owner].base = @ + o.remaining]
                   ELSE [s EXCEPT !.locked[o.owner].quote = @ + o.remaining * o.price]

-----------------------------------------------------------------------------
(* The two trees.  A leaf of the book is empty when its sums are zero.     *)
Leaf(o) == [price |-> o.price, nonce |-> o.nonce, is_ask |-> o.is_ask, size |-> o.remaining]

SetLeaf(book, o, size) ==
  LET others == {l \in book : l.price # o.price \/ l.nonce # o.nonce}
  IN  IF size = 0 THEN others ELSE others \cup {[Leaf(o) EXCEPT !.size = size]}

(* An account order, and its leaf in the book, becomes empty.              *)
RemoveOrder(s, i) ==
  [s EXCEPT !.book = SetLeaf(@, s.orders[i], 0), !.orders[i] = NoOrder]

Orders(s, a) == {i \in Nonces : s.orders[i] # NoOrder /\ s.orders[i].owner = a}

-----------------------------------------------------------------------------
(* is_not_valid_reduce_only_direction                                      *)
NotValidReduceOnlyDirection(position, is_ask) ==
  ~((is_ask /\ position > 0) \/ (~is_ask /\ position < 0))

NotValidReduceOnly(s, o) ==
  o.reduce_only /\ NotValidReduceOnlyDirection(s.pos[o.owner].position, o.is_ask)

(* should_dms_be_triggered: the dead man's switch of the account is due.   *)
ShouldDmsBeTriggered(s, a, now) ==
  s.acct[a].cancel_all_time # NIL /\ s.acct[a].cancel_all_time <= now

IsExpired(o, now) == o.expiry <= now
=============================================================================
