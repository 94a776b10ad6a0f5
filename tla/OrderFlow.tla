----------------------------- MODULE OrderFlow -----------------------------
(***************************************************************************)
(* The life of the orders of one active market, from the transactions that *)
(* create them to the ones that remove them.                               *)
(*                                                                         *)
(* One action is one transaction of the block circuit                      *)
(* (src/circuit/src/tx_constraints.rs, define): verify and apply of its    *)
(* handler, push_instruction_stack::<3>, the matching engine if the        *)
(* handler asked for it, push_instruction_stack::<8>.  A transaction whose *)
(* verification fails changes nothing here.  L1 and L2 transactions        *)
(* require an empty register stack; internal transactions, which the       *)
(* sequencer submits, execute the instruction on top of it.                *)
(***************************************************************************)
EXTENDS Matching, Sequences, FiniteSetsExt

CreateRequests    == setup.create       \* orders an account may ask for
GroupRequests     == setup.groups       \* two or three of them, with a grouping type
ModifyRequests    == setup.modify       \* new price, size and trigger price
CancelAllRequests == setup.cancel_all   \* of {"IMMEDIATE", "SCHEDULED", "ABORT", "MARKET"}
L1Requests        == setup.l1           \* priority orders sent from L1
Verdicts          == setup.verdicts     \* what risk, fees and balances may say (Matching)
MarkPrices        == setup.marks        \* the mark prices of the oracle
InitialMark       == setup.initial_mark
TwapSlices        == setup.slices       \* sizes of the slices the sequencer cuts
LiquidationPrices == setup.liquidation  \* zero prices of accounts in partial liquidation
Unified           == setup.unified      \* accounts whose spot assets back their positions
MaxTime           == setup.max_time     \* bound: the clock stops there

ASSUME OrderFlowAssumption ==
  \A n \in DOMAIN Setups :
    /\ Setups[n].initial_mark \in Nat \ {0} /\ Setups[n].marks \subseteq Nat \ {0}
    /\ Setups[n].unified \subseteq Accounts \ Setups[n].insurance_fund
    /\ Setups[n].max_time \in Nat

(* The fields of the requests, as their range checks leave them.           *)
OrderTypes      == ConditionalTypes \cup {"LIMIT", "MARKET", "TWAP", "TWAP_SUB", "LIQUIDATION"}
TimesInForce    == {"GTT", "IOC", "POST_ONLY"}
SelfTradeModes  == {"EXPIRE_MAKER", "EXPIRE_TAKER", "EXPIRE_BOTH", "REDUCE"}
TriggerStatuses == {"NA", "MARK_PRICE", "PARENT_ORDER", "TWAP"}

Requests ==
  [type : OrderTypes, is_ask : BOOLEAN, price : Nat, base : Nat, tif : TimesInForce,
   expiry : Nat, reduce_only : BOOLEAN, trigger_price : Nat, stp : SelfTradeModes,
   by_master : BOOLEAN, integrator : BOOLEAN]

Modifications ==
  [price : Nat, base : Nat, trigger_price : Nat, stp : SelfTradeModes,
   by_master : BOOLEAN, integrator : BOOLEAN]

(* Account orders and instructions; what is empty is none of them.         *)
OrderRecords ==
  [owner : Accounts, is_ask : BOOLEAN, price : Nat, nonce : Nat, type : OrderTypes,
   tif : TimesInForce, initial : Nat, remaining : Int, expiry : Nat, reduce_only : BOOLEAN,
   trigger_status : TriggerStatuses, trigger_price : Nat, child0 : Nat, child1 : Nat,
   cancel0 : Nat, stp : SelfTradeModes, by_master : BOOLEAN, integrator : BOOLEAN]

InstructionRecords ==
  [type : CancelAllKinds \cup {"INSERT_ORDER", "CANCEL_SINGLE_ACCOUNT_ORDER",
                               "TRIGGER_CHILD_ORDER", "TRANSFER_ASSET"},
   account : Accounts \cup {FeeAccount}, size : Int, index : Nat,
   order : OrderRecords \cup {NoOrder}, acc : Nat]

ASSUME EmptyAssumption == NoOrder \notin OrderRecords /\ EmptyRegister \notin InstructionRecords

ASSUME RequestsAssumption ==
  \A n \in DOMAIN Setups :
    /\ Setups[n].create \subseteq Requests
    /\ \A g \in Setups[n].groups : g.orders \in Seq(Requests) /\ g.type \in {"OCO", "OTO", "OTOCO"}
    /\ Setups[n].modify \subseteq Modifications
    /\ Setups[n].cancel_all \subseteq {"IMMEDIATE", "SCHEDULED", "ABORT", "MARKET"}
    /\ Setups[n].l1 \subseteq [type : OrderTypes, is_ask : BOOLEAN, price : Nat, base : Nat]
    /\ Setups[n].verdicts \subseteq [taker_ok : BOOLEAN, maker_ok : BOOLEAN, healthy : BOOLEAN,
                                     taker_fee : BOOLEAN, maker_fee : BOOLEAN]
    /\ Setups[n].slices \subseteq Nat /\ Setups[n].liquidation \subseteq Nat

VARIABLES now, mark, rs, market, acct, pos, orders, book, locked

vars == <<setup, now, mark, rs, market, acct, pos, orders, book, locked>>

Tx == [rs |-> rs, new |-> NoNewInstructions, market |-> market, acct |-> acct,
       pos |-> pos, orders |-> orders, book |-> book, locked |-> locked, ok |-> TRUE]

(* The end of a transaction.                                               *)
Done(s) == PushInstructionStack(s, 8)

Become(s) ==
  \E t \in {Done(s)} :
      /\ t.ok
      /\ rs' = t.rs /\ market' = t.market /\ acct' = t.acct /\ pos' = t.pos
      /\ orders' = t.orders /\ book' = t.book /\ locked' = t.locked
      /\ UNCHANGED <<setup, now, mark>>

Apply(s) == PushInstructionStack(s, 3)

ApplyAndMatch(s, c) == ExecuteMatching(Apply(s), c, now, mark)

UserTransaction == IsEmpty(rs)

-----------------------------------------------------------------------------
Init ==
  /\ setup \in {Setups[n] : n \in DOMAIN Setups}
  /\ now = 1
  /\ mark = InitialMark
  /\ rs = EmptyStack
  /\ market = [ask_nonce |-> FIRST_ASK_NONCE, bid_nonce |-> FIRST_BID_NONCE,
               total_order_count |-> 0, open_interest |-> 0]
  /\ acct = [a \in Accounts |-> [total_order_count |-> 0,
               total_non_cross_order_count |-> 0, cancel_all_time |-> NIL]]
  /\ pos = [a \in Accounts |-> [position |-> 0, total_order_count |-> 0,
              total_position_tied_order_count |-> 0,
              isolated |-> FALSE, margin_set |-> FALSE]]
  /\ orders = [i \in Nonces |-> NoOrder]
  /\ book = {}
  /\ locked = [a \in Accounts |-> [base |-> 0, quote |-> 0]]

(* A new order for a request f.                                            *)
NewOrder(a, f, base, nonce, trigger_status) ==
  [owner |-> a, is_ask |-> f.is_ask, price |-> f.price, nonce |-> nonce,
   type |-> f.type, tif |-> f.tif, initial |-> base, remaining |-> base,
   expiry |-> f.expiry, reduce_only |-> f.reduce_only,
   trigger_status |-> trigger_status, trigger_price |-> f.trigger_price,
   child0 |-> NIL, child1 |-> NIL, cancel0 |-> NIL,
   stp |-> f.stp, by_master |-> f.by_master, integrator |-> f.integrator]

(* calculate_position_tied_order_base_amount                               *)
PositionTiedAmount(a) == Abs(pos[a].position)

-----------------------------------------------------------------------------
(* L2CreateOrder, the rules on types, time in force, trigger and expiry.   *)
ValidCreateRequest(f) ==
  /\ f.type = "LIMIT" => /\ f.trigger_price = NIL
                         /\ (f.tif = "IOC") <=> (f.expiry = NIL)
  /\ f.type = "MARKET" => f.trigger_price = NIL /\ f.tif = "IOC" /\ f.expiry = NIL
  /\ f.type \in {"STOP_LOSS", "TAKE_PROFIT"} => f.tif = "IOC"
  /\ f.type \in ConditionalTypes =>
       /\ ~Spot /\ f.trigger_price # NIL /\ f.expiry # NIL
  /\ f.type = "TWAP" => f.tif = "GTT" /\ f.trigger_price = NIL /\ f.expiry # NIL
  /\ f.price # 0
  /\ Spot => ~f.reduce_only /\ f.base # 0
  /\ f.integrator => f.stp = "EXPIRE_MAKER" /\ ~f.by_master
  /\ ~(f.by_master /\ f.stp = "REDUCE")

NotYetExpired(f) == f.expiry = NIL \/ f.expiry > now

L2CreateOrder(a, f, c) ==
  LET conditional == f.type \in ConditionalTypes
      status == IF f.type = "TWAP" THEN "TWAP"
                ELSE IF conditional THEN "MARK_PRICE" ELSE "NA"
      base  == IF f.base = 0 /\ ~conditional THEN PositionTiedAmount(a) ELSE f.base
      index == NextNonce(Tx, f.is_ask)
      s     == BumpNonce(Tx, f.is_ask)
      o     == NewOrder(a, f, base, IF status = "NA" THEN index ELSE NIL, status)
  IN  /\ UserTransaction
      /\ ~ShouldDmsBeTriggered(Tx, a, now)
      /\ ValidCreateRequest(f) /\ NotYetExpired(f)
      /\ ~BookFull(Tx)
      /\ base # 0 \/ conditional \/ f.tif = "IOC" \/ f.type = "TWAP"
      /\ ~NotValidReduceOnly(Tx, o)
      /\ Become(IF status = "NA"
                THEN ApplyAndMatch(Put(s, TRUE, InsertOrder(o, index), 0), c)
                ELSE Apply(IncrementOrderCount([s EXCEPT !.orders[index] = o], a, o)))

-----------------------------------------------------------------------------
(***************************************************************************)
(* L2CreateGroupedOrders.  The loop over the orders narrows its flag to    *)
(* the orders of size zero before it checks price, time in force, trigger  *)
(* price and expiry, so that these rules only bind orders of size zero.    *)
(* (A market parent is checked whatever its size.)                         *)
(***************************************************************************)
ValidGroupedOrder(f, i) ==
  /\ f.base = 0 =>
       /\ f.reduce_only /\ f.price # 0
       /\ (i = 1 /\ f.type = "LIMIT") =>
             f.trigger_price = NIL /\ ((f.tif = "IOC") <=> (f.expiry = NIL))
       /\ f.type \in {"STOP_LOSS", "TAKE_PROFIT"} => f.tif = "IOC"
       /\ f.type \in ConditionalTypes => f.trigger_price # NIL /\ f.expiry # NIL
  /\ (i = 1 /\ f.type = "MARKET") =>
       f.tif = "IOC" /\ f.expiry = NIL /\ f.trigger_price = NIL

OneStopLoss(f, g) ==
  /\ f.type \in ConditionalTypes /\ g.type \in ConditionalTypes
  /\ (f.type \in StopLossVariants) # (g.type \in StopLossVariants)

ValidOco(g) ==
  /\ g[1].base = g[2].base /\ g[1].is_ask = g[2].is_ask
  /\ g[1].reduce_only = g[2].reduce_only /\ g[1].expiry = g[2].expiry
  /\ OneStopLoss(g[1], g[2])

(* A parent, and a child that it triggers.                                 *)
ValidChild(parent, child) ==
  /\ child.base = 0 /\ child.is_ask # parent.is_ask
  /\ parent.expiry = NIL \/ parent.expiry = child.expiry
  /\ parent.type \in {"LIMIT", "MARKET"} /\ child.type \in ConditionalTypes

ValidGroup(g, type) ==
  /\ \A i \in 1 .. Len(g) : ValidGroupedOrder(g[i], i) /\ NotYetExpired(g[i])
  /\ type = "OCO"   => Len(g) = 2 /\ ValidOco(g)
  /\ type = "OTO"   => Len(g) = 2 /\ ValidChild(g[1], g[2]) /\ g[2].reduce_only
  /\ type = "OTOCO" => /\ Len(g) = 3 /\ ValidChild(g[1], g[2]) /\ ValidChild(g[1], g[3])
                       /\ g[2].expiry = g[3].expiry /\ OneStopLoss(g[2], g[3])

(* The indices the orders of the group get, in order.                      *)
GroupIndex(g, i) ==
  LET same_side == Cardinality({k \in 1 .. i - 1 : g[k].is_ask = g[i].is_ask})
  IN  IF g[i].is_ask THEN market.ask_nonce + same_side ELSE market.bid_nonce - same_side

GroupOrder(a, g, type, i) ==
  LET base == IF i = 1 /\ type # "OCO" /\ g[1].base = 0
              THEN PositionTiedAmount(a) ELSE g[i].base
      is_parent == type # "OCO" /\ i = 1
      status == IF type = "OCO" THEN "MARK_PRICE" ELSE IF is_parent THEN "NA" ELSE "PARENT_ORDER"
      partner == IF type = "OCO" THEN GroupIndex(g, 3 - i)
                 ELSE IF type = "OTOCO" /\ ~is_parent THEN GroupIndex(g, 5 - i) ELSE NIL
  IN  [NewOrder(a, g[i], base, IF is_parent THEN GroupIndex(g, i) ELSE NIL, status)
         EXCEPT !.child0 = IF is_parent THEN GroupIndex(g, 2) ELSE NIL,
                !.child1 = IF is_parent /\ type = "OTOCO" THEN GroupIndex(g, 3) ELSE NIL,
                !.cancel0 = partner]

(* Mutant: the parent goes on top of its children. *)
L2CreateGroupedOrders_ParentFirst(a, g, type, c) ==
  LET n == Len(g)
      asks == Cardinality({i \in 1 .. n : g[i].is_ask})
      s0 == [Tx EXCEPT !.market.ask_nonce = @ + asks, !.market.bid_nonce = @ - (n - asks)]
      put(s, i) == Put(s, i <= n, InsertOrder(GroupOrder(a, g, type, i), GroupIndex(g, i)), i - 1)
  IN  /\ UserTransaction /\ ~Spot
      /\ ~ShouldDmsBeTriggered(Tx, a, now)
      /\ ValidGroup(g, type)
      /\ n <= market.bid_nonce - market.ask_nonce
      /\ ~NotValidReduceOnly(Tx, GroupOrder(a, g, type, 1))
      /\ Become(ApplyAndMatch(IF n = 3 THEN put(put(put(s0, 1), 2), 3) ELSE put(put(s0, 1), 2), c))

(* The orders go on the stack in reverse, so that children are inserted    *)
(* before their parent is matched.                                         *)
L2CreateGroupedOrders(a, g, type, c) ==
  LET n == Len(g)
      asks == Cardinality({i \in 1 .. n : g[i].is_ask})
      s0 == [Tx EXCEPT !.market.ask_nonce = @ + asks, !.market.bid_nonce = @ - (n - asks)]
      put(s, i) == Put(s, i <= n, InsertOrder(GroupOrder(a, g, type, i), GroupIndex(g, i)), 3 - i)
  IN  /\ UserTransaction /\ ~Spot
      /\ ~ShouldDmsBeTriggered(Tx, a, now)
      /\ ValidGroup(g, type)
      /\ n <= market.bid_nonce - market.ask_nonce
      /\ ~NotValidReduceOnly(Tx, GroupOrder(a, g, type, 1))
      /\ Become(ApplyAndMatch(IF n = 3 THEN put(put(put(s0, 1), 2), 3) ELSE put(put(s0, 1), 2), c))

-----------------------------------------------------------------------------
(***************************************************************************)
(* L2ModifyOrder.  An order on the book leaves it and is inserted again    *)
(* with a new nonce; a pending order is changed in place; an order already *)
(* filled beyond its new size is done.  Whether to unlock its spot balance *)
(* is decided by the type of the account order after it was emptied, and   *)
(* the type of an empty order is LIMIT_ORDER.                              *)
(***************************************************************************)
ModifyAllowed(o, r) ==
  /\ IF o.trigger_status \in {"NA", "TWAP"}
     THEN r.trigger_price = NIL /\ r.base # 0
     ELSE /\ (r.trigger_price = NIL) <=> (o.trigger_price = NIL)
          /\ (r.base = 0) <=> (o.initial = 0)
  /\ r.price # 0 /\ o.expiry > now

ModifyUnlocks(o) == Spot /\ o.owner \notin InsuranceFund

L2ModifyOrder(i, r) ==
  LET o == orders[i]
      matched == o.initial - o.remaining
      filled  == r.base # 0 /\ r.base <= matched
      changed == [o EXCEPT !.price = r.price, !.trigger_price = r.trigger_price,
                           !.initial = IF r.base = 0 THEN @ ELSE r.base,
                           !.remaining = IF r.base = 0 THEN @ ELSE r.base - matched,
                           !.stp = r.stp, !.by_master = r.by_master,
                           !.integrator = r.integrator]
      gone == RemoveOrder(Unlock(DecrementOrderCount(Tx, o.owner, o), ModifyUnlocks(o), o, o.remaining), i)
      again == [changed EXCEPT !.nonce = NextNonce(Tx, o.is_ask)]
  IN  /\ UserTransaction
      /\ o # NoOrder
      /\ ~ShouldDmsBeTriggered(Tx, o.owner, now)
      /\ ModifyAllowed(o, r) /\ ~BookFull(Tx)
      /\ Become(Apply(
           IF filled THEN TriggerChildOrders(gone, TRUE, o, matched, 1)
           ELSE IF o.trigger_status = "NA"
                THEN Put(BumpNonce(gone, o.is_ask), TRUE, InsertOrder(again, i), 0)
                ELSE [Tx EXCEPT !.orders[i] = changed]))

-----------------------------------------------------------------------------
(* Cancelling one order.                                                   *)
CancelOne(s, i) ==
  LET o == s.orders[i]
  IN  RemoveOrder(Unlock(DecrementOrderCount(s, o.owner, o), Locks(o), o, o.remaining), i)

(* Mutant: the children of a cancelled parent are forgotten. *)
L2CancelOrder_KeepsChildren(i) ==
  /\ UserTransaction
  /\ orders[i] # NoOrder
  /\ Become(Apply(CancelOne(Tx, i)))

L2CancelOrder(i) ==
  /\ UserTransaction
  /\ orders[i] # NoOrder
  /\ Become(Apply(CancelChildOrders(CancelOne(Tx, i), TRUE, orders[i], 1)))

(* InternalCancelOrder with an empty register stack: the order expired.    *)
InternalCancelExpiredOrder(i) ==
  /\ IsEmpty(rs)
  /\ orders[i] # NoOrder
  /\ IsExpired(orders[i], now)
  /\ Become(Apply(CancelChildOrders(CancelOne(Tx, i), TRUE, orders[i], 1)))

(* Mutant: the order must still be there. *)
SingleCancelled_MustExist ==
  LET i == Top(Tx).index
  IN  IF orders[i] = NoOrder THEN Assert(Tx, FALSE) ELSE Apply(CancelOne(Pop(Tx, TRUE), i))

(* InternalCancelOrder, CANCEL_SINGLE_ACCOUNT_ORDER: it may be gone.       *)
SingleCancelled ==
  LET i == Top(Tx).index
      s == Pop(Tx, TRUE)
      o == orders[i]
  IN  Apply(IF o = NoOrder THEN s
            ELSE CancelOne(Assert(s, /\ o.owner = Top(Tx).account
                                     /\ o.child0 = NIL /\ o.child1 = NIL), i))

InternalCancelSingleOrder ==
  TopIs(Tx, "CANCEL_SINGLE_ACCOUNT_ORDER") /\ Become(SingleCancelled)

(* The orders a cancel-all instruction may take.                           *)
CancelAllTakes(reg, o) ==
  /\ o.owner = reg.account
  /\ reg.type = "CANCEL_POSITION_TIED_ACCOUNT_ORDERS" => IsTied(o)
  /\ reg.type = "CANCEL_ALL_ISOLATED_MARGIN_ORDERS" => pos[o.owner].isolated
  /\ reg.type = "CANCEL_ALL_CROSS_MARGIN_ORDERS" => ~pos[o.owner].isolated

(* Mutant: the pending size is not taken down. *)
OneOfAllCancelled_SameSize(i) ==
  LET reg == Top(Tx)
  IN  Apply(CancelOne(Assert(Pop(Tx, reg.size = 1), CancelAllTakes(reg, orders[i])), i))

(* InternalCancelOrder for a cancel-all instruction: one order at a time,  *)
(* in an order of the sequencer's choice; children are not followed.       *)
OneOfAllCancelled(i) ==
  LET reg == Top(Tx)
      s   == [Tx EXCEPT !.rs.stack[0].size = @ - 1]
  IN  Apply(CancelOne(Assert(Pop(s, reg.size = 1), CancelAllTakes(reg, orders[i])), i))

TopIsCancelAll == Top(Tx) # EmptyRegister /\ Top(Tx).type \in CancelAllKinds

InternalCancelOneOfAll(i) ==
  TopIsCancelAll /\ orders[i] # NoOrder /\ Become(OneOfAllCancelled(i))

-----------------------------------------------------------------------------
(* Cancelling all orders.                                                  *)
CancelAll(s, a) ==
  LET count == s.acct[a].total_order_count
  IN  Put([s EXCEPT !.acct[a].cancel_all_time = NIL], count # 0,
          Instruction("CANCEL_ALL_ACCOUNT_ORDERS", a, count, NIL), 0)

CancelAllMarket(s, a) ==
  LET count == s.pos[a].total_order_count
  IN  Put(s, count # 0, Instruction("CANCEL_ALL_MARKET_ACCOUNT_ORDERS", a, count, NIL), 0)

CancelAllIsolated(s, a) ==
  LET count == s.pos[a].total_order_count
  IN  Put(s, count # 0, Instruction("CANCEL_ALL_ISOLATED_MARGIN_ORDERS", a, count, NIL), 0)

(* A unified account loses all of its orders, the spot ones too.           *)
CancelAllCross(s, a) ==
  LET all   == s.acct[a].total_order_count
      count == IF a \in Unified THEN all ELSE all - s.acct[a].total_non_cross_order_count
      kind  == IF a \in Unified THEN "CANCEL_ALL_ACCOUNT_ORDERS"
                                ELSE "CANCEL_ALL_CROSS_MARGIN_ORDERS"
  IN  Put(s, count # 0, Instruction(kind, a, count, NIL), 0)

L2CancelAllOrders(a, kind, time) ==
  /\ UserTransaction
  /\ (kind # "SCHEDULED") => (time = NIL)
  /\ Become(Apply(CASE kind = "IMMEDIATE" -> CancelAll(Tx, a)
                    [] kind = "SCHEDULED" -> [Tx EXCEPT !.acct[a].cancel_all_time = time]
                    [] kind = "ABORT"     -> [Tx EXCEPT !.acct[a].cancel_all_time = NIL]
                    [] kind = "MARKET"    -> CancelAllMarket(Tx, a)))

L1CancelAllOrders(a) ==
  /\ UserTransaction
  /\ Become(Apply(CancelAll(Tx, a)))

(* InternalCancelAllOrders: the dead man's switch is due, ...              *)
InternalCancelAllDms(a) ==
  /\ IsEmpty(rs)
  /\ ShouldDmsBeTriggered(Tx, a, now)
  /\ Become(Apply(CancelAll(Tx, a)))

(* ... or the account is in liquidation (the risk engine's word).          *)
InternalCancelAllLiquidation(a) ==
  /\ IsEmpty(rs) /\ a \notin InsuranceFund
  /\ ~ShouldDmsBeTriggered(Tx, a, now)
  /\ Become(Apply(IF pos[a].isolated THEN CancelAllIsolated(Tx, a) ELSE CancelAllCross(Tx, a)))

-----------------------------------------------------------------------------
(* Orders that did not come from an L2 account: immediate, reduce only.    *)
ImmediateReduceOnly(a, type, is_ask, price, base) ==
  NewOrder(a, [is_ask |-> is_ask, price |-> price, type |-> type, tif |-> "IOC",
               expiry |-> NIL, reduce_only |-> TRUE, trigger_price |-> NIL,
               stp |-> "EXPIRE_MAKER", by_master |-> FALSE, integrator |-> FALSE],
           base, NextNonce(Tx, is_ask), "NA")

L1CreateOrder(a, f, c) ==
  LET base == IF f.base = 0 THEN PositionTiedAmount(a) ELSE f.base
      o    == ImmediateReduceOnly(a, f.type, f.is_ask, f.price, base)
  IN  /\ UserTransaction /\ ~Spot
      /\ base # 0 /\ ~BookFull(Tx) /\ ~NotValidReduceOnly(Tx, o)
      /\ Become(ApplyAndMatch(Put(BumpNonce(Tx, f.is_ask), TRUE, InsertOrder(o, o.nonce), 0), c))

(* The account is in partial liquidation, price is its zero price.         *)
InternalLiquidatePosition(a, base, price, c) ==
  LET is_ask == pos[a].position > 0
      o == ImmediateReduceOnly(a, "LIQUIDATION", is_ask, price, base)
  IN  /\ IsEmpty(rs) /\ ~Spot /\ a \notin InsuranceFund /\ ~BookFull(Tx)
      /\ base \in 1 .. PositionTiedAmount(a)
      /\ Become(ApplyAndMatch(Put(BumpNonce(Tx, is_ask), TRUE, InsertOrder(o, o.nonce), 0), c))

-----------------------------------------------------------------------------
(* InternalClaimOrder: the pending order meets the next maker.             *)
InternalClaimOrder(c) ==
  /\ TopIs(Tx, "INSERT_ORDER")
  /\ Become(ApplyAndMatch(Tx, c))

(* InternalCreateOrder.                                                    *)
MustCancel(o) == \/ IsExpired(o, now)
                 \/ ShouldDmsBeTriggered(Tx, o.owner, now)
                 \/ NotValidReduceOnly(Tx, o)

Dropped(s, i) == RemoveOrder(DecrementOrderCount(s, s.orders[i].owner, s.orders[i]), i)

IsTriggered(o) ==
  IF o.is_ask = (o.type \in StopLossVariants) THEN mark <= o.trigger_price
                                              ELSE mark >= o.trigger_price

(* A slice of a TWAP order.  The size of a slice is compared with what     *)
(* remains as a 48-bit number, which a negative one is not.  A slice of    *)
(* size one is never too large.                                            *)
InternalCreateTwapSlice(i, base, price) ==
  LET o == orders[i]
      nonce == NextNonce(Tx, o.is_ask)
      slice == [o EXCEPT !.price = price, !.nonce = nonce, !.type = "TWAP_SUB", !.tif = "IOC",
                         !.initial = base, !.remaining = base, !.expiry = NIL,
                         !.trigger_price = NIL, !.trigger_status = "NA"]
      s == Put([BumpNonce(Tx, o.is_ask) EXCEPT !.orders[i].remaining = @ - base],
               TRUE, InsertOrder(slice, nonce), 0)
  IN  /\ IsEmpty(rs) /\ ~BookFull(Tx)
      /\ o # NoOrder /\ o.trigger_status = "TWAP"
      /\ IF o.is_ask THEN price >= o.price ELSE price <= o.price
      /\ o.remaining >= 0 /\ (base <= o.remaining \/ base <= 1)
      /\ Become(Apply(IF MustCancel(o) THEN Dropped(Tx, i)
                      ELSE IF base = o.remaining THEN Dropped(s, i) ELSE s))

(* Mutant: the partner is cancelled after the order has been matched. *)
InternalTriggerOrder_PartnerLater(i) ==
  LET o == orders[i]
      base == IF o.remaining = 0 THEN PositionTiedAmount(o.owner) ELSE o.remaining
      active == [o EXCEPT !.nonce = NextNonce(Tx, o.is_ask), !.initial = base,
                          !.remaining = base, !.trigger_status = "NA"]
      s == Put(BumpNonce(Tx, o.is_ask), TRUE, InsertOrder(active, i), 0)
  IN  /\ IsEmpty(rs) /\ ~BookFull(Tx) /\ ~Spot
      /\ o # NoOrder /\ o.trigger_status = "MARK_PRICE" /\ IsTriggered(o)
      /\ Become(Apply(IF MustCancel(o) THEN Dropped(Tx, i)
                      ELSE Put(Dropped(s, i), o.cancel0 # NIL,
                               Instruction("CANCEL_SINGLE_ACCOUNT_ORDER", o.owner, 0, o.cancel0), 1)))

(* A conditional order whose trigger price is reached; its partner in a    *)
(* one-cancels-the-other group goes first.                                 *)
InternalTriggerOrder(i) ==
  LET o == orders[i]
      base == IF o.remaining = 0 THEN PositionTiedAmount(o.owner) ELSE o.remaining
      active == [o EXCEPT !.nonce = NextNonce(Tx, o.is_ask), !.initial = base,
                          !.remaining = base, !.trigger_status = "NA"]
      s == Put(BumpNonce(Tx, o.is_ask), TRUE, InsertOrder(active, i), 1)
  IN  /\ IsEmpty(rs) /\ ~BookFull(Tx) /\ ~Spot
      /\ o # NoOrder /\ o.trigger_status = "MARK_PRICE" /\ IsTriggered(o)
      /\ Become(Apply(IF MustCancel(o) THEN Dropped(Tx, i)
                      ELSE Put(Dropped(s, i), o.cancel0 # NIL,
                               Instruction("CANCEL_SINGLE_ACCOUNT_ORDER", o.owner, 0, o.cancel0), 0)))

(* The child of a filled parent starts to watch the mark price.            *)
ChildTriggered ==
  LET reg == Top(Tx)
      i   == reg.index
      o   == orders[i]
      s   == Assert(Pop(Tx, TRUE),
                    /\ ~BookFull(Tx) /\ ~Spot
                    /\ o # NoOrder => o.owner = reg.account /\ o.trigger_status = "PARENT_ORDER")
      active == [o EXCEPT !.trigger_status = "MARK_PRICE",
                          !.initial = reg.size, !.remaining = reg.size]
  IN  Apply(IF o = NoOrder THEN s
            ELSE IF MustCancel(o) THEN Dropped(s, i)
            ELSE [s EXCEPT !.orders[i] = active,
                           !.pos[o.owner].total_position_tied_order_count =
                             @ + B2N(o.reduce_only)])

InternalTriggerChildOrder == TopIs(Tx, "TRIGGER_CHILD_ORDER") /\ Become(ChildTriggered)

(* InternalTransfer of an integrator's fee, when the fee account can pay.  *)
InternalTransfer == TopIs(Tx, "TRANSFER_ASSET") /\ Become(Apply(Pop(Tx, TRUE)))

(* L2UpdateLeverage: the margin mode changes only if nothing is open.      *)
L2UpdateLeverage(a, isolated) ==
  /\ UserTransaction /\ ~Spot
  /\ isolated => a \notin InsuranceFund
  /\ pos[a].isolated # isolated => pos[a].position = 0 /\ pos[a].total_order_count = 0
  /\ Become([Tx EXCEPT !.pos[a].isolated = isolated, !.pos[a].margin_set = TRUE])

-----------------------------------------------------------------------------
(* Between blocks: the clock, and the oracle price, which the block        *)
(* pre-execution accepts only while it keeps the open interest in bounds.  *)
Tick ==
  /\ now < MaxTime
  /\ now' = now + 1
  /\ UNCHANGED <<setup, mark, rs, market, acct, pos, orders, book, locked>>

MarkPriceAllowed(price) ==
  /\ price # 0
  /\ market.open_interest # 0 =>
       price <= MARKET_OPEN_INTEREST_NOTIONAL \div market.open_interest

UpdateMarkPrice(price) ==
  /\ MarkPriceAllowed(price)
  /\ mark' = price
  /\ UNCHANGED <<setup, now, rs, market, acct, pos, orders, book, locked>>

-----------------------------------------------------------------------------
(* The transactions of the users, ...                                      *)
UserNext ==
  \/ \E i \in Nonces : \/ \E r \in ModifyRequests : L2ModifyOrder(i, r)
                       \/ L2CancelOrder(i)
  \/ \E a \in Accounts :
       \/ \E f \in CreateRequests, c \in Verdicts : L2CreateOrder(a, f, c)
       \/ \E g \in GroupRequests, c \in Verdicts : L2CreateGroupedOrders(a, g.orders, g.type, c)
       \/ \E f \in L1Requests, c \in Verdicts : L1CreateOrder(a, f, c)
       \/ \E kind \in CancelAllRequests, time \in 0 .. MaxTime : L2CancelAllOrders(a, kind, time)
       \/ L1CancelAllOrders(a)
       \/ \E isolated \in BOOLEAN : L2UpdateLeverage(a, isolated)

(* ... those the sequencer may add when the stack is empty, ...            *)
SequencerNext ==
  \/ \E i \in Nonces : \/ InternalCancelExpiredOrder(i)
                       \/ InternalTriggerOrder(i)
                       \/ \E base \in TwapSlices : InternalCreateTwapSlice(i, base, orders[i].price)
  \/ \E a \in Accounts : \/ InternalCancelAllDms(a)
                         \/ InternalCancelAllLiquidation(a)
                         \/ \E base \in 1 .. PositionTiedAmount(a), price \in LiquidationPrices, c \in Verdicts :
                              InternalLiquidatePosition(a, base, price, c)

(* ... and those it must add when it is not: nothing else is accepted.     *)
RegisterNext ==
  \/ \E c \in Verdicts : InternalClaimOrder(c)
  \/ InternalCancelSingleOrder
  \/ \E i \in Nonces : InternalCancelOneOfAll(i)
  \/ InternalTriggerChildOrder
  \/ InternalTransfer

BlockNext == Tick \/ \E price \in MarkPrices : UpdateMarkPrice(price)

Next == UserNext \/ SequencerNext \/ RegisterNext \/ BlockNext

Spec == Init /\ [][Next]_vars

(***************************************************************************)
(* As long as the stack is not empty a block can contain no transaction    *)
(* but the one its top asks for, so a sequencer that goes on producing     *)
(* blocks takes it if the circuit accepts it.  This is WF_vars of          *)
(* RegisterNext written out: TopExecutable is when it is enabled, and with *)
(* a non-empty stack it is the only step of a block.                       *)
(***************************************************************************)
TopExecutable ==
  \/ TopIs(Tx, "INSERT_ORDER") /\ \E c \in Verdicts : Done(ApplyAndMatch(Tx, c)).ok
  \/ TopIs(Tx, "CANCEL_SINGLE_ACCOUNT_ORDER") /\ Done(SingleCancelled).ok
  \/ TopIsCancelAll /\ \E i \in Nonces : orders[i] # NoOrder /\ Done(OneOfAllCancelled(i)).ok
  \/ TopIs(Tx, "TRIGGER_CHILD_ORDER") /\ Done(ChildTriggered).ok
  \/ TopIs(Tx, "TRANSFER_ASSET")

ExecutesTop == ~IsEmpty(rs) /\ UNCHANGED <<setup, now, mark>>

FairSpec == Spec /\ ([]<>~TopExecutable \/ []<><<ExecutesTop>>_vars)

-----------------------------------------------------------------------------
(* The orders of the account orders tree, and the instructions on the      *)
(* stack.                                                                  *)
Live       == {i \in Nonces : orders[i] # NoOrder}
LiveOf(a)  == {i \in Live : orders[i].owner = a}
Pending    == {rs.stack[k] : k \in 0 .. rs.count - 1}
PendingInserts == {reg \in Pending : reg.type = "INSERT_ORDER"}

(***************************************************************************)
(* Every counter of orders agrees with the orders there are.  The counters *)
(* decide how many orders a cancel-all cancels and whether the margin mode *)
(* may change, and each of the handlers maintains them on its own.         *)
(***************************************************************************)
CountsMatchOrders ==
  /\ market.total_order_count = Cardinality(Live)
  /\ \A a \in Accounts :
       /\ acct[a].total_order_count = Cardinality(LiveOf(a))
       /\ acct[a].total_non_cross_order_count =
            IF Spot \/ pos[a].isolated THEN Cardinality(LiveOf(a)) ELSE 0
       /\ pos[a].total_order_count = IF Spot THEN 0 ELSE Cardinality(LiveOf(a))
       /\ pos[a].total_position_tied_order_count =
            IF Spot THEN 0 ELSE Cardinality({i \in LiveOf(a) : IsTied(orders[i])})

(***************************************************************************)
(* The order book and the account orders are two trees that say the same:  *)
(* each leaf is an active order with its remaining size, and each active   *)
(* order with something left has its leaf.                                 *)
(***************************************************************************)
BookMatchesOrders ==
  book = {Leaf(orders[i]) : i \in {j \in Live : /\ orders[j].trigger_status = "NA"
                                               /\ orders[j].remaining # 0}}

(***************************************************************************)
(* An active order whose size is used up, by trades or by a reduction on   *)
(* self-trade, is gone: it does not stay behind without a leaf.            *)
(***************************************************************************)
NoUsedUpOrder ==
  \A i \in Live : orders[i].trigger_status = "NA" => orders[i].remaining # 0

(***************************************************************************)
(* The resting orders never cross: what could trade has traded.  A better  *)
(* maker that is skipped, or a conditional order that reaches the book     *)
(* unmatched, would show here.                                             *)
(***************************************************************************)
BookNotCrossed ==
  \A l, m \in book : (l.is_ask /\ ~m.is_ask) => l.price > m.price

(***************************************************************************)
(* The book the matching engine relies on: it says the same as the account *)
(* orders, keeps no order that is used up, and is never crossed.           *)
(***************************************************************************)
BookSound == BookMatchesOrders /\ NoUsedUpOrder /\ BookNotCrossed

(***************************************************************************)
(* A cancel-all instruction counts down from a counter taken when it was   *)
(* pushed.  At any later time it still counts the orders it may cancel: it *)
(* neither stops early, with orders left, nor waits for orders that are    *)
(* gone (the stack would then be blocked for good).                        *)
(***************************************************************************)
CancelAllExact ==
  \A reg \in Pending : reg.type \in CancelAllKinds =>
    reg.size = Cardinality({i \in Live : CancelAllTakes(reg, orders[i])})

(***************************************************************************)
(* Once the stack is empty, a reduce-only order that is not waiting for    *)
(* its parent belongs to a position that it reduces: positions that were   *)
(* closed or turned have had such orders cancelled.                        *)
(***************************************************************************)
TiedOrdersReduce ==
  (IsEmpty(rs) /\ ~Spot) =>
    \A i \in Live : IsTied(orders[i]) => ~NotValidReduceOnly(Tx, orders[i])

(***************************************************************************)
(* An order that waits for its parent has one: on the book, pending, or    *)
(* gone with the instruction that triggers or cancels the child pending.   *)
(* (A cancel-all of the account takes the child with the parent.)          *)
(***************************************************************************)
ChildrenHaveParent ==
  \A i \in Live : orders[i].trigger_status = "PARENT_ORDER" =>
    \/ \E j \in Live : i \in {orders[j].child0, orders[j].child1}
    \/ \E reg \in PendingInserts : i \in {reg.order.child0, reg.order.child1}
    \/ \E reg \in Pending :
         \/ reg.type \in {"TRIGGER_CHILD_ORDER", "CANCEL_SINGLE_ACCOUNT_ORDER"} /\ reg.index = i
         \/ /\ reg.type \in CancelAllKinds \ {"CANCEL_POSITION_TIED_ACCOUNT_ORDERS"}
            /\ reg.account = orders[i].owner

(***************************************************************************)
(* One cancels the other: when a triggered order is next to be matched, or *)
(* is on the book, its partner is gone.                                    *)
(***************************************************************************)
OneCancelsTheOther ==
  LET alone(o) == (o.trigger_status = "NA" /\ o.cancel0 # NIL) => orders[o.cancel0] = NoOrder
  IN  /\ \A i \in Live : alone(orders[i])
      /\ TopIs(Tx, "INSERT_ORDER") => alone(Top(Tx).order)

(***************************************************************************)
(* A pending order that can trade has nothing below it: children and       *)
(* partners come first.  So what matching leaves on the stack always fits, *)
(* which RegisterStack builds on.                                          *)
(***************************************************************************)
MatchesAlone ==
  (TopIs(Tx, "INSERT_ORDER") /\ Top(Tx).order.trigger_status = "NA") => rs.count = 1

(***************************************************************************)
(* Every long has a short, and the open interest the market keeps          *)
(* incrementally is the sum of the positions.                              *)
(***************************************************************************)
OpenInterestIsSum ==
  /\ MapThenSumSet(LAMBDA a : pos[a].position, Accounts) = 0
  /\ market.open_interest = MapThenSumSet(LAMBDA a : Abs(pos[a].position), Accounts)

(***************************************************************************)
(* Neither trades nor price updates take the notional of the open interest *)
(* beyond what the circuit's 56 bits hold.                                 *)
(***************************************************************************)
OpenInterestFits == market.open_interest * mark <= MARKET_OPEN_INTEREST_NOTIONAL

(***************************************************************************)
(* The open interest is what the positions add up to, and fits its field.  *)
(***************************************************************************)
OpenInterestSound == OpenInterestIsSum /\ OpenInterestFits

(***************************************************************************)
(* A market order never pays more in total than its price allows: what it  *)
(* gave up at worse prices is covered by what it gained at better ones.    *)
(***************************************************************************)
SlippageCovered ==
  \A reg \in PendingInserts : MarketFlag(reg.order) => reg.acc >= 0

(***************************************************************************)
(* The balance locked in a spot market is exactly what the resting limit   *)
(* orders need.                                                            *)
(***************************************************************************)
LockedIsNeeded ==
  \A a \in Accounts \ InsuranceFund :
    LET resting(is_ask) == {i \in LiveOf(a) : Locks(orders[i]) /\ orders[i].is_ask = is_ask}
    IN  /\ locked[a].base = MapThenSumSet(LAMBDA i : orders[i].remaining, resting(TRUE))
        /\ locked[a].quote = MapThenSumSet(LAMBDA i : orders[i].remaining * orders[i].price,
                                           resting(FALSE))

-----------------------------------------------------------------------------
(* The position of an account after a step lies between zero and the       *)
(* position before.                                                        *)
Shrinks(a) == LET p == pos[a].position  q == pos'[a].position
              IN  (0 <= q /\ q <= p) \/ (p <= q /\ q <= 0)

(* The order i is the maker of a trade in this step.                       *)
MakerTrades(i) == /\ orders[i] # NoOrder /\ orders'[i] # orders[i]
                  /\ pos'[orders[i].owner].position # pos[orders[i].owner].position

(***************************************************************************)
(* A fill of a reduce-only order, as maker or as pending taker, never      *)
(* opens or turns a position.                                              *)
(***************************************************************************)
ReduceOnlyReduces ==
  [][/\ \A i \in Nonces : (MakerTrades(i) /\ orders[i].reduce_only) => Shrinks(orders[i].owner)
     /\ (TopIs(Tx, "INSERT_ORDER") /\ Top(Tx).order.reduce_only) => Shrinks(Top(Tx).account)]_vars

(***************************************************************************)
(* An order that has expired, or whose owner's dead man's switch is due,   *)
(* is never traded against, even before anyone has cancelled it.           *)
(***************************************************************************)
StaleMakersNeverTrade ==
  [][\A i \in Nonces : MakerTrades(i) =>
       ~IsExpired(orders[i], now) /\ ~ShouldDmsBeTriggered(Tx, orders[i].owner, now)]_vars

(***************************************************************************)
(* Every instruction that is pushed gets executed, and the exchange takes  *)
(* user transactions again; unless the market is out of nonces, when a     *)
(* child order can no longer be triggered.                                 *)
(***************************************************************************)
StackDrains ==
  ~IsEmpty(rs) ~> (IsEmpty(rs) \/ (BookFull(Tx) /\ TopIs(Tx, "TRIGGER_CHILD_ORDER")))

-----------------------------------------------------------------------------
(* What comments and assertions of the code say, and what the handlers     *)
(* above do not keep for some requests.                                    *)

(***************************************************************************)
(* "Register should be a limit order" (matching_engine.rs): asserted for a *)
(* pending order that is to rest on the book.  If it does not hold the     *)
(* instruction cannot be executed.                                         *)
(***************************************************************************)
RestingRegisterIsLimit ==
  TopIs(Tx, "INSERT_ORDER") =>
    \A c \in Verdicts : RestingAssertion(Tx, Decide(Tx, c, now, mark))

(***************************************************************************)
(* "No locked USDC balance, means no open spot orders"                     *)
(* (l2_update_account_config.rs), for the limit orders that lock quote.    *)
(***************************************************************************)
NothingLockedNothingOpen ==
  \A a \in Accounts \ InsuranceFund : locked[a].quote = 0 =>
    \A i \in LiveOf(a) : Locks(orders[i]) => orders[i].is_ask
=============================================================================
