------------------------------ MODULE Matching ------------------------------
(***************************************************************************)
(* One call of execute_matching (src/circuit/src/matching_engine.rs): the  *)
(* pending order on top of the register stack, the taker, meets at most    *)
(* one order of the book, the maker.  The decision comes first (a ladder   *)
(* of early returns), then its effect on every tree, then the instructions *)
(* it leaves behind.                                                       *)
(*                                                                         *)
(* What the risk engine, the fee rates and the spot balances say about the *)
(* trade is an input, the verdict c: taker_ok and maker_ok (the trade      *)
(* leaves the account valid and within the fixed bounds), healthy (a       *)
(* liquidated account is above its maintenance margin after the trade),    *)
(* taker_fee and maker_fee (the integrator's fee is not zero).             *)
(***************************************************************************)
EXTENDS Orders

(* Notionals of open interest: the limit the operator sets, and the one    *)
(* the width of the field sets (2^56 - 1 in the code).                     *)
OpenInterestLimit             == setup.open_interest_limit
MARKET_OPEN_INTEREST_NOTIONAL == setup.open_interest_notional

ASSUME MatchingAssumption ==
  \A n \in DOMAIN Setups : /\ Setups[n].open_interest_limit \in Nat
                           /\ Setups[n].open_interest_notional \in Nat

MarketFlag(o) == o.type \in MarketFlagTypes
LimitFlag(o)  == o.type \in LimitFlagTypes

(* The side of the book a taker meets, and who comes first on it.          *)
Opposite(s, is_ask) == {l \in s.book : l.is_ask # is_ask}

Before(l, m) ==
  \/ l.is_ask  /\ (l.price < m.price \/ (l.price = m.price /\ l.nonce < m.nonce))
  \/ ~l.is_ask /\ (l.price > m.price \/ (l.price = m.price /\ l.nonce > m.nonce))

Best(s, is_ask) == CHOOSE l \in Opposite(s, is_ask) :
                     \A m \in Opposite(s, is_ask) : m = l \/ Before(l, m)

Crosses(o, l) == IF o.is_ask THEN o.price <= l.price ELSE o.price >= l.price

(***************************************************************************)
(* The leaf the sequencer presents: the best maker for a market order, and *)
(* for a limit order if it crosses; otherwise the taker's own empty leaf.  *)
(* execute_matching asserts that nothing on the other side comes before    *)
(* the leaf it is given.                                                   *)
(***************************************************************************)
LeafIsEmpty(s, o) ==
  \/ Opposite(s, o.is_ask) = {}
  \/ ~MarketFlag(o) /\ ~Crosses(o, Best(s, o.is_ask))

Maker(s, o) == CHOOSE i \in Nonces : /\ s.orders[i] # NoOrder
                                     /\ s.orders[i].nonce = Best(s, o.is_ask).nonce

-----------------------------------------------------------------------------
(* A decision.                                                             *)
Decision(taker, maker, insert, kind, amount) ==
  [cancel_taker |-> taker, cancel_maker |-> maker, insert |-> insert,
   kind |-> kind, amount |-> amount]

CancelTaker == Decision(TRUE, FALSE, FALSE, "NONE", 0)
CancelMaker == Decision(FALSE, TRUE, FALSE, "NONE", 0)
CancelBoth  == Decision(TRUE, TRUE, FALSE, "NONE", 0)
InsertTaker == Decision(FALSE, FALSE, TRUE, "NONE", 0)

(* Mutant: the maker stays although nothing of it is left. *)
SelfTradeReduce_KeepsMaker(o, mk) ==
  LET amount == MinOf(o.remaining, mk.remaining)
  IN  IF o.tif = "POST_ONLY" THEN CancelTaker
      ELSE Decision(o.remaining = amount, FALSE, FALSE, "REDUCE", amount)

(* apply_self_trade_reduce                                                 *)
SelfTradeReduce(o, mk) ==
  LET amount == MinOf(o.remaining, mk.remaining)
  IN  IF o.tif = "POST_ONLY" THEN CancelTaker
      ELSE Decision(o.remaining = amount, mk.remaining = amount, FALSE, "REDUCE", amount)

SelfTradeExpire(o) ==
  CASE o.stp = "EXPIRE_MAKER" -> CancelMaker
    [] o.stp = "EXPIRE_TAKER" -> CancelTaker
    [] o.stp = "EXPIRE_BOTH"  -> CancelBoth

(* Mutant: reduce-only orders trade in full. *)
CappedAmount_InFull(s, o, mk) == MinOf(mk.remaining, o.remaining)

(* Reduce-only orders never trade more than the position they reduce.      *)
CappedAmount(s, o, mk) ==
  LET cap(order, n) == IF order.reduce_only THEN MinOf(Abs(s.pos[order.owner].position), n) ELSE n
  IN  cap(o, cap(mk, MinOf(mk.remaining, o.remaining)))

(* A market order may trade at a price worse than its own as far as what   *)
(* it gained on earlier fills pays for it.                                 *)
PriceDiff(o, mk) == IF o.is_ask THEN o.price - mk.price ELSE mk.price - o.price

(* Mutant: worse prices need no earlier gain. *)
AllowedAmount_Always(o, mk, acc, amount) == amount

AllowedAmount(o, mk, acc, amount) ==
  IF MarketFlag(o) /\ PriceDiff(o, mk) > 0
  THEN MinOf(acc \div PriceDiff(o, mk), amount) ELSE amount

TooMuchSlippage(o, mk, acc, amount) == AllowedAmount(o, mk, acc, amount) # amount

(* Positions and open interest after the trade (perps only).               *)
Delta(o, amount) == IF o.is_ask THEN -amount ELSE amount

NewPosition(s, o, amount) == s.pos[o.owner].position + B2N(~Spot) * Delta(o, amount)

(* Mutant: only the taker's position is counted. *)
NewOpenInterest_TakerOnly(s, o, mk, amount) ==
  s.market.open_interest + (Abs(NewPosition(s, o, amount)) - Abs(s.pos[o.owner].position))

NewOpenInterest(s, o, mk, amount) ==
  s.market.open_interest
    + (Abs(NewPosition(s, o, amount)) - Abs(s.pos[o.owner].position))
    + (Abs(NewPosition(s, mk, amount)) - Abs(s.pos[mk.owner].position))

(* is_valid_perps_trade, the open interest part: cancels the taker.        *)
OpenInterestExceeded(s, o, mk, amount, mark) ==
  LET old == s.market.open_interest * mark
      new == NewOpenInterest(s, o, mk, amount) * mark
      position  == s.pos[o.owner].position
      increases == \/ Abs(NewPosition(s, o, amount)) >= Abs(position)
                   \/ Sign(NewPosition(s, o, amount)) = -Sign(position)
      of_fund   == {o.owner, mk.owner} \cap InsuranceFund # {}
  IN  /\ ~Spot
      /\ \/ old > OpenInterestLimit /\ increases /\ ~of_fund
         \/ old <= OpenInterestLimit /\ new > OpenInterestLimit /\ ~of_fund
         \/ new > MARKET_OPEN_INTEREST_NOTIONAL

TradeDecision(s, o, mk, amount, slipped, c, mark) ==
  LET taker_bad == ~c.taker_ok \/ OpenInterestExceeded(s, o, mk, amount, mark)
      stop(order, left) ==
        \/ left = 0
        \/ /\ order.reduce_only
           /\ NotValidReduceOnlyDirection(NewPosition(s, order, amount), order.is_ask)
  IN  IF taker_bad \/ ~c.maker_ok
      THEN Decision(taker_bad, ~c.maker_ok, FALSE, "NONE", 0)
      ELSE Decision(\/ stop(o, o.remaining - amount) \/ slipped
                    \/ o.type = "LIQUIDATION" /\ c.healthy,
                    stop(mk, mk.remaining - amount), FALSE, "TRADE", amount)

(* Mutant: the dead man's switch is left to the cancel-all. *)
MakerIsStale_ExpiryOnly(s, mk, now) == IsExpired(mk, now)

(* Cancelled on sight, though nobody cancelled it yet.                     *)
MakerIsStale(s, mk, now) == IsExpired(mk, now) \/ ShouldDmsBeTriggered(s, mk.owner, now)

(* The rungs once there is a maker.                                        *)
DecideAgainst(s, o, mk, acc, c, now, mark) ==
  LET same    == o.owner = mk.owner
      capped  == CappedAmount(s, o, mk)
      allowed == AllowedAmount(o, mk, acc, capped)
  IN  IF same /\ o.integrator /\ IsExpired(mk, now) THEN CancelMaker
      ELSE IF same /\ o.integrator THEN SelfTradeReduce(o, mk)
      ELSE IF same /\ ~o.by_master /\ IsExpired(mk, now) THEN CancelMaker
      ELSE IF same /\ ~o.by_master /\ o.stp # "REDUCE" THEN SelfTradeExpire(o)
      ELSE IF same /\ ~o.by_master THEN SelfTradeReduce(o, mk)
      ELSE IF MakerIsStale(s, mk, now) THEN CancelMaker
      ELSE IF /\ o.by_master /\ ~o.integrator /\ o.stp # "REDUCE"
              /\ Master[o.owner] = Master[mk.owner] THEN SelfTradeExpire(o)
      ELSE IF o.tif = "POST_ONLY" THEN CancelTaker
      ELSE IF ~Spot /\ NotValidReduceOnly(s, mk) THEN CancelMaker
      ELSE IF MarketFlag(o) /\ allowed = 0 THEN CancelTaker
      ELSE TradeDecision(s, o, mk, allowed, TooMuchSlippage(o, mk, acc, capped), c, mark)

Decide(s, c, now, mark) ==
  LET o == Top(s).order
  IN  IF o.trigger_status # "NA" THEN InsertTaker
      ELSE IF ~Spot /\ NotValidReduceOnly(s, o) THEN CancelTaker
      ELSE IF LeafIsEmpty(s, o)
           THEN IF o.tif = "IOC" THEN CancelTaker ELSE InsertTaker
      ELSE DecideAgainst(s, o, s.orders[Maker(s, o)], Top(s).acc, c, now, mark)

-----------------------------------------------------------------------------
(* "Register should be a limit order": asserted when it is to rest.        *)
RestingAssertion(s, d) ==
  LET o == Top(s).order
  IN  (d.insert /\ o.trigger_status = "NA") => LimitFlag(o)

(* Mutant: the filled part stays locked. *)
Fill_KeepsLock(s, m, d) ==
  IF d.kind = "NONE" THEN s
  ELSE [s EXCEPT !.rs.stack[0].order.remaining = @ - d.amount,
                 !.orders[m].remaining = @ - d.amount,
                 !.book = SetLeaf(@, s.orders[m], s.orders[m].remaining - d.amount)]

(* What a fill, or a self-trade reduction, takes from taker and maker.     *)
Fill(s, m, d) ==
  LET o  == Top(s).order
      mk == s.orders[m]
  IN  IF d.kind = "NONE" THEN s
      ELSE [Unlock(s, Locks(mk), mk, d.amount)
              EXCEPT !.rs.stack[0].order.remaining = @ - d.amount,
                     !.orders[m].remaining = @ - d.amount,
                     !.book = SetLeaf(@, mk, mk.remaining - d.amount)]

SetPosition(s, o, amount) ==
  LET p == InitIfEmpty(s.pos[o.owner], o.owner)
  IN  IF Spot THEN s
      ELSE [s EXCEPT !.pos[o.owner] = [p EXCEPT !.position = @ + Delta(o, amount)]]

Trade(s, m, d) ==
  LET o  == Top(s).order
      mk == s.orders[m]
  IN  IF d.kind # "TRADE" THEN s
      ELSE [SetPosition(SetPosition(s, o, d.amount), mk, d.amount)
              EXCEPT !.market.open_interest = NewOpenInterest(s, o, mk, d.amount),
                     !.rs.stack[0].acc =
                       @ - B2N(MarketFlag(o)) * PriceDiff(o, mk) * d.amount]

(* The maker order goes: its children are triggered by what was filled, or *)
(* cancelled if nothing was.                                               *)
DropMaker(s, m, flag) ==
  LET mk     == s.orders[m]
      filled == mk.initial - mk.remaining
      gone   == RemoveOrder(Unlock(DecrementOrderCount(s, mk.owner, mk),
                                   Locks(mk), mk, mk.remaining), m)
  IN  IF ~flag THEN s
      ELSE TriggerChildOrders(CancelChildOrders(gone, filled = 0, mk, 7),
                              filled # 0, mk, filled, 7)

(* The taker has left the register stack: dropped, its children likewise,  *)
(* or inserted in the trees.                                               *)
DropTaker(s, o, flag) ==
  LET filled == o.initial - o.remaining
  IN  TriggerChildOrders(CancelChildOrders(s, flag /\ filled = 0, o, 5),
                         flag /\ filled # 0, o, filled, 5)

InsertTakerOrder(s, o, i, flag) ==
  IF ~flag THEN s
  ELSE Lock(IncrementOrderCount(
              [s EXCEPT !.orders[i] = o,
                        !.book = IF o.trigger_status = "NA"
                                 THEN SetLeaf(@, o, o.remaining) ELSE @],
              o.owner, o),
            o.trigger_status = "NA" /\ Locks(o), o)

(* The integrator's fees, paid by the fee account afterwards.              *)
PutTransfers(s, o, mk, c) ==
  Put(Put(s, c.taker_fee /\ o.integrator, Instruction("TRANSFER_ASSET", FeeAccount, 1, NIL), 1),
      c.maker_fee /\ mk.integrator, Instruction("TRANSFER_ASSET", FeeAccount, 1, NIL), 0)

(* Mutant: closing a position is not noticed, only turning it. *)
SignChanged_TurnsOnly(before, after, a) ==
  Sign(before.pos[a].position) * Sign(after.pos[a].position) = -1

SignChanged(before, after, a) ==
  Sign(before.pos[a].position) # Sign(after.pos[a].position)

ExecuteMatching(s, c, now, mark) ==
  LET d      == Decide(s, c, now, mark)
      reg    == Top(s)
      o      == reg.order
      m      == IF LeafIsEmpty(s, o) THEN NIL ELSE Maker(s, o)
      traded == Trade(Fill(Assert(s, RestingAssertion(s, d)), m, d), m, d)
      left   == Top(traded).order
      popped == Pop(traded, d.cancel_taker \/ d.insert)
      s1     == DropMaker(popped, m, d.cancel_maker)
      s2     == DropTaker(s1, left, d.cancel_taker)
      s3     == InsertTakerOrder(s2, left, reg.index, d.insert)
      mk     == s.orders[m]
      s4     == CancelPositionTied(s3, SignChanged(s, traded, o.owner), o.owner, 3)
      s5     == CancelPositionTied(s4, SignChanged(s, traded, mk.owner), mk.owner, 2)
  IN  IF d.kind = "TRADE" THEN PutTransfers(s5, o, mk, c) ELSE s3
=============================================================================
