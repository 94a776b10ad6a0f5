---------------------------- MODULE MCOrderFlow ----------------------------
(***************************************************************************)
(* Instances of OrderFlow small enough for TLC.  Each setup picks the      *)
(* requests that exercise one aspect of the market.                        *)
(***************************************************************************)
EXTENDS OrderFlow

CONSTANTS a1, a2

(* Two accounts of different owners, or a master and its sub-account.      *)
OwnMasters == [a \in Accounts |-> a]
SameMaster == [a \in Accounts |-> a1]

-----------------------------------------------------------------------------
(* Requests.                                                               *)
Request(type, is_ask, price, base, tif, expiry) ==
  [type |-> type, is_ask |-> is_ask, price |-> price, base |-> base, tif |-> tif,
   expiry |-> expiry, reduce_only |-> FALSE, trigger_price |-> NIL,
   stp |-> "EXPIRE_MAKER", by_master |-> FALSE, integrator |-> FALSE]

Far == 9                    \* an expiry that no run reaches

Limit(is_ask, price, base)  == Request("LIMIT", is_ask, price, base, "GTT", Far)
Market(is_ask, price, base) == Request("MARKET", is_ask, price, base, "IOC", NIL)
PostOnly(is_ask, price, base) == Request("LIMIT", is_ask, price, base, "POST_ONLY", Far)
Twap(is_ask, price, base)   == Request("TWAP", is_ask, price, base, "GTT", Far)
Stop(type, is_ask, price, base, tif, trigger) ==
  [Request(type, is_ask, price, base, tif, Far) EXCEPT !.trigger_price = trigger]
ReduceOnly(f)     == [f EXCEPT !.reduce_only = TRUE]
Expiring(f, time) == [f EXCEPT !.expiry = time]
SelfTrade(f, mode) == [f EXCEPT !.stp = mode]
ByMaster(f)       == [f EXCEPT !.by_master = TRUE]
Integrated(f)     == [f EXCEPT !.integrator = TRUE]

Modify(price, base, trigger) ==
  [price |-> price, base |-> base, trigger_price |-> trigger,
   stp |-> "EXPIRE_MAKER", by_master |-> FALSE, integrator |-> FALSE]

Verdict(taker, maker) ==
  [taker_ok |-> taker, maker_ok |-> maker, healthy |-> FALSE,
   taker_fee |-> FALSE, maker_fee |-> FALSE]

None      == {}
AllValid  == {Verdict(TRUE, TRUE)}
AnyRisk   == {Verdict(TRUE, TRUE), Verdict(FALSE, TRUE), Verdict(TRUE, FALSE)}
OneMark   == {1}
TwoMarks  == {1, 2}

-----------------------------------------------------------------------------
(* Matching: prices, sizes and times in force.                             *)
MatchingRequests ==
  {Limit(TRUE, 1, 1), Limit(TRUE, 3, 2), ReduceOnly(Limit(TRUE, 1, 2)),
   Limit(FALSE, 3, 2), PostOnly(FALSE, 1, 1), Market(FALSE, 2, 3)}
MatchingModifies == {Modify(3, 1, NIL)}

-----------------------------------------------------------------------------
(* Grouped and conditional orders: a2 is mostly the counterparty.  The     *)
(* stop loss of a long triggers at mark 1, its take profit at mark 2.      *)
StopLoss(base)   == ReduceOnly(Stop("STOP_LOSS", TRUE, 1, base, "IOC", 1))
TakeProfit(base) == ReduceOnly(Stop("TAKE_PROFIT_LIMIT", TRUE, 2, base, "GTT", 2))

GroupedRequests == {Limit(TRUE, 1, 1), Limit(FALSE, 2, 2)}
Groups ==
  {[type |-> "OTO",   orders |-> <<Limit(FALSE, 1, 1), StopLoss(0)>>],
   [type |-> "OTOCO", orders |-> <<Limit(FALSE, 1, 2), StopLoss(0), TakeProfit(0)>>],
   [type |-> "OCO",   orders |-> <<StopLoss(1), TakeProfit(1)>>]}

-----------------------------------------------------------------------------
(* The dead man's switch, expiring orders and TWAP orders.                 *)
TimedRequests ==
  {Expiring(Limit(TRUE, 1, 1), 2), Limit(TRUE, 1, 1), Market(FALSE, 1, 2),
   Expiring(Twap(FALSE, 1, 2), 3), ReduceOnly(Twap(FALSE, 1, 1))}

-----------------------------------------------------------------------------
(* Isolated margin, liquidation and priority orders; self-trades of every  *)
(* mode between accounts of one owner, and integrators' fees.              *)
MarginRequests ==
  {SelfTrade(Limit(TRUE, 1, 1), "REDUCE"), ReduceOnly(Limit(TRUE, 1, 2)),
   SelfTrade(Limit(FALSE, 1, 2), "REDUCE"), SelfTrade(Limit(FALSE, 1, 1), "EXPIRE_TAKER"),
   SelfTrade(ByMaster(Limit(FALSE, 1, 1)), "EXPIRE_BOTH"),
   Integrated(Limit(FALSE, 1, 2)), Integrated(Limit(TRUE, 1, 1))}
PriorityRequests == {[type |-> "LIMIT", is_ask |-> TRUE, price |-> 1, base |-> 0]}
MarginVerdicts ==
  {Verdict(TRUE, TRUE), [Verdict(TRUE, TRUE) EXCEPT !.healthy = TRUE],
   [Verdict(TRUE, TRUE) EXCEPT !.taker_fee = TRUE, !.maker_fee = TRUE]}

-----------------------------------------------------------------------------
(* A spot market: limit and TWAP orders lock balances or not.              *)
SpotRequests ==
  {Limit(TRUE, 1, 1), Limit(TRUE, 2, 2), Limit(FALSE, 2, 2), Market(FALSE, 2, 1), Twap(FALSE, 2, 2)}
SpotModifies == {Modify(1, 2, NIL)}

-----------------------------------------------------------------------------
(* Requests on which a comment or an assertion of the code fails.          *)
OpenOnly        == {Limit(TRUE, 1, 1), Limit(FALSE, 1, 1)}
RestingStopLoss == [StopLoss(1) EXCEPT !.tif = "GTT"]
NotIocGroup     == {[type |-> "OCO", orders |-> <<RestingStopLoss, TakeProfit(1)>>]}
SlicedSpot      == {Limit(FALSE, 1, 1), Twap(FALSE, 1, 2)}
ToSliced        == {Modify(1, 1, NIL)}

-----------------------------------------------------------------------------
(* The setups.                                                             *)
Plain ==
  [master |-> OwnMasters, insurance_fund |-> {}, unified |-> {}, spot |-> FALSE,
   default_isolated |-> FALSE, max_nonce |-> 5, open_interest_limit |-> 100,
   open_interest_notional |-> 100, create |-> None, groups |-> None, modify |-> None,
   cancel_all |-> None, l1 |-> None, verdicts |-> AllValid, marks |-> OneMark,
   initial_mark |-> 1, slices |-> {}, liquidation |-> {}, max_time |-> 1]

MatchingSetup ==
  [Plain EXCEPT !.open_interest_limit = 5, !.open_interest_notional = 6,
     !.create = MatchingRequests, !.modify = MatchingModifies, !.cancel_all = {"IMMEDIATE"},
     !.verdicts = AnyRisk, !.marks = TwoMarks]
SpotSetup ==
  [Plain EXCEPT !.insurance_fund = {a2}, !.unified = {a1}, !.spot = TRUE,
     !.create = SpotRequests, !.modify = SpotModifies, !.cancel_all = {"IMMEDIATE"},
     !.verdicts = AnyRisk, !.slices = {1, 2}]
MarginSetup ==
  [Plain EXCEPT !.max_nonce = 4, !.master = SameMaster, !.default_isolated = TRUE,
     !.create = MarginRequests,
     !.l1 = PriorityRequests, !.verdicts = MarginVerdicts, !.liquidation = {1}]
TimedSetup ==
  [Plain EXCEPT !.max_nonce = 4, !.create = TimedRequests,
     !.cancel_all = {"IMMEDIATE", "SCHEDULED", "ABORT"}, !.slices = {1}, !.max_time = 3]
GroupedSetup ==
  [Plain EXCEPT !.max_nonce = 6, !.create = GroupedRequests, !.groups = Groups,
     !.cancel_all = {"MARKET"}, !.marks = TwoMarks, !.initial_mark = 2]
RestingStopSetup ==
  [Plain EXCEPT !.max_nonce = 6, !.create = OpenOnly, !.groups = NotIocGroup]
SlicedTwapSetup == [Plain EXCEPT !.spot = TRUE, !.create = SlicedSpot, !.modify = ToSliced, !.slices = {1}]

OrderSetups ==
  [matching |-> MatchingSetup, spot |-> SpotSetup, margin |-> MarginSetup, timed |-> TimedSetup]
GroupSetups       == [grouped |-> GroupedSetup]
RestingStopSetups == [resting_stop |-> RestingStopSetup]
SlicedTwapSetups  == [sliced_twap |-> SlicedTwapSetup]
=============================================================================
