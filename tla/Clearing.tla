------------------------------ MODULE Clearing ------------------------------
(***************************************************************************)
(* Settlement of trades: positions, realised profit, funding, isolated     *)
(* margin, fees, and the transactions that rest on them (leverage, margin, *)
(* liquidation, deleverage, exit).  Which orders meet, at which price and  *)
(* for which size is the matching engine's business (Matching); here any   *)
(* trade of the inputs may be proposed, and it happens if both accounts    *)
(* can bear it.                                                            *)
(*                                                                         *)
(*  market    also [oi, isolatedDefault, isolatedOnly, orders]             *)
(*  register  [kind: ORDER, account, k, ask, price, size] or               *)
(*            [kind: TRANSFER, from, to, x, spot, amount, strategy] or     *)
(*            [kind: CANCEL_TIED, account, k, size]                        *)
(***************************************************************************)
EXTENDS PoolLedger

CONSTANTS MAX_POSITION_SIZE, MAX_ENTRY_QUOTE, MAX_INTEGRATOR_FEE_AMOUNT, MAX_DELEVERAGE_QUOTE

INSURANCE_FUND_SPOT_STRATEGY_INDEX == 1

CANCEL_TIED == "cancel position tied orders"

U == USDC_TO_COLLATERAL_MULTIPLIER

-----------------------------------------------------------------------------
(* One side of a perps trade.                                               *)

\* Pools are always cross; anyone else starts in the mode of the market.
init_if_empty(p, a, m) ==
    IF p = EmptyPosition THEN [p EXCEPT !.isolated = m.isolatedDefault /\ ~IsPool(a), !.set = TRUE]
    ELSE p

\* Funding is settled before anything else; that of a cross position goes to
\* the account.
FundingSettled(p, m) ==
    [p EXCEPT !.alloc = @ + (IF p.isolated THEN unrealized_funding(p, m) ELSE 0),
              !.last = m.funding]

\* What was paid for the position after it changed by d for quote.
NewEntryQuote(p, size, d, quote) ==
    IF Sgn(size) # Sgn(p.size) THEN IF quote > 0 THEN (quote \div Abs(d)) * Abs(size) ELSE 0
    ELSE IF Sgn(d) = Sgn(p.size) THEN p.entry + Pos(quote)
    ELSE (p.entry * Abs(size)) \div Abs(p.size)

calculate_position_change(p, m, d, quote) ==
    LET size == p.size + d
    IN  [p EXCEPT !.size = size, !.entry = NewEntryQuote(p, size, d, quote), !.last = m.funding,
                  !.imf = get_initial_margin_fraction(p, m)]

realized_pnl(p, new, d, quote) ==
    Sgn(new.size) * new.entry - (Sgn(p.size) * p.entry + Sgn(d) * quote)

InitialMargin(p, m, size) ==
    m.mark * m.qm * MARGIN_FRACTION_MULTIPLIER * get_initial_margin_fraction(p, m) * size

MarketValue(p, m) == p.alloc + U * unrealized_pnl(p, m)

\* The part of the position that is left keeps its share of the value, and at
\* least what it requires.
TargetValue(p, new, m) ==
    LET required == InitialMargin(new, m, Abs(new.size))
        share == CeilDiv(MarketValue(p, m) * Abs(new.size), Abs(p.size))
    IN  IF MarketValue(p, m) > 0 /\ share > required THEN share ELSE required

\* What moves from the account to the margin allocated to the position.
calculate_isolated_margin_change(p, new, m, fee) ==
    IF new.size = 0 THEN -Pos(new.alloc)
    ELSE IF Sgn(new.size) = -Sgn(p.size)
    THEN InitialMargin(new, m, Abs(new.size)) - MarketValue(new, m)
    ELSE IF Abs(new.size) >= Abs(p.size)
    THEN Pos(InitialMargin(new, m, Abs(new.size) - Abs(p.size))
                - (U * (unrealized_pnl(new, m) - unrealized_pnl(p, m)) - fee))
    ELSE -Least(Pos(MarketValue(new, m) - TargetValue(p, new, m)), Pos(new.alloc))

\* s.new is the position without the margin that moves.
MarginSettled(s, m, moved) ==
    LET new == [s.new EXCEPT !.alloc = @ + moved]
    IN  [pos |-> new, was |-> s.old, margin |-> moved, before |-> s.before,
         collateral |-> IF s.old.isolated THEN -moved ELSE s.gain + s.funding,
         after |-> update_for_perps_trade([s.before EXCEPT !.usdc = @ + s.funding],
                                          s.gain + moved, s.old, new, m)]

\* The gain of an isolated position is first credited to its margin.
GainSettled(s, m, fee) ==
    IF s.old.isolated THEN MarginSettled(s, m, calculate_isolated_margin_change(s.old, s.new, m, fee))
    ELSE MarginSettled(s, m, 0)

ChangeSettled(s, m, gain, fee) ==
    GainSettled([s EXCEPT !.gain = gain,
                          !.new.alloc = @ + IF s.old.isolated THEN gain ELSE 0], m, fee)

\* s = [old, new, funding, gain, before]: old has its funding settled.
TradeSettled(s, m, d, quote, fee) ==
    ChangeSettled([s EXCEPT !.new = calculate_position_change(s.old, m, d, quote)], m,
                  U * realized_pnl(s.old, calculate_position_change(s.old, m, d, quote), d, quote) - fee,
                  fee)

PositionSettled(p, m, before, d, quote, fee) ==
    TradeSettled([old |-> FundingSettled(p, m), new |-> p, funding |-> unrealized_funding(p, m),
                  gain |-> 0, before |-> before], m, d, quote, fee)

\* Slot i changes its position in market k by d for quote and pays fee.
Settlement(t, i, k, d, quote, fee) ==
    PositionSettled(init_if_empty(t.s[i].pos[k], t.s[i], t.market[k]), t.market[k],
                    CurrentRisk(t, i, k), d, quote, fee)

is_valid(p) == Abs(p.size) <= MAX_POSITION_SIZE /\ p.entry <= MAX_ENTRY_QUOTE

\* Margin for an isolated position comes out of what the account has free.
EnoughCrossCollateral(available, s) == s.margin < 0 \/ s.margin <= available

\* Mutant: an isolated position may take what the account does not have.
is_valid_perps_trade_NoCross(t, i, s) ==
    is_valid(s.pos) /\ is_valid_risk_change(s.before, s.after)

is_valid_perps_trade(t, i, s) ==
    /\ is_valid(s.pos)
    /\ is_valid_risk_change(s.before, s.after)
    /\ EnoughCrossCollateral(get_available_usdc_collateral(CrossRisk(t, i)), s)

apply_perps_trade(t, k, taker, maker) ==
    LET u == [t EXCEPT !.s[OWNER].pos[k] = taker.pos, !.s[SUB].pos[k] = maker.pos,
                       !.market[k].oi = @ + Abs(taker.pos.size) - Abs(taker.was.size)
                                          + Abs(maker.pos.size) - Abs(maker.was.size)]
    IN  apply_collateral_delta(apply_collateral_delta(u, OWNER, taker.collateral),
                               SUB, maker.collateral)

-----------------------------------------------------------------------------
(* Fees.                                                                    *)

IsFeeCollector(t) == IsFund(t.s[FEE]) \/ t.idx[FEE] = TREASURY_ACCOUNT_INDEX

\* Integrators are paid by the fee account, which has collected their fee with
\* its own.  The taker's transfer is pushed below the maker's.
IntegratorTransfers(t, transfers) ==
    SelectSeq([n \in DOMAIN transfers |->
                [transfers[n] EXCEPT !.amount = Least(@, MAX_INTEGRATOR_FEE_AMOUNT)]],
              LAMBDA r : r.amount # 0 /\ r.to # t.idx[FEE] /\ Exists(t.s[FEE]))

TransferRegister(t, to, x, spot, amount, strategy) ==
    [kind |-> TRANSFER, from |-> t.idx[FEE], to |-> to, x |-> x, spot |-> spot,
     amount |-> amount, strategy |-> strategy]

PerpsIntegratorFee(m, quote, rate) == (rate * quote * m.qm) \div U

\* Mutant: amounts are rounded up.
SpotIntegratorFee_RoundedUp(amount, extension, em, rate) ==
    CeilDiv(amount * (extension \div FEE_TICK) * rate, em)

SpotIntegratorFee(amount, extension, em, rate) ==
    (amount * (extension \div FEE_TICK) * rate) \div em

-----------------------------------------------------------------------------
(* Trades.                                                                  *)

\* in = [taker, maker, fund, k, ask, base, price, takerFee, makerFee,
\* integrator, takerRate, makerRate]: fund collects the fees.
Delta(in) == IF in.ask THEN -in.base ELSE in.base

PerpsQuote(t, in) == in.base * in.price * t.market[in.k].qm

TakerSide(t, in) ==
    Settlement(t, OWNER, in.k, Delta(in), PerpsQuote(t, in),
               PerpsQuote(t, in) * (in.takerFee + in.takerRate))

MakerSide(t, in) ==
    Settlement(t, SUB, in.k, -Delta(in), PerpsQuote(t, in),
               PerpsQuote(t, in) * (in.makerFee + in.makerRate))

TradeFee(t, in) ==
    PerpsQuote(t, in) * (in.takerFee + in.takerRate + in.makerFee + in.makerRate)

PerpsTraded(t, in, taker, maker) ==
    FeeCollected(apply_perps_trade(t, in.k, taker, maker), TradeFee(t, in))

PerpsTransfers(t, in) ==
    LET m == t.market[in.k]
        transfer(rate) == TransferRegister(t, in.integrator, USDC, PERPS,
                                           PerpsIntegratorFee(m, PerpsQuote(t, in), rate), m.strategy)
    IN  IntegratorTransfers(t, <<transfer(in.makerRate), transfer(in.takerRate)>>)

PerpsTradeValid(t, in, taker, maker) ==
    /\ t.market[in.k].active
    /\ in.taker # in.maker
    /\ IsFeeCollector(t)
    /\ TradeFee(t, in) >= 0 /\ in.takerFee + in.makerFee >= 0
    /\ is_valid_perps_trade(t, OWNER, taker)
    /\ is_valid_perps_trade(t, SUB, maker)

\* An order that the matching engine takes up is settled at once; a liquidation
\* order waits on the stack and is settled below.
PerpsTrade(in) ==
    /\ Idle
    /\ \E t \in {InMarket(Begin(in.taker, in.maker, in.fund), in.k)} :
       \E taker \in {TakerSide(t, in)}, maker \in {MakerSide(t, in)} :
        /\ PerpsTradeValid(t, in, taker, maker)
        /\ Commit(PerpsTraded(t, in, taker, maker))
        /\ stack' = PerpsTransfers(t, in)
        /\ UNCHANGED <<setup, system, clock, rounds, flow, drift>>

-----------------------------------------------------------------------------
(* Spot trades: in.m = [base, quote, sizeExt, quoteExt].                    *)

SpotQuote(in) == in.base * in.price

\* The buyer of an asset pays the fee in it.
BaseFee(in) ==
    in.base * (in.m.sizeExt \div FEE_TICK)
        * IF in.ask THEN in.makerFee + in.makerRate ELSE in.takerFee + in.takerRate

QuoteFee(in) ==
    SpotQuote(in) * (in.m.quoteExt \div FEE_TICK)
        * IF in.ask THEN in.takerFee + in.takerRate ELSE in.makerFee + in.makerRate

Sold(in) == IF in.ask THEN in.m.base ELSE in.m.quote

Bought(in) == IF in.ask THEN in.m.quote ELSE in.m.base

\* Of asset x, what the trade moves and what of it is fee.
Gross(in, x) == IF x = in.m.base THEN in.base * in.m.sizeExt ELSE SpotQuote(in) * in.m.quoteExt

FeeIn(in, x) == IF x = in.m.base THEN BaseFee(in) ELSE QuoteFee(in)

FeeIfCollector(t, i, in, x) == IF t.idx[i] = t.idx[FEE] THEN FeeIn(in, x) ELSE 0

SpotPaid(t, i, in, x, raw) ==
    LET delta == FeeIfCollector(t, i, in, x) - Gross(in, x)
    IN  IF raw THEN apply_asset_delta_raw(t, i, x, PERPS, delta, TRUE)
        ELSE AssetDelta(t, i, x, SPOT, delta)

SpotReceived(t, i, in, x, raw) ==
    LET delta == FeeIfCollector(t, i, in, x) + Gross(in, x) - FeeIn(in, x)
    IN  IF raw THEN apply_asset_delta_raw(t, i, x, PERPS, delta, TRUE)
        ELSE AssetDelta(t, i, x, SPOT, delta)

\* Both sell before either buys, so that what is sold no longer counts against
\* the supply cap of what is bought.  A liquidated taker trades what it lent.
SpotSides(t, in, liquidation) ==
    SpotReceived(SpotReceived(SpotPaid(SpotPaid(t, OWNER, in, Sold(in), liquidation),
                                       SUB, in, Bought(in), FALSE),
                              OWNER, in, Bought(in), liquidation),
                 SUB, in, Sold(in), FALSE)

\* A third account collects the fees.
SpotFees(t, in) ==
    LET at(u, x) == IF u.idx[FEE] \in {u.idx[OWNER], u.idx[SUB]} THEN u
                    ELSE AssetDelta(u, FEE, x, SPOT, FeeIn(in, x))
    IN  at(at(t, in.m.base), in.m.quote)

SpotRisk(t, u, i, in, before) ==
    LET step(r, x) ==
            IF is_asset_used_as_margin(t.s[i], x) /\ ~IsFund(t.s[i])
            THEN update_for_spot_trade(r, x, t.asset[x], t.s[i].bal[x].margin, u.s[i].bal[x].margin)
            ELSE r
    IN  step(step(before, in.m.base), in.m.quote)

\* sold is the asset that slot i sells.  A fund must not overdraw the strategy
\* that holds its spot budget.
is_valid_spot_trade(t, u, i, in, sold) ==
    \E before \in {CrossRisk(t, i)} : \E after \in {SpotRisk(t, u, i, in, before)} :
        /\ \A x \in {in.m.base, in.m.quote} : BalancesCover(u.s[i].bal[x], x)
        /\ ~IsFund(t.s[i]) /\ sold = USDC => after.withFunding >= 0
        /\ t.s[i].unified /\ ~IsFund(t.s[i]) => is_valid_risk_change(before, after)
        /\ IsFund(t.s[i]) => u.s[i].strategies[u.strat[i]] >= 0

SpotTransfers(t, in) ==
    LET amount(x, rate) ==
            IF x = in.m.base THEN SpotIntegratorFee(in.base, in.m.sizeExt, t.asset[x].em, rate)
            ELSE SpotIntegratorFee(SpotQuote(in), in.m.quoteExt, t.asset[x].em, rate)
        transfer(x, rate) == TransferRegister(t, in.integrator, x, SPOT, amount(x, rate), 0)
    IN  IntegratorTransfers(t, <<transfer(Sold(in), in.makerRate), transfer(Bought(in), in.takerRate)>>)

\* u is t with both sides settled.
SpotTradeValid(t, u, in) ==
    /\ in.taker # in.maker
    /\ IsFeeCollector(t)
    /\ in.takerFee >= 0 /\ in.makerFee >= 0
    /\ is_valid_spot_trade(t, u, OWNER, in, Sold(in))
    /\ is_valid_spot_trade(t, u, SUB, in, Bought(in))

\* The USDC of a fund's spot trades has a strategy of its own.
InSpotMarket(t) ==
    [t EXCEPT !.strat = [i \in DOMAIN t.s |->
        IF i # FEE /\ IsFund(t.s[i]) THEN INSURANCE_FUND_SPOT_STRATEGY_INDEX ELSE 0]]

SpotTrade(in) ==
    /\ Idle
    /\ \E t \in {InSpotMarket(Begin(in.taker, in.maker, in.fund))} :
       \E u \in {SpotSides(t, in, FALSE)} :
        /\ SpotTradeValid(t, u, in)
        /\ Commit(SpotFees(u, in))
        /\ stack' = SpotTransfers(t, in)
        /\ UNCHANGED <<setup, system, clock, rounds, flow, drift>>

-----------------------------------------------------------------------------
(* Liquidation.  The order is pushed at its zero price and settled, in as   *)
(* many trades as it takes, while the account remains in liquidation.       *)

InternalLiquidatePosition(in) ==
    \E t \in {InMarket(Begin(in.account, NoAccount, NoAccount), in.k)} :
    \E p \in {t.s[OWNER].pos[in.k]}, r \in {CurrentRisk(t, OWNER, in.k)} :
        /\ Idle
        /\ t.market[in.k].active
        /\ ~IsFund(t.s[OWNER])
        /\ in.size \in 1 .. Abs(p.size)
        /\ r.mmr # 0 /\ get_health(r) = PARTIAL_LIQUIDATION
        /\ stack' = <<[kind |-> ORDER, account |-> in.account, k |-> in.k, ask |-> p.size > 0,
                       price |-> get_position_zero_price(p, t.market[in.k], r),
                       size |-> in.size, spot |-> FALSE]>>
        /\ UNCHANGED <<setup, acct, asset, market, system, clock, rounds, flow, drift>>

InternalLiquidateSpot(in) ==
    LET t == InSpotMarket(Begin(in.account, NoAccount, NoAccount))
        x == in.m.base
    IN  /\ Idle
        /\ ~IsFund(t.s[OWNER])
        /\ x # USDC /\ in.m.quote = USDC
        /\ t.asset[x].exists /\ t.asset[x].marginEnabled
        /\ in.size * in.m.sizeExt <= t.s[OWNER].bal[x].margin
        /\ is_in_liquidation(CrossRisk(t, OWNER))
        /\ stack' = <<[kind |-> ORDER, account |-> in.account, k |-> in.m, ask |-> TRUE,
                       price |-> get_asset_zero_price(t.asset[x], in.m.sizeExt, in.m.quoteExt),
                       size |-> in.size, spot |-> TRUE]>>
        /\ UNCHANGED <<setup, acct, asset, market, system, clock, rounds, flow, drift>>

IsLiquidating(spot) == stack # <<>> /\ Head(stack).kind = ORDER /\ Head(stack).spot = spot

Better(order, price) == IF order.ask THEN price >= order.price ELSE price <= order.price

\* The fee of a liquidation comes out of what the price is better than zero.
LiquidationFeeValid(in, order, liquidationFee) ==
    /\ in.makerFee >= 0
    /\ in.takerFee <= Least(liquidationFee, (Abs(in.price - order.price) * FEE_TICK) \div in.price)

\* What is left of the order; it ends when it is filled or has done its work.
OrderLeft(order, base, stillInLiquidation) ==
    IF order.size = base \/ ~stillInLiquidation THEN <<>>
    ELSE <<[order EXCEPT !.size = @ - base]>>

FitsOrder(in, order) ==
    /\ in.taker = order.account /\ in.ask = order.ask
    /\ in.base <= order.size
    /\ Better(order, in.price)
    /\ in.takerRate = 0

LiquidationTrade(in) ==
    /\ IsLiquidating(PERPS) /\ in.k = Head(stack).k
    /\ FitsOrder(in, Head(stack))
    /\ LiquidationFeeValid(in, Head(stack), market[in.k].liquidationFee)
    /\ \E t \in {InMarket(Begin(in.taker, in.maker, in.fund), in.k)} :
       \E taker \in {TakerSide(t, in)}, maker \in {MakerSide(t, in)} :
        /\ PerpsTradeValid(t, in, taker, maker)
        /\ Commit(PerpsTraded(t, in, taker, maker))
        /\ stack' = PerpsTransfers(t, in)
                     \o OrderLeft(Head(stack), in.base, is_in_liquidation(taker.after))
        /\ UNCHANGED <<setup, system, clock, rounds, flow, drift>>

SpotLiquidationTrade(in) ==
    /\ IsLiquidating(SPOT) /\ in.m = Head(stack).k
    /\ FitsOrder(in, Head(stack))
    /\ LiquidationFeeValid(in, Head(stack), asset[in.m.base].liquidationFee)
    /\ \E t \in {InSpotMarket(Begin(in.taker, in.maker, in.fund))} :
       \E u \in {SpotSides(t, in, TRUE)} :
        /\ SpotTradeValid(t, u, in)
        /\ Commit(SpotFees(u, in))
        /\ stack' = SpotTransfers(t, in)
                     \o OrderLeft(Head(stack), in.base,
                            is_in_liquidation(SpotRisk(t, u, OWNER, in, CrossRisk(t, OWNER))))
        /\ UNCHANGED <<setup, system, clock, rounds, flow, drift>>

\* No maker at the price, or a trade that one side cannot bear.
LiquidationEnds ==
    /\ stack # <<>> /\ Head(stack).kind = ORDER
    /\ stack' = Tail(stack)
    /\ UNCHANGED <<setup, acct, asset, market, system, clock, rounds, flow, drift>>

-----------------------------------------------------------------------------
(* Deleverage: a position is taken over at its zero quote, by the insurance *)
(* fund or by an account on the other side.                                 *)

\* in = [bankrupt, deleverager, k, size]; r is the risk of the bankrupt.
ZeroQuote(t, r, in) ==
    get_position_zero_quote(t.s[OWNER].pos[in.k], t.market[in.k], r, in.size)

BankruptSide(t, quote, in) ==
    Settlement(t, OWNER, in.k, -Sgn(t.s[OWNER].pos[in.k].size) * in.size, quote, 0)

DeleveragerSide(t, quote, in) ==
    Settlement(t, SUB, in.k, Sgn(t.s[OWNER].pos[in.k].size) * in.size, quote, 0)

DeleverageAllowed(t, r, in) ==
    LET p == t.s[OWNER].pos[in.k]
    IN  /\ t.market[in.k].active
        /\ in.bankrupt # in.deleverager
        /\ get_health(r) \in {FULL_LIQUIDATION, BANKRUPTCY} /\ r.mmr # 0
        /\ IsFund(t.s[OWNER]) \/ IF p.isolated THEN p.orders = 0 ELSE t.s[OWNER].orders = 0
        /\ in.size \in 1 .. Abs(p.size)

\* Anyone but a fund must be on the other side and is never paid for it.
DeleveragerAllowed(t, quote, in) ==
    LET p == t.s[SUB].pos[in.k]
    IN  IF IsFund(t.s[SUB]) THEN t.s[SUB].pool.status # FROZEN
        ELSE /\ quote > 0
             /\ in.size <= Abs(p.size)
             /\ Sgn(p.size) # Sgn(t.s[OWNER].pos[in.k].size)

DeleverageBearable(t, bankrupt, deleverager) ==
    /\ is_valid(bankrupt.pos) /\ is_valid(deleverager.pos)
    /\ is_valid_risk_change(bankrupt.before, bankrupt.after)
    /\ EnoughCrossCollateral(AvailableOf(t, OWNER, USDC, PERPS, TRUE), bankrupt)
    /\ IsFund(t.s[SUB]) \/
            EnoughCrossCollateral(AvailableOf(t, SUB, USDC, PERPS, TRUE), deleverager)

\* Orders that could only reduce a position that is gone are cancelled.
TiedCancelled(in, s) ==
    IF s.pos.tied = 0 \/ Sgn(s.pos.size) = Sgn(s.was.size) THEN <<>>
    ELSE <<[kind |-> CANCEL_TIED, account |-> in.deleverager, k |-> in.k, size |-> s.pos.tied]>>

DeleveragedAt(t, quote, in) ==
    /\ Abs(quote) <= MAX_DELEVERAGE_QUOTE
    /\ DeleveragerAllowed(t, quote, in)
    /\ \E bankrupt \in {BankruptSide(t, quote, in)}, deleverager \in {DeleveragerSide(t, quote, in)} :
        /\ DeleverageBearable(t, bankrupt, deleverager)
        /\ Commit(apply_perps_trade(t, in.k, bankrupt, deleverager))
        /\ stack' = TiedCancelled(in, deleverager)

InternalDeleverage(in) ==
    /\ Idle
    /\ \E t \in {InMarket(Begin(in.bankrupt, in.deleverager, NoAccount), in.k)} :
       \E r \in {CurrentRisk(t, OWNER, in.k)} :
        /\ DeleverageAllowed(t, r, in)
        /\ DeleveragedAt(t, ZeroQuote(t, r, in), in)
    /\ UNCHANGED <<setup, system, clock, rounds, flow, drift>>

\* One of the tied orders at the top of the stack; the last one takes the
\* instruction with it.  Which order it is, is the matching engine's business.
InternalCancelTied ==
    /\ stack # <<>> /\ Head(stack).kind = CANCEL_TIED
    /\ \E top \in {Head(stack)} : \E t \in {Begin(top.account, NoAccount, NoAccount)} :
        /\ Commit([t EXCEPT !.s[OWNER].orders = @ - 1, !.market[top.k].orders = @ - 1,
                            !.s[OWNER].pos[top.k] = [@ EXCEPT !.orders = @ - 1, !.tied = @ - 1]])
        /\ stack' = IF top.size = 1 THEN Tail(stack) ELSE [stack EXCEPT ![1].size = @ - 1]
    /\ UNCHANGED <<setup, system, clock, rounds, flow, drift>>
=============================================================================
