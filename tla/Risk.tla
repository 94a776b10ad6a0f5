------------------------------- MODULE Risk -------------------------------
(***************************************************************************)
(* Margin arithmetic: what an account is worth, what its positions         *)
(* require, what of it is free, and at which price a position leaves the   *)
(* health of its account unchanged.  Everything here is an operator on     *)
(* records; the actions that use them are in Ledger and Clearing.          *)
(*                                                                         *)
(*  position  [size, entry, last, alloc, isolated, imf, set, orders, tied] *)
(*  market    [mark, funding, active, qm, default, min, mmf, cmf, strategy]*)
(*  asset     [price, divider, ltv, lt, factor, globalCap, userCap]        *)
(*  risk      [usdc, withFunding, upv, tpv, tav, talt, imr, mmr, cmr]      *)
(***************************************************************************)
EXTENDS Integers, FiniteSets, FiniteSetsExt

CONSTANTS
    USDC,                           \* the universal asset
    USDC_TO_COLLATERAL_MULTIPLIER,  \* units of collateral in one USDC
    MARGIN_TICK,                    \* a margin fraction of 100 %
    MARGIN_FRACTION_MULTIPLIER,     \* collateral units per USDC and tick
    ASSET_MARGIN_TICK,              \* a loan to value of 100 %
    MAX_ORDER_PRICE

ASSUME MultiplierAssumption ==
    /\ MARGIN_TICK \in Nat \ {0} /\ MARGIN_FRACTION_MULTIPLIER \in Nat \ {0}
    /\ USDC_TO_COLLATERAL_MULTIPLIER = MARGIN_TICK * MARGIN_FRACTION_MULTIPLIER

Abs(n) == IF n < 0 THEN -n ELSE n

Sgn(n) == IF n > 0 THEN 1 ELSE IF n < 0 THEN -1 ELSE 0

Pos(n) == IF n > 0 THEN n ELSE 0

Least(a, b) == IF a <= b THEN a ELSE b

CeilDiv(a, b) == (a + b - 1) \div b

EmptyPosition ==
    [size |-> 0, entry |-> 0, last |-> 0, alloc |-> 0, isolated |-> FALSE, imf |-> 0,
     set |-> FALSE, orders |-> 0, tied |-> 0]

-----------------------------------------------------------------------------
(* One position.                                                            *)

base_notional(p, m) == m.qm * m.mark * Abs(p.size)

\* get_position_unrealized_pnl, in USDC.
unrealized_pnl(p, m) ==
    IF p.size > 0 THEN base_notional(p, m) - p.entry ELSE p.entry - base_notional(p, m)

\* In units of collateral: what the position earned since it was last touched.
unrealized_funding(p, m) == p.size * m.qm * (p.last - m.funding)

get_initial_margin_fraction(p, m) ==
    LET chosen == IF p.imf = 0 THEN m.default ELSE p.imf
    IN  IF chosen < m.min THEN m.min ELSE chosen

\* A position in an expired market requires nothing.
margin_requirement(p, m, fraction) ==
    IF m.active THEN base_notional(p, m) * fraction * MARGIN_FRACTION_MULTIPLIER ELSE 0

initial_margin(p, m) == margin_requirement(p, m, get_initial_margin_fraction(p, m))

maintenance_margin(p, m) == margin_requirement(p, m, m.mmf)

close_out_margin(p, m) == margin_requirement(p, m, m.cmf)

\* USDC that the public data show for a position.
aggregated_usdc(p) ==
    (p.alloc \div USDC_TO_COLLATERAL_MULTIPLIER) - Sgn(p.size) * p.entry

-----------------------------------------------------------------------------
(* Value of the assets lent as margin.                                      *)

portfolio_value(a, balance) == (a.price * balance) \div a.divider

loan_value(a, balance) ==
    (a.price * balance * a.ltv) \div (a.divider * ASSET_MARGIN_TICK)

threshold_value(a, balance) ==
    (a.price * balance * a.lt) \div (a.divider * ASSET_MARGIN_TICK)

\* get_base_total_asset_values.  An insurance fund holds its other assets as
\* spot: for it they are not to count as margin.
base_total_asset_values(margin, assets, isInsuranceFund) ==
    LET total(V(_, _)) ==
            MapThenSumSet(LAMBDA x : V(assets[x], margin[x]), DOMAIN assets \ {USDC})
    IN  [tpv  |-> total(portfolio_value),
         tav  |-> IF isInsuranceFund THEN 0 ELSE total(loan_value),
         talt |-> IF isInsuranceFund THEN 0 ELSE total(threshold_value)]

-----------------------------------------------------------------------------
(* Risk parameters of an account, given as                                  *)
(*   view = [usdc, margin, pos, isInsuranceFund]                            *)
(* and the markets whose positions are counted.                             *)

\* held are the values of the assets, pnl is in USDC.
RiskParameters(usdc, funding, pnl, held, imr, mmr, cmr) ==
    LET upv == usdc + funding + USDC_TO_COLLATERAL_MULTIPLIER * pnl
    IN  [usdc |-> usdc, withFunding |-> usdc + funding, upv |-> upv,
         tpv |-> upv + held.tpv, tav |-> upv + held.tav, talt |-> upv + held.talt,
         imr |-> imr, mmr |-> mmr, cmr |-> cmr]

new_cross(view, markets, counted, assets) ==
    LET total(F(_, _)) == MapThenSumSet(LAMBDA k : F(view.pos[k], markets[k]),
                                        {k \in counted : ~view.pos[k].isolated})
    IN  RiskParameters(view.usdc, total(unrealized_funding), total(unrealized_pnl),
                       base_total_asset_values(view.margin, assets, view.isInsuranceFund),
                       total(initial_margin), total(maintenance_margin), total(close_out_margin))

\* Only the margin allocated to the position stands for an isolated one.
new_isolated(p, m) ==
    RiskParameters(p.alloc, unrealized_funding(p, m), unrealized_pnl(p, m),
                   [tpv |-> 0, tav |-> 0, talt |-> 0],
                   initial_margin(p, m), maintenance_margin(p, m), close_out_margin(p, m))

HEALTHY == 0
PARTIAL_LIQUIDATION == 2
FULL_LIQUIDATION == 3
BANKRUPTCY == 4

get_health(r) ==
    IF r.talt < 0 THEN BANKRUPTCY
    ELSE (IF Abs(r.tav) < r.imr THEN 1 ELSE 0)
            + (IF r.talt < r.mmr THEN 1 ELSE 0)
            + (IF r.talt < r.cmr THEN 1 ELSE 0)

is_healthy(r) == r.tav >= 0 /\ r.tav >= r.imr

is_health_improved(r, new) == r.talt * new.mmr <= new.talt * r.mmr

is_valid_risk_change(r, new) ==
    /\ is_healthy(r) \/ is_health_improved(r, new)
    /\ is_healthy(r) => is_healthy(new)

is_in_liquidation(r) == r.talt < 0 \/ r.talt < r.mmr

\* USDC flows into or out of an account with risk r.
AddCollateral(r, delta) ==
    [r EXCEPT !.usdc = @ + delta, !.withFunding = @ + delta, !.upv = @ + delta,
              !.tpv = @ + delta, !.tav = @ + delta, !.talt = @ + delta]

update_for_spot_trade(r, x, a, old, new) ==
    IF x = USDC THEN AddCollateral(r, new - old)
    ELSE [r EXCEPT !.tpv  = @ + portfolio_value(a, new) - portfolio_value(a, old),
                   !.tav  = @ + loan_value(a, new) - loan_value(a, old),
                   !.talt = @ + threshold_value(a, new) - threshold_value(a, old)]

AddProfit(r, gain) ==
    [r EXCEPT !.upv = @ + gain, !.tpv = @ + gain, !.tav = @ + gain, !.talt = @ + gain]

AddRequirements(r, old, new, m) ==
    LET notional(p) == base_notional(p, m) * MARGIN_FRACTION_MULTIPLIER
    IN  [r EXCEPT !.imr = @ + notional(new) * get_initial_margin_fraction(new, m)
                            - notional(old) * get_initial_margin_fraction(old, m),
                  !.mmr = @ + (notional(new) - notional(old)) * m.mmf,
                  !.cmr = @ + (notional(new) - notional(old)) * m.cmf]

update_for_perps_trade(r, delta, old, new, m) ==
    AddRequirements(
        AddProfit(AddCollateral(r, delta),
                  USDC_TO_COLLATERAL_MULTIPLIER * (unrealized_pnl(new, m) - unrealized_pnl(old, m))),
        old, new, m)

-----------------------------------------------------------------------------
(* What is free.                                                            *)

get_available_usdc_collateral(r) ==
    IF is_healthy(r) /\ r.withFunding >= 0 THEN Least(r.tav - r.imr, r.withFunding) ELSE 0

\* Of an asset lent as margin, the part whose loan value is not needed.
get_available_margin_balance(r, x, a, balance) ==
    IF x = USDC THEN IF a.price = 0 THEN 0 ELSE get_available_usdc_collateral(r)
    ELSE IF ~is_healthy(r) \/ a.price = 0 \/ balance < 0 THEN 0
    ELSE Least(((r.tav - r.imr) * a.divider * ASSET_MARGIN_TICK) \div (a.price * a.ltv), balance)

get_available_balance(h) == Pos(h.spot - h.locked)

\* h = [spot, locked, margin, used, unified] is what the account holds of x;
\* spotProduct says on which side it is to be taken.
AvailableBalance(spotProduct, h, free, skipOrderMargin) ==
    LET both == free + (IF spotProduct THEN h.spot ELSE 0)
        excess == Pos(h.locked - (IF spotProduct THEN 0 ELSE h.spot))
    IN  IF ~h.unified THEN IF spotProduct THEN get_available_balance(h) ELSE free
        ELSE IF ~h.used THEN get_available_balance(h)
        ELSE IF skipOrderMargin THEN both
        ELSE Pos(both - excess)

get_available_asset_balance(spotProduct, x, h, r, a, skipOrderMargin) ==
    AvailableBalance(spotProduct, h, get_available_margin_balance(r, x, a, h.margin),
                     skipOrderMargin)

-----------------------------------------------------------------------------
(* Zero prices: a trade at them changes neither side of TALT / MMR.         *)

get_asset_zero_price(a, sizeExtension, quoteExtension) ==
    LET price == CeilDiv(sizeExtension * a.price * a.factor,
                         quoteExtension * a.divider * ASSET_MARGIN_TICK)
    IN  IF price > MAX_ORDER_PRICE THEN MAX_ORDER_PRICE
        ELSE IF price = 0 THEN 1 ELSE price

Dividend(value, m, r, sign) == value * r.mmr * MARGIN_TICK - value * m.mmf * r.talt * sign

ZeroPrice(long, dividend, divisor) ==
    IF dividend <= 0 THEN 1
    ELSE Least(IF long THEN CeilDiv(dividend, divisor) ELSE dividend \div divisor, MAX_ORDER_PRICE)

get_position_zero_price(p, m, r) ==
    ZeroPrice(p.size > 0, Dividend(m.mark, m, r, Sgn(p.size)), r.mmr * MARGIN_TICK)

\* Rounded in favour of the account that loses its position.
ZeroQuoteOf(long, dividend, divisor) ==
    IF (dividend > 0) = long THEN Sgn(dividend) * CeilDiv(Abs(dividend), divisor)
    ELSE Sgn(dividend) * (Abs(dividend) \div divisor)

get_position_zero_quote(p, m, r, size) ==
    ZeroQuoteOf(p.size > 0, Dividend(m.mark * m.qm * size, m, r, Sgn(p.size)), r.mmr * MARGIN_TICK)
=============================================================================
