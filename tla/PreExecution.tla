--------------------------- MODULE PreExecution ---------------------------
(***************************************************************************)
(* The start of a block: funding rounds once an hour, premium samples once *)
(* a minute and oracle prices.  Every block carries its time; whether a    *)
(* funding round is due follows from it, whether the next minute is        *)
(* sampled is the sequencer's choice until that minute is over, and the    *)
(* prices are the oracle's.  Nothing of this happens while an instruction  *)
(* is on the register stack, so a block in which something is due must     *)
(* wait until the stack is empty.                                          *)
(***************************************************************************)
EXTENDS Markets

CONSTANTS
    MINUTE_IN_MS, HOUR_IN_MS,
    MAX_PREMIUM_SAMPLE_COUNT,
    MARKET_OPEN_INTEREST_NOTIONAL

ASSUME TimeAssumption ==
    /\ {MINUTE_IN_MS, HOUR_IN_MS, MAX_PREMIUM_SAMPLE_COUNT} \subseteq Nat \ {0}
    /\ HOUR_IN_MS = MAX_PREMIUM_SAMPLE_COUNT * MINUTE_IN_MS

FUNDING_HOURS == 8      \* a rate is for eight hours and paid every hour

Clamp(n, bound) == Sgn(n) * Least(Abs(n), bound)

TruncDiv(n, d) == Sgn(n) * DivOrZero(Abs(n), d)

round_unix_timestamp_to_next_hour(time) == time + HOUR_IN_MS - (time % HOUR_IN_MS)

round_unix_timestamp_to_previous_minute(time) == time - (time % MINUTE_IN_MS)

-----------------------------------------------------------------------------
(* What is due.                                                             *)

NeedFunding(created) == created >= round_unix_timestamp_to_next_hour(rounds.funding)

NextPremium == round_unix_timestamp_to_previous_minute(rounds.premium) + MINUTE_IN_MS

\* A minute that was not sampled is made up for by the first block after it.
NeedPremium(created) == created >= NextPremium + MINUTE_IN_MS

MayPremium(created) == created >= NextPremium

-----------------------------------------------------------------------------
(* Funding.                                                                 *)

AveragePremium(m) ==
    TruncDiv(TruncDiv(m.premium, MAX_PREMIUM_SAMPLE_COUNT) * m.multiplier,
             FUNDING_PREMIUM_MULTIPLIER_TICK)

FundingRate(m) ==
    Clamp(AveragePremium(m) + Clamp(m.interest - AveragePremium(m), m.clampSmall), m.clampBig)

FundingApplied(m) ==
    [m EXCEPT !.funding = @ + TruncDiv(FundingRate(m), FUNDING_HOURS) * m.index, !.premium = 0]

-----------------------------------------------------------------------------
(* Oracle prices and premiums.                                              *)

MaxMarkPrice(m) ==
    IF m.oi = 0 THEN MAX_ORDER_PRICE
    ELSE Least((MARKET_OPEN_INTEREST_NOTIONAL \div m.oi) \div m.qm, MAX_ORDER_PRICE)

PriceAllowed(m, price) == price.mark \in 1 .. MaxMarkPrice(m) /\ price.index # 0

OraclePriced(m, price) == [m EXCEPT !.mark = price.mark, !.index = price.index]

\* An impact price of zero stands for none: the index price then.
Premium(m) ==
    LET or(price) == IF price = 0 THEN m.index ELSE price
    IN  TruncDiv((Pos(or(m.impactBid) - m.index) - Pos(m.index - or(m.impactAsk)))
                    * FUNDING_RATE_TICK, m.index)

PremiumSampled(m) == [m EXCEPT !.premium = @ + Premium(m)]

-----------------------------------------------------------------------------
(* The start of a block.                                                    *)

\* Funding uses the index price before the update, the premium the one after.
MarketStarted(m, in, funding, k) ==
    LET funded == IF funding THEN FundingApplied(m) ELSE m
        priced == IF in.oracle THEN OraclePriced(funded, in.price[k]) ELSE funded
    IN  IF ~m.active THEN m ELSE IF in.premium THEN PremiumSampled(priced) ELSE priced

RoundsStarted(in, created, funding) ==
    [rounds EXCEPT !.funding = IF funding THEN created ELSE @,
                   !.premium = IF in.premium THEN created ELSE @,
                   !.oracle = IF in.oracle THEN created ELSE @,
                   !.samples = (IF funding THEN 0 ELSE @) + (IF in.premium THEN 1 ELSE 0)]

\* in = [dt, oracle, premium, price, assetPrice]: the block comes dt after the
\* one before.
BlockPreExecution(in) ==
    LET created == clock + in.dt
        funding == NeedFunding(created)
    IN  /\ created <= setup.maxTime
        /\ NeedPremium(created) => in.premium
        /\ in.premium => MayPremium(created)
        /\ funding \/ in.oracle \/ in.premium => Idle
        /\ in.oracle => \A k \in DOMAIN market :
                            market[k].active => PriceAllowed(market[k], in.price[k])
        /\ clock' = created
        /\ rounds' = RoundsStarted(in, created, funding)
        /\ market' = [k \in DOMAIN market |-> MarketStarted(market[k], in, funding, k)]
        /\ asset' = IF ~in.oracle THEN asset
                    ELSE [x \in DOMAIN asset |-> [asset[x] EXCEPT !.price = in.assetPrice[x]]]
        /\ UNCHANGED <<setup, acct, system, stack, flow, drift>>

\* in = [k, bid, ask]: after a transaction changed the book, the prices at which
\* the impact amount would be filled; zero if the book does not hold it.
UpdateImpactPrices(in) ==
    /\ market[in.k].active
    /\ market' = [market EXCEPT ![in.k] = [@ EXCEPT !.impactBid = in.bid, !.impactAsk = in.ask]]
    /\ UNCHANGED <<setup, acct, asset, system, clock, rounds, stack, flow, drift>>
=============================================================================
