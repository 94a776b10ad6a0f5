------------------------------ MODULE Markets ------------------------------
(***************************************************************************)
(* What changes the terms of positions rather than their size: leverage    *)
(* and isolated margin, the exit from expired markets, and the             *)
(* administration of markets, assets and the system by layer 1 and by the  *)
(* operator of the insurance funds.                                        *)
(*                                                                         *)
(* Spot markets only fix a pair of assets and their extensions, which the  *)
(* trades of Clearing get as inputs; the markets here are perps markets.   *)
(***************************************************************************)
EXTENDS Clearing

CONSTANTS
    MAX_QUOTE_MULTIPLIER,
    MARGINED_ASSET_LIST_SIZE,
    FUNDING_RATE_TICK, FUNDING_PREMIUM_MULTIPLIER_TICK,
    MAX_COOLDOWN_PERIOD, MAX_LOCKUP_PERIOD

DEFAULT_STRATEGY_INDEX == 0

-----------------------------------------------------------------------------
(* Leverage and isolated margin.                                            *)

is_order_or_position_open(p) == p.size # 0 \/ p.orders # 0

\* in = [account, k, imf, isolated].
LeverageAllowed(t, r, in) ==
    LET a == t.s[OWNER]
        p == a.pos[in.k]
        m == t.market[in.k]
    IN  /\ p.isolated # in.isolated => ~is_order_or_position_open(p)
        /\ ~is_in_liquidation(r)
        /\ m.active
        /\ m.min <= in.imf
        /\ IsPool(a) => ~in.isolated
        /\ ~IsFund(a) /\ m.isolatedOnly => in.isolated

LeverageUpdated(t, in) ==
    [t EXCEPT !.s[OWNER].pos[in.k] =
        [@ EXCEPT !.imf = in.imf, !.isolated = in.isolated, !.set = TRUE]]

\* The requirement that the change is judged by is that of this position alone.
LeverageRisk(r, p, m) == [r EXCEPT !.imr = InitialMargin(p, m, Abs(p.size))]

L2UpdateLeverage(in) ==
    \E t \in {InMarket(Begin(in.account, NoAccount, NoAccount), in.k)} :
    \E r \in {CurrentRisk(t, OWNER, in.k)}, u \in {LeverageUpdated(t, in)} :
        /\ Signed(t, OWNER, "l2_update_leverage")
        /\ LeverageAllowed(t, r, in)
        /\ is_order_or_position_open(t.s[OWNER].pos[in.k]) =>
                is_valid_risk_change(r, LeverageRisk(r, u.s[OWNER].pos[in.k], t.market[in.k]))
        /\ Commit(u)
        /\ UNCHANGED <<setup, system, clock, rounds, stack, flow, drift>>

\* Margin is added from what the account has free, and removed as far as the
\* position has it free.
MarginAvailable(t, in) ==
    IF in.add THEN AvailableOf(t, OWNER, USDC, PERPS, FALSE)
    ELSE get_available_usdc_collateral(CurrentRisk(t, OWNER, in.k))

MarginMoved(t, in) ==
    LET delta == (IF in.add THEN in.amount ELSE -in.amount) * U
    IN  apply_collateral_delta([t EXCEPT !.s[OWNER].pos[in.k].alloc = @ + delta], OWNER, -delta)

\* in = [account, k, add, amount].
L2UpdateMargin(in) ==
    LET t == InMarket(Begin(in.account, NoAccount, NoAccount), in.k)
        p == t.s[OWNER].pos[in.k]
    IN  /\ Signed(t, OWNER, "l2_update_margin")
        /\ t.market[in.k].active /\ p.isolated /\ p.size # 0
        /\ in.amount # 0
        /\ in.amount * U <= MarginAvailable(t, in)
        /\ Commit(MarginMoved(t, in))
        /\ UNCHANGED <<setup, system, clock, rounds, stack, flow, drift>>

-----------------------------------------------------------------------------
(* Markets.                                                                 *)

EmptyMarket ==
    [mark |-> 0, index |-> 0, funding |-> 0, active |-> FALSE, qm |-> 0, default |-> 0, min |-> 0,
     mmf |-> 0, cmf |-> 0, strategy |-> DEFAULT_STRATEGY_INDEX, oi |-> 0, orders |-> 0,
     isolatedDefault |-> FALSE, isolatedOnly |-> FALSE, liquidationFee |-> 0,
     premium |-> 0, interest |-> 0, clampSmall |-> 0, clampBig |-> 0, multiplier |-> 0,
     impactBid |-> 0, impactAsk |-> 0]

\* A market is forgotten when it has expired and nobody is left in it.
Cleared(m) == IF ~m.active /\ m.orders = 0 /\ m.oi = 0 THEN EmptyMarket ELSE m

\* The position is closed at the last mark price; its margin comes back.
Exited(t, k) ==
    LET p == t.s[OWNER].pos[k]
        m == t.market[k]
        value == unrealized_funding(p, m) + U * unrealized_pnl(p, m) + p.alloc
    IN  [apply_collateral_delta(t, OWNER, value)
            EXCEPT !.s[OWNER].pos[k] = EmptyPosition,
                   !.market[k] = Cleared([@ EXCEPT !.oi = @ - Abs(p.size)])]

InternalExitPosition(in) ==
    LET t == InMarket(Begin(in.account, NoAccount, NoAccount), in.k)
    IN  /\ Idle
        /\ ~t.market[in.k].active
        /\ Commit(Exited(t, in.k))
        /\ UNCHANGED <<setup, system, clock, rounds, stack, flow, drift>>

Configured(m, config) ==
    [m EXCEPT !.default = config.default, !.min = config.min, !.mmf = config.mmf,
              !.cmf = config.cmf, !.liquidationFee = config.liquidationFee,
              !.interest = config.interest, !.clampSmall = config.clampSmall,
              !.clampBig = config.clampBig]

MarketConfigValid(config) ==
    /\ 0 < config.cmf /\ config.cmf <= config.mmf
    /\ config.mmf <= config.min /\ config.min <= config.default
    /\ config.default <= MARGIN_TICK
    /\ config.liquidationFee <= FEE_TICK
    /\ {config.interest, config.clampSmall, config.clampBig} \subseteq 0 .. FUNDING_RATE_TICK

\* in = [k, qm, config].  An index can be used again once its market is empty.
L1CreateMarket(in) ==
    LET m == market[in.k]
        success == ~m.active /\ m.orders = 0 /\ m.oi = 0 /\ asset[USDC].exists
    IN  /\ Idle
        /\ MarketConfigValid(in.config)
        /\ in.qm \in 1 .. MAX_QUOTE_MULTIPLIER
        /\ market' = IF ~success THEN market
                     ELSE [market EXCEPT ![in.k] =
                            Configured([EmptyMarket EXCEPT !.active = TRUE, !.qm = in.qm,
                                            !.multiplier = FUNDING_PREMIUM_MULTIPLIER_TICK],
                                       in.config)]
        /\ UNCHANGED <<setup, acct, asset, system, clock, rounds, stack, flow, drift>>

\* in = [k, active, config].
L1UpdateMarket(in) ==
    /\ Idle
    /\ MarketConfigValid(in.config)
    /\ market' = IF ~market[in.k].active THEN market
                 ELSE [market EXCEPT ![in.k] =
                        Cleared([Configured(@, in.config) EXCEPT !.active = in.active])]
    /\ UNCHANGED <<setup, acct, asset, system, clock, rounds, stack, flow, drift>>

\* in = [account, k, strategy, isolatedOnly, isolatedDefault, multiplier].
L2UpdateMarketConfig(in) ==
    LET t == Begin(in.account, NoAccount, NoAccount)
        m == t.market[in.k]
    IN  /\ Signed(t, OWNER, "l2_update_market_config")
        /\ in.account = INSURANCE_FUND_OPERATOR_ACCOUNT_INDEX
        /\ m.active
        /\ in.strategy # INSURANCE_FUND_SPOT_STRATEGY_INDEX
        /\ in.isolatedOnly /\ ~m.isolatedOnly => m.oi = 0 /\ m.orders = 0
        /\ in.isolatedOnly => in.isolatedDefault
        /\ in.multiplier \in 1 .. FUNDING_PREMIUM_MULTIPLIER_TICK
        /\ Commit([t EXCEPT !.market[in.k] =
                    [@ EXCEPT !.strategy = in.strategy, !.isolatedOnly = in.isolatedOnly,
                              !.isolatedDefault = in.isolatedDefault, !.multiplier = in.multiplier]])
        /\ UNCHANGED <<setup, system, clock, rounds, stack, flow, drift>>

-----------------------------------------------------------------------------
(* Assets: config = [minTransfer, minWithdrawal, marginEnabled, price,      *)
(* divider, ltv, lt, factor, liquidationFee].                               *)

AssetConfigValid(x, config) ==
    /\ config.minTransfer # 0 /\ config.minWithdrawal # 0
    /\ config.ltv <= config.lt /\ config.lt <= config.factor
    /\ config.factor <= ASSET_MARGIN_TICK
    /\ (FEE_TICK \div ASSET_MARGIN_TICK) * config.factor + config.liquidationFee <= FEE_TICK
    /\ config.marginEnabled => config.ltv # 0
    /\ ~config.marginEnabled => config.factor = 0 /\ config.liquidationFee = 0
    /\ x = USDC => config.marginEnabled /\ config.ltv = ASSET_MARGIN_TICK
                   /\ config.liquidationFee = 0

MarginIndexFree == Cardinality({x \in DOMAIN asset : asset[x].marginEnabled})
                        < MARGINED_ASSET_LIST_SIZE

\* The margined asset is written as a new one: without caps and supply.
Margined(a, config) ==
    [a EXCEPT !.price = config.price, !.divider = config.divider, !.ltv = config.ltv,
              !.lt = config.lt, !.factor = config.factor, !.liquidationFee = config.liquidationFee,
              !.globalCap = 0, !.userCap = 0, !.supplied = 0]

AssetUpdated(a, config) ==
    LET b == [a EXCEPT !.minTransfer = config.minTransfer, !.minWithdrawal = config.minWithdrawal,
                       !.marginEnabled = config.marginEnabled]
    IN  IF config.marginEnabled THEN Margined(b, config) ELSE b

\* in = [x, em, config].
L1RegisterAsset(in) ==
    LET success == ~asset[in.x].exists /\ (in.config.marginEnabled => MarginIndexFree)
    IN  /\ Idle
        /\ AssetConfigValid(in.x, in.config) /\ in.em # 0
        /\ asset' = IF ~success THEN asset
                    ELSE [asset EXCEPT ![in.x] =
                            AssetUpdated([@ EXCEPT !.exists = TRUE, !.em = in.em], in.config)]
        /\ UNCHANGED <<setup, acct, market, system, clock, rounds, stack, flow, drift>>

\* in = [x, config].  Margin can be enabled later but never disabled.
L1UpdateAsset(in) ==
    LET a == asset[in.x]
        enabling == in.config.marginEnabled /\ ~a.marginEnabled
        success == /\ a.exists
                   /\ a.marginEnabled => in.config.marginEnabled
                   /\ enabling => MarginIndexFree
    IN  /\ Idle
        /\ AssetConfigValid(in.x, in.config)
        /\ asset' = IF ~success THEN asset ELSE [asset EXCEPT ![in.x] = AssetUpdated(@, in.config)]
        /\ UNCHANGED <<setup, acct, market, system, clock, rounds, stack, flow, drift>>

\* in = [account, x, globalCap, userCap].
L2UpdateAssetConfig(in) ==
    LET t == Begin(in.account, NoAccount, NoAccount)
        a == t.asset[in.x]
    IN  /\ Signed(t, OWNER, "l2_update_asset_config")
        /\ in.account = INSURANCE_FUND_OPERATOR_ACCOUNT_INDEX
        /\ a.exists /\ a.marginEnabled /\ in.x # USDC
        /\ Commit([t EXCEPT !.asset[in.x] = [@ EXCEPT !.globalCap = in.globalCap * a.em,
                                                      !.userCap = in.userCap * a.em]])
        /\ UNCHANGED <<setup, system, clock, rounds, stack, flow, drift>>

-----------------------------------------------------------------------------
(* The system: in = [llp, staking, cooldown, lockup].                       *)

ActivePool(j, type) ==
    j \in DOMAIN acct /\ acct[j].type = type /\ acct[j].pool.status = ACTIVE

L1SetSystemConfig(in) ==
    /\ Idle
    /\ in.cooldown <= MAX_COOLDOWN_PERIOD /\ in.lockup <= MAX_LOCKUP_PERIOD
    /\ \A t \in DOMAIN in.cap : in.cap[t] <= FEE_TICK
    /\ system' = IF ActivePool(in.llp, INSURANCE_FUND) /\ ActivePool(in.staking, STAKING_POOL)
                 THEN in ELSE system
    /\ UNCHANGED <<setup, acct, asset, market, clock, rounds, stack, flow, drift>>
=============================================================================
