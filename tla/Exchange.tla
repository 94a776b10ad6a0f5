----------------------------- MODULE Exchange -----------------------------
(***************************************************************************)
(* The exchange without its order books: every transaction that moves      *)
(* value or changes its terms, in any order, with the fee transfers and    *)
(* liquidation orders of the register stack in between, and what must hold *)
(* whatever the order.                                                     *)
(***************************************************************************)
EXTENDS PreExecution, Authorisation

\* Bound: a behaviour has as many steps as its setup says.
Counted ==
    /\ steps < setup.maxSteps
    /\ steps' = steps + 1

Step == Counted /\ UNCHANGED authVars

Transfers ==
    \/ \E in \in Inputs.transfer : Step /\ L2Transfer(in)
    \/ \E in \in Inputs.strategyTransfer : Step /\ L2StrategyTransfer(in)
    \/ \E in \in Inputs.deposit : Step /\ L1Deposit(in)
    \/ \E in \in Inputs.l1Withdraw : Step /\ L1Withdraw(in)
    \/ \E in \in Inputs.withdraw : Step /\ L2Withdraw(in)
    \/ Step /\ InternalTransfer

Accounts ==
    \/ \E in \in Inputs.subAccount : Step /\ L2CreateSubAccount(in)
    \/ \E j \in Inputs.accountConfig : Step /\ L2UpdateAccountConfig(j)
    \/ \E in \in Inputs.accountAsset : Step /\ L2UpdateAccountAssetConfig(in)

PoolTransactions ==
    \/ \E in \in Inputs.createPool : Step /\ L2CreatePublicPool(in)
    \/ \E in \in Inputs.updatePool : Step /\ L2UpdatePublicPool(in)
    \/ \E in \in Inputs.createStaking : Step /\ L2CreateStakingPool(in)
    \/ \E in \in Inputs.mint : Step /\ L2MintShares(in)
    \/ \E in \in Inputs.burn : Step /\ L2BurnShares(in)
    \/ \E in \in Inputs.l1Burn : Step /\ L1BurnShares(in)
    \/ \E in \in Inputs.forceBurn : Step /\ L2ForceBurnShares(in)
    \/ \E in \in Inputs.stake : Step /\ L2StakeAssets(in)
    \/ \E in \in Inputs.unstake : Step /\ L2UnstakeAssets(in)
    \/ \E j \in Inputs.unlock : Step /\ InternalPendingUnlock(j)

Trades ==
    \/ \E in \in Inputs.perps : Step /\ PerpsTrade(in)
    \/ \E in \in Inputs.spot : Step /\ SpotTrade(in)
    \/ \E in \in Inputs.liquidate : Step /\ InternalLiquidatePosition(in)
    \/ \E in \in Inputs.liquidateSpot : Step /\ InternalLiquidateSpot(in)
    \/ \E in \in Inputs.perps : Step /\ LiquidationTrade(in)
    \/ \E in \in Inputs.spot : Step /\ SpotLiquidationTrade(in)
    \/ Step /\ LiquidationEnds
    \/ \E in \in Inputs.deleverage : Step /\ InternalDeleverage(in)
    \/ Step /\ InternalCancelTied

Terms ==
    \/ \E in \in Inputs.leverage : Step /\ L2UpdateLeverage(in)
    \/ \E in \in Inputs.margin : Step /\ L2UpdateMargin(in)
    \/ \E in \in Inputs.exit : Step /\ InternalExitPosition(in)
    \/ \E in \in Inputs.createMarket : Step /\ L1CreateMarket(in)
    \/ \E in \in Inputs.updateMarket : Step /\ L1UpdateMarket(in)
    \/ \E in \in Inputs.marketConfig : Step /\ L2UpdateMarketConfig(in)
    \/ \E in \in Inputs.registerAsset : Step /\ L1RegisterAsset(in)
    \/ \E in \in Inputs.updateAsset : Step /\ L1UpdateAsset(in)
    \/ \E in \in Inputs.assetConfig : Step /\ L2UpdateAssetConfig(in)
    \/ \E in \in Inputs.systemConfig : Step /\ L1SetSystemConfig(in)

Blocks ==
    \/ \E in \in Inputs.block : Step /\ BlockPreExecution(in)
    \/ \E in \in Inputs.impact : Step /\ UpdateImpactPrices(in)

Authorisations ==
    \/ \E tx \in Inputs.l2 : Counted /\ L2OrderAuthorised(tx)
    \/ \E tx \in Inputs.l2 : Counted /\ L2ChangePubKey(tx)
    \/ \E tx \in Inputs.l2 : Counted /\ L2ApproveIntegrator(tx)
    \/ \E in \in Inputs.l1Key : Counted /\ L1ChangePubKey(in)

Next ==
    \/ Transfers \/ Accounts \/ PoolTransactions \/ Trades \/ Terms \/ Blocks
    \/ Authorisations

allVars == <<vars, authVars>>

Init == LedgerInit /\ AuthInit

Spec == Init /\ [][Next]_allVars

-----------------------------------------------------------------------------
Sum(f(_), S) == MapThenSumSet(f, S)

\* No balance, supply, share count or open interest ever falls below zero, but
\* for USDC lent, which losses may overdraw; a unified account keeps no USDC on
\* the spot side (the unsigned integers of the state; apply_asset_delta,
\* apply_collateral_delta).  And an hour of funding averages at most as many
\* premiums as it has minutes: none is sampled twice (define_block_pre_execution).
TypeOK ==
    /\ rounds.samples \in 0 .. MAX_PREMIUM_SAMPLE_COUNT
    /\ \A j \in DOMAIN acct : \A x \in DOMAIN asset :
        /\ BalancesCover(acct[j].bal[x], x) /\ acct[j].bal[x].locked >= 0
        /\ acct[j].unified => acct[j].bal[USDC].spot = 0
    /\ \A j \in DOMAIN acct :
        /\ acct[j].pool.total >= 0 /\ acct[j].pool.operator >= 0
        /\ \A n \in DOMAIN acct[j].shares :
            acct[j].shares[n].amount > 0 /\ acct[j].shares[n].principal >= 0
    /\ \A x \in DOMAIN asset : asset[x].supplied >= 0
    /\ \A k \in DOMAIN market : market[k].oi >= 0

\* In collateral units: what a position would bring if it were closed.
PositionValue(p, m) == p.alloc + U * unrealized_pnl(p, m) + unrealized_funding(p, m)

Value(accounts, markets, x) ==
    LET balances(j) == accounts[j].bal[x].spot + accounts[j].bal[x].margin
                        + (IF x = LIT THEN get_total_unlock_amount(accounts[j]) ELSE 0)
        positions(j) == Sum(LAMBDA k : PositionValue(accounts[j].pos[k], markets[k]), DOMAIN markets)
    IN  Sum(LAMBDA j : balances(j) + (IF x = USDC THEN positions(j) ELSE 0), DOMAIN accounts)

\* No transaction creates or destroys value, to the last unit: what all accounts
\* hold of an asset, positions at the mark price included, is what they held
\* before plus deposits and minus withdrawals (every apply of transactions/,
\* apply_trade.rs).
ValueConserved ==
    \A x \in DOMAIN asset :
        Value(acct, market, x) = Value(setup.acct, setup.market, x) + flow[x]

\* The supply that the caps are compared with is what accounts have lent, and
\* so an account can always take back what it lent without the supply turning
\* negative (apply_asset_delta, apply_asset_delta_raw).
SupplyIsCounted ==
    \A x \in DOMAIN asset \ {USDC} :
        asset[x].supplied =
            Sum(LAMBDA j : IF IsFund(acct[j]) THEN 0 ELSE acct[j].bal[x].margin, DOMAIN acct)

PoolSharesAddUp ==
    \A j \in DOMAIN acct :
        acct[j].pool.total = acct[j].pool.operator
            + Sum(LAMBDA i : get_public_pool_share(acct[i], j).amount, DOMAIN acct)

StrategiesAddUp ==
    \A j \in DOMAIN acct : IsFund(acct[j]) =>
        acct[j].bal[USDC].margin
            = Sum(LAMBDA k : acct[j].strategies[k], DOMAIN acct[j].strategies)

OpenInterestAddsUp ==
    \A k \in DOMAIN market :
        market[k].oi = Sum(LAMBDA j : Abs(acct[j].pos[k].size), DOMAIN acct)

\* Every total kept beside its parts is their sum: the supply of an asset, the
\* shares of a pool, the collateral of a fund over its strategies, the open
\* interest of a market.
TotalsAddUp == SupplyIsCounted /\ PoolSharesAddUp /\ StrategiesAddUp /\ OpenInterestAddsUp

\* The balances of the public data, kept by deltas, are those of the account:
\* only what a transfer within one account pays or earns in fees is missing
\* (apply_aggregated_balance_deltas, apply_account_deltas).
PublishedIsHeld ==
    \A j \in DOMAIN acct : \A x \in {y \in DOMAIN asset : asset[y].exists} :
        acct[j].bal[x].published + drift[j][x] =
            Held(acct[j], x, asset[x].em) + (IF x = USDC THEN HeldInPositions(acct[j]) ELSE 0)

\* A fee transfer on the register stack can be executed: the fee account has
\* collected at least what the transfers owe to integrators.  Otherwise it
\* would block every transaction after it (internal_transfer.rs).
PendingFeeCanBePaid ==
    stack # <<>> /\ Head(stack).kind = TRANSFER => FeeTransferSucceeds(Head(stack))

-----------------------------------------------------------------------------
WholeTx == [market |-> market, asset |-> asset]

Healthy(a) == is_healthy(AccountRisk(a, WholeTx, FALSE, 0))

SameTerms ==
    /\ \A k \in DOMAIN market : market'[k] =
                [market[k] EXCEPT !.oi = market'[k].oi, !.orders = market'[k].orders]
    /\ \A x \in DOMAIN asset : asset'[x] = [asset[x] EXCEPT !.supplied = asset'[x].supplied]

\* L2UpdateLeverage is judged by one position only.
SameLeverage(a, b) ==
    \A k \in DOMAIN a.pos :
        a.pos[k].size = b.pos[k].size => a.pos[k].imf = b.pos[k].imf

\* Whoever is made to take over a position is not asked.
Deleveraged ==
    \E i \in DOMAIN acct, k \in DOMAIN market :
        /\ acct[i].pos[k].size # acct'[i].pos[k].size
        /\ get_health(IF acct[i].pos[k].isolated THEN new_isolated(acct[i].pos[k], market[k])
                      ELSE AccountRisk(acct[i], WholeTx, FALSE, 0))
                \in {FULL_LIQUIDATION, BANKRUPTCY}

\* As long as prices and terms stay, an account above its initial margin stays
\* above it, whoever acts: transfers, withdrawals, mints, trades on either side,
\* liquidations (is_valid_risk_change and get_available_*).  Insurance funds are
\* left out: they are judged by strategy.
HealthyStaysHealthy ==
    [][SameTerms /\ ~Deleveraged => \A j \in DOMAIN acct :
        (/\ ~IsFund(acct[j]) /\ SameLeverage(acct[j], acct'[j])
         /\ Healthy(acct[j])) => Healthy(acct'[j])]_allVars

PoolValue(a, t) == AccountRisk(a, t, FALSE, 0).tpv

\* Minting and burning, also with an operator's fee and by force, never costs
\* the other holders more than the rounding to one USDC (l2_mint_shares.rs,
\* l2_burn_shares.rs, l1_burn_shares.rs, l2_force_burn_shares.rs).
SharesKeepValue ==
    [][\A j \in DOMAIN acct :
        LET total == acct[j].pool.total
            new == acct'[j].pool.total
        IN  IsPool(acct[j]) /\ total # 0 /\ new # 0 /\ total # new =>
                (PoolValue(acct'[j], WholeTx) + U) * total >= PoolValue(acct[j], WholeTx) * new]_allVars

-----------------------------------------------------------------------------
\* The sequencer cannot run a signed message twice, whatever happens to the key
\* in between (skipped nonces, keys replaced, removed and registered again): the
\* nonces an API key has used only grow.  Nor does a skip use them up
\* (TxTypeTargets::verify_l2_tx, L1ChangePubKeyTxTarget).
SignedRunsOnce ==
    \A j \in DOMAIN keys : \A i \in DOMAIN keys[j] :
        LET used == executed[j][i]
        IN  \A m, n \in DOMAIN used :
                /\ m < n => used[m] < used[n]
                /\ used[n] <= MAX_SKIP_NONCE_CAP + n

Live(approval) == ~Expired(approval)

\* An account's slots hold its latest approvals as long as they have not expired,
\* each once: none is lost when another is granted, revoked or expires.
ApprovalsAreGrants ==
    \A j \in DOMAIN keys :
        LET live == {i \in ApprovalSlots : Live(approved[j][i])}
            grants == {w \in DOMAIN granted[j] : Live(granted[j][w])}
        IN  /\ {approved[j][i] : i \in live} = {granted[j][w] : w \in grants}
            /\ Cardinality(live) = Cardinality(grants)

\* What an integrator takes for an order was granted by the account, not revoked
\* since, has not expired, and is within the cap of the day, for every order of
\* approvals, revocations, expiries and caps (TxAttributesTarget::
\* sanitize_and_normalize, L2ApproveIntegratorTxTarget).
FeesAsGranted ==
    [][/\ ApprovalsAreGrants'
       /\ last' # last /\ last'.who # Nobody /\ last'.market # "none" =>
            LET grant == granted[last'.account][last'.who]
            IN  /\ Live(grant)
                /\ last'.fee <= Least(grant.fee[last'.market], system.cap[last'.market])]_allVars
=============================================================================
