------------------------------- MODULE Pools -------------------------------
(***************************************************************************)
(* Shares of public pools, insurance funds and staking pools.  A pool is   *)
(* an account with                                                         *)
(*   pool    [status, fee, rate, total, operator]                          *)
(* where operator counts the shares of the account's master; everyone else *)
(* keeps its shares in a list of                                           *)
(*   share   [pool, amount, principal, entry]                              *)
(* sorted by pool.                                                         *)
(***************************************************************************)
EXTENDS Balances

CONSTANTS
    INITIAL_POOL_SHARE_VALUE,       \* price of a share of an empty pool
    SHARE_TICK,                     \* a minimal operator share of 100 %
    FEE_TICK,                       \* an operator fee of 100 %
    MAX_POOL_SHARES,
    SHARES_LIST_SIZE,
    LIT_TO_MINT_SHARES_MULTIPLIER,  \* USDC that one LIT staked allows to mint
    USDC_TO_LIT_CONVERSION_RATE

ACTIVE == "active"
FROZEN == "frozen"

NoPool == [status |-> ACTIVE, fee |-> 0, rate |-> 0, total |-> 0, operator |-> 0]

NewPool(fee, rate, shares) ==
    [status |-> ACTIVE, fee |-> fee, rate |-> rate, total |-> shares, operator |-> shares]

IsPool(a) == a.type \in {PUBLIC_POOL, INSURANCE_FUND}

\* div_biguint: nothing divided by zero is left.
DivOrZero(a, b) == IF b = 0 THEN 0 ELSE a \div b

-----------------------------------------------------------------------------
(* The list of shares.                                                      *)

get_public_pool_share(a, pool) ==
    LET found == {k \in DOMAIN a.shares : a.shares[k].pool = pool}
    IN  IF found = {} THEN [pool |-> pool, amount |-> 0, principal |-> 0, entry |-> 0]
        ELSE a.shares[CHOOSE k \in found : TRUE]

Others(a, share) == SelectSeq(a.shares, LAMBDA e : e.pool # share.pool)

PoolShareFits(a, share) == share.amount = 0 \/ Len(Others(a, share)) < SHARES_LIST_SIZE

apply_pool_share_delta(a, share) ==
    LET others == Others(a, share)
    IN  [a EXCEPT !.shares =
            IF share.amount = 0 THEN others
            ELSE SelectSeq(others, LAMBDA e : e.pool < share.pool) \o <<share>>
                    \o SelectSeq(others, LAMBDA e : e.pool > share.pool)]

-----------------------------------------------------------------------------
(* What shares are worth, in USDC or LIT.                                   *)

get_shares_usdc_value_for_public_pool(r, pool, shares) ==
    IF pool.total = 0 THEN shares * INITIAL_POOL_SHARE_VALUE
    ELSE (shares * Abs(r.tpv)) \div (pool.total * USDC_TO_COLLATERAL_MULTIPLIER)

get_shares_asset_value_for_staking_pool(total, balance, em, shares) ==
    IF total = 0 THEN shares * INITIAL_POOL_SHARE_VALUE
    ELSE (shares * balance) \div (total * em)

get_available_shares_to_burn_for_public_pool(strategyRisk, crossRisk, pool) ==
    DivOrZero(get_available_usdc_collateral(strategyRisk) * pool.total, Abs(crossRisk.tpv))

get_available_shares_to_burn_for_staking_pool(total, b) ==
    DivOrZero(get_available_balance(b) * total, b.spot)

OperatorRateHolds(total, operator, rate) == total * rate <= operator * SHARE_TICK

\* The LIT that account a has staked, through its shares of the staking pool.
StakedLit(a, pool, stakingIndex, balance, em) ==
    get_shares_asset_value_for_staking_pool(
        pool.total, balance, em, get_public_pool_share(a, stakingIndex).amount)

PrincipalBacked(principal, lit) ==
    principal * USDC_TO_LIT_CONVERSION_RATE <= LIT_TO_MINT_SHARES_MULTIPLIER * lit

-----------------------------------------------------------------------------
(* The owner mints or burns shares of the pool in the second slot.          *)

IsOperator(t) == t.idx[OWNER] = t.s[SUB].master

\* New shares go to the operator's count or to the list of the owner, whose
\* cooldown starts again.
ShareAdded(t, shares, principal, entry) ==
    LET share == get_public_pool_share(t.s[OWNER], t.idx[SUB])
        added == [share EXCEPT !.amount = @ + shares, !.principal = @ + principal, !.entry = entry]
        u == [t EXCEPT !.s[SUB].pool.total = @ + shares]
    IN  IF IsOperator(t) THEN [u EXCEPT !.s[SUB].pool.operator = @ + shares]
        ELSE [u EXCEPT !.s[OWNER] = apply_pool_share_delta(@, added)]

Owned(t) ==
    IF IsOperator(t) THEN t.s[SUB].pool.operator
    ELSE get_public_pool_share(t.s[OWNER], t.idx[SUB]).amount

\* What was paid for a part of the shares owned.
PaidFor(t, shares) ==
    DivOrZero(get_public_pool_share(t.s[OWNER], t.idx[SUB]).principal * shares, Owned(t))

\* Of a profit the operator takes its fee in shares; r is the pool's BurnRisk.
ShareOfProfit(r, pool, profit) ==
    IF profit <= 0 THEN 0
    ELSE DivOrZero(profit * pool.fee * pool.total * USDC_TO_COLLATERAL_MULTIPLIER,
                   FEE_TICK * Abs(r.tav))

OperatorFeeShare(t, r, shares) ==
    IF IsOperator(t) THEN 0
    ELSE ShareOfProfit(r, t.s[SUB].pool,
            get_shares_usdc_value_for_public_pool(r, t.s[SUB].pool, shares) - PaidFor(t, shares))

\* CrossRisk of the pool is that of the strategy that pays.
BurnAllowed(t, r, shares) ==
    LET pool == t.s[SUB].pool
    IN  /\ IsPool(t.s[SUB])
        /\ ~is_in_liquidation(r)
        /\ shares <= Owned(t)
        /\ shares <= get_available_shares_to_burn_for_public_pool(CrossRisk(t, SUB), r, pool)
        /\ IsOperator(t) /\ pool.status # FROZEN =>
                OperatorRateHolds(pool.total - shares, Owned(t) - shares, pool.rate)

\* Mutant: the operator's fee shares are burned as well as handed over.
SharesBurned_FeeToo(t, shares, fee) ==
    LET share == get_public_pool_share(t.s[OWNER], t.idx[SUB])
        left == [share EXCEPT !.amount = @ - shares, !.principal = @ - PaidFor(t, shares)]
        u == [t EXCEPT !.s[SUB].pool.total = @ - shares,
                       !.s[SUB].pool.operator = @ + fee - IF IsOperator(t) THEN shares ELSE 0]
    IN  IF IsOperator(t) THEN u
        ELSE [u EXCEPT !.s[OWNER] = apply_pool_share_delta(@, left)]

\* shares leave the owner; fee of them become the operator's and the rest is
\* burned.
SharesBurned(t, shares, fee) ==
    LET share == get_public_pool_share(t.s[OWNER], t.idx[SUB])
        left == [share EXCEPT !.amount = @ - shares, !.principal = @ - PaidFor(t, shares)]
        u == [t EXCEPT !.s[SUB].pool.total = @ - (shares - fee),
                       !.s[SUB].pool.operator = @ + fee - IF IsOperator(t) THEN shares ELSE 0]
    IN  IF IsOperator(t) THEN u
        ELSE [u EXCEPT !.s[OWNER] = apply_pool_share_delta(@, left)]

PaidOut(t, value) == apply_collateral_delta(apply_collateral_delta(t, OWNER, value), SUB, -value)

BurnSharesWithFee(t, r, shares, fee) ==
    PaidOut(SharesBurned(t, shares, fee),
            get_shares_usdc_value_for_public_pool(r, t.s[SUB].pool, shares - fee)
                * USDC_TO_COLLATERAL_MULTIPLIER)

BurnShares(t, r, shares) == BurnSharesWithFee(t, r, shares, OperatorFeeShare(t, r, shares))
=============================================================================
