---------------------------- MODULE PoolLedger ----------------------------
(***************************************************************************)
(* Transactions on pools: creation, update, minting and burning of shares  *)
(* by layer 2, by layer 1 and by force, staking and unstaking of LIT with  *)
(* its pending unlocks.  The pool is SUB; FEE is the staking pool           *)
(* when shares of the liquidity pool (llp) are minted or burned by force,  *)
(* and the llp when LIT is unstaked.                                       *)
(***************************************************************************)
EXTENDS Ledger

CONSTANTS MAX_INITIAL_TOTAL_SHARES, MIN_INITIAL_TOTAL_STAKING_SHARES

-----------------------------------------------------------------------------
(* Creation and update.                                                     *)

PoolParametersValid(in) == in.fee <= FEE_TICK /\ in.rate <= SHARE_TICK

PoolOpened(t, type, unified, pool) ==
    [t EXCEPT !.s[SUB] = [@ EXCEPT !.type = type, !.unified = unified,
                                   !.master = t.idx[OWNER], !.pool = pool]]

\* The pools of the insurance fund operator are insurance funds, without fee.
L2CreatePublicPool(in) ==
    LET t == Begin(in.account, in.pool, NoAccount)
        isFund == in.account = INSURANCE_FUND_OPERATOR_ACCOUNT_INDEX
        value == in.shares * INITIAL_POOL_SHARE_VALUE * USDC_TO_COLLATERAL_MULTIPLIER
        opened == PoolOpened(t, IF isFund THEN INSURANCE_FUND ELSE PUBLIC_POOL, isFund,
                             NewPool(in.fee, in.rate, in.shares))
    IN  /\ Signed(t, OWNER, "l2_create_public_pool")
        /\ PoolParametersValid(in)
        /\ in.shares \in 1 .. MAX_INITIAL_TOTAL_SHARES
        /\ in.account <= MAX_MASTER_ACCOUNT_INDEX /\ IsSubIndex(t)
        /\ isFund => in.fee = 0 /\ in.rate = 0
        /\ value <= AvailableOf(t, OWNER, USDC, PERPS, FALSE)
        /\ Commit(apply_collateral_delta(apply_collateral_delta(opened, SUB, value), OWNER, -value))
        /\ UNCHANGED <<setup, system, clock, rounds, stack, flow, drift>>

\* Freezing looks at the pool's requirement, which for a fund is that of the
\* default strategy, and at its orders.
MayFreeze(t) ==
    /\ is_healthy(CrossRisk(t, SUB))
    /\ CrossRisk(t, SUB).imr = 0
    /\ t.s[SUB].orders = 0

L2UpdatePublicPool(in) ==
    LET t == Begin(in.account, in.pool, NoAccount)
        pool == t.s[SUB].pool
    IN  /\ Signed(t, OWNER, "l2_update_public_pool")
        /\ IsPool(t.s[SUB]) /\ IsOperator(t)
        /\ pool.status = ACTIVE
        /\ in.fee <= pool.fee /\ in.rate <= SHARE_TICK
        /\ IsFund(t.s[SUB]) => in.fee = 0 /\ in.rate = 0
        /\ in.status = FROZEN => MayFreeze(t)
        /\ OperatorRateHolds(pool.total, pool.operator, in.rate)
        /\ Commit([t EXCEPT !.s[SUB].pool = [@ EXCEPT !.status = in.status, !.fee = in.fee,
                                                      !.rate = in.rate]])
        /\ system' = IF IsFund(t.s[SUB]) /\ in.pool = system.llp /\ in.status = FROZEN
                     THEN [system EXCEPT !.llp = NoAccount] ELSE system
        /\ UNCHANGED <<setup, clock, rounds, stack, flow, drift>>

L2CreateStakingPool(in) ==
    LET t == Begin(in.account, in.pool, NoAccount)
        amount == in.shares * INITIAL_POOL_SHARE_VALUE * t.asset[LIT].em
        opened == PoolOpened(t, STAKING_POOL, FALSE, NewPool(0, in.rate, in.shares))
    IN  /\ Signed(t, OWNER, "l2_create_staking_pool")
        /\ in.account = TREASURY_ACCOUNT_INDEX /\ t.asset[LIT].exists
        /\ in.shares >= MIN_INITIAL_TOTAL_STAKING_SHARES /\ in.rate <= SHARE_TICK
        /\ IsSubIndex(t)
        /\ amount <= AvailableOf(t, OWNER, LIT, SPOT, FALSE)
        /\ amount <= t.s[OWNER].bal[LIT].spot
        /\ Commit([opened EXCEPT !.s[SUB].bal[LIT].spot = amount, !.s[OWNER].bal[LIT].spot = @ - amount])
        /\ UNCHANGED <<setup, system, clock, rounds, stack, flow, drift>>

-----------------------------------------------------------------------------
(* Minting and burning of pool shares.                                      *)

\* FEE is the staking pool; the operators of the two pools are exempt.
StakeBacksMint(t, principal) ==
    LET staking == t.s[FEE]
        backed == get_public_pool_share(t.s[OWNER], t.idx[SUB]).principal + principal
    IN  \/ IsOperator(t)
        \/ t.idx[SUB] # system.llp
        \/ ~t.asset[LIT].exists
        \/ t.idx[OWNER] = staking.master
        \/ system.staking = NoAccount
        \/ PrincipalBacked(backed, StakedLit(t.s[OWNER], staking.pool, t.idx[FEE],
                                             staking.bal[LIT].spot, t.asset[LIT].em))

\* Mutant: shares are minted at their initial price.
MintPrincipal_InitialPrice(t, shares) == shares * INITIAL_POOL_SHARE_VALUE

MintPrincipal(t, shares) ==
    get_shares_usdc_value_for_public_pool(WholeRisk(t, SUB), t.s[SUB].pool, shares)

MintShares(t, shares, principal) ==
    LET value == principal * USDC_TO_COLLATERAL_MULTIPLIER
    IN  apply_collateral_delta(
            apply_collateral_delta(ShareAdded(t, shares, principal, clock), SUB, value),
            OWNER, -value)

ShareOfOwnerFits(t, shares) ==
    IsOperator(t) \/ PoolShareFits(t.s[OWNER], [pool |-> t.idx[SUB], amount |-> shares])

MintAllowed(t, shares, principal) ==
    LET pool == t.s[SUB].pool
    IN  /\ IsPool(t.s[SUB]) /\ pool.status = ACTIVE
        /\ pool.total + shares <= MAX_POOL_SHARES
        /\ principal * USDC_TO_COLLATERAL_MULTIPLIER <= AvailableOf(t, OWNER, USDC, PERPS, FALSE)
        /\ IsOperator(t) \/ OperatorRateHolds(pool.total + shares, pool.operator, pool.rate)
        /\ StakeBacksMint(t, principal)
        /\ ShareOfOwnerFits(t, shares)

L2MintShares(in) ==
    \E t \in {Begin(in.account, in.pool, system.staking)} :
        /\ Signed(t, OWNER, "l2_mint_shares")
        /\ in.shares # 0
        /\ \E principal \in {MintPrincipal(t, in.shares)} :
            /\ MintAllowed(t, in.shares, principal)
            /\ Commit(MintShares(t, in.shares, principal))
        /\ UNCHANGED <<setup, system, clock, rounds, stack, flow, drift>>

\* Shares of the llp cool down before they may be burned.
Cooled(t) ==
    IsOperator(t) \/ t.idx[SUB] # system.llp
        \/ clock >= get_public_pool_share(t.s[OWNER], t.idx[SUB]).entry + system.cooldown

L2BurnShares(in) ==
    \E t \in {Begin(in.account, in.pool, NoAccount)} : \E r \in {BurnRisk(t, SUB)} :
        /\ Signed(t, OWNER, "l2_burn_shares")
        /\ in.shares # 0
        /\ BurnAllowed(t, r, in.shares) /\ Cooled(t)
        /\ Commit(BurnShares(t, r, in.shares))
        /\ UNCHANGED <<setup, system, clock, rounds, stack, flow, drift>>

\* Asked for on layer 1: without effect where layer 2 would refuse.
L1BurnAllowed(t, r, in) ==
    /\ Exists(t.s[OWNER]) /\ t.s[OWNER].master = in.master
    /\ t.s[OWNER].type # STAKING_POOL
    /\ BurnAllowed(t, r, in.shares) /\ Cooled(t)
    /\ r.tav > 0 /\ t.s[SUB].pool.total # 0

L1BurnShares(in) ==
    \E t \in {Begin(in.account, in.pool, NoAccount)} : \E r \in {BurnRisk(t, SUB)} :
        /\ Idle
        /\ Commit(IF L1BurnAllowed(t, r, in) THEN BurnShares(t, r, in.shares) ELSE t)
        /\ UNCHANGED <<setup, system, clock, rounds, stack, flow, drift>>

\* The llp burns shares of a depositor whose stake no longer backs them; the
\* llp itself signs.
StakeTooSmall(t, in) ==
    LET staking == t.s[FEE]
        left == get_public_pool_share(t.s[OWNER], in.pool).principal - PaidFor(t, in.shares)
        lit == StakedLit(t.s[OWNER], staking.pool, t.idx[FEE], staking.bal[LIT].spot,
                         t.asset[LIT].em)
    IN  LIT_TO_MINT_SHARES_MULTIPLIER * lit <= USDC_TO_LIT_CONVERSION_RATE * left

L2ForceBurnShares(in) ==
    \E t \in {Begin(in.account, in.pool, system.staking)} : \E r \in {BurnRisk(t, SUB)} :
        /\ Signed(t, SUB, "l2_force_burn_shares")
        /\ in.shares # 0
        /\ in.pool = system.llp /\ IsFund(t.s[SUB])
        /\ system.staking # NoAccount /\ t.asset[LIT].exists
        /\ ~IsOperator(t)
        /\ BurnAllowed(t, r, in.shares)
        /\ StakeTooSmall(t, in)
        /\ Commit(BurnShares(t, r, in.shares))
        /\ UNCHANGED <<setup, system, clock, rounds, stack, flow, drift>>

-----------------------------------------------------------------------------
(* Staking of LIT.                                                          *)

StakeValue(t, shares) ==
    get_shares_asset_value_for_staking_pool(
        t.s[SUB].pool.total, t.s[SUB].bal[LIT].spot, t.asset[LIT].em, shares)

\* The entry time of a staking share is left as it is.
Staked(t, shares) ==
    LET amount == StakeValue(t, shares) * t.asset[LIT].em
        entry == get_public_pool_share(t.s[OWNER], t.idx[SUB]).entry
        added == ShareAdded(t, shares, StakeValue(t, shares), entry)
    IN  [added EXCEPT !.s[OWNER].bal[LIT].spot = @ - amount, !.s[SUB].bal[LIT].spot = @ + amount]

L2StakeAssets(in) ==
    LET t == Begin(in.account, in.pool, NoAccount)
        pool == t.s[SUB].pool
        amount == StakeValue(t, in.shares) * t.asset[LIT].em
    IN  /\ Signed(t, OWNER, "l2_stake_assets")
        /\ in.shares # 0 /\ t.asset[LIT].exists
        /\ t.s[SUB].type = STAKING_POOL /\ pool.status = ACTIVE
        /\ pool.total + in.shares <= MAX_POOL_SHARES
        /\ amount <= AvailableOf(t, OWNER, LIT, SPOT, FALSE)
        /\ amount <= t.s[OWNER].bal[LIT].spot
        /\ IsOperator(t) \/ OperatorRateHolds(pool.total + in.shares, pool.operator, pool.rate)
        /\ ShareOfOwnerFits(t, in.shares)
        /\ Commit(Staked(t, in.shares))
        /\ UNCHANGED <<setup, system, clock, rounds, stack, flow, drift>>

IsPendingUnlock(t) == ~IsOperator(t) /\ t.idx[SUB] = system.staking /\ system.lockup # 0

\* What is unstaked from the system's pool is locked up first.
Unstaked(t, shares) ==
    LET amount == StakeValue(t, shares) * t.asset[LIT].em
        burned == [SharesBurned(t, shares, 0) EXCEPT !.s[SUB].bal[LIT].spot = @ - amount]
    IN  IF IsPendingUnlock(t)
        THEN [burned EXCEPT !.s[OWNER] =
                add_pending_unlock(@, [time |-> clock + system.lockup, amount |-> amount])]
        ELSE [burned EXCEPT !.s[OWNER].bal[LIT].spot = @ + amount]

\* FEE is the llp: the stake left must back the shares of it.
StakeBacksLlp(t, u) ==
    LET left == u.s[SUB]
    IN  \/ IsOperator(t)
        \/ t.idx[SUB] # system.staking
        \/ t.idx[OWNER] = t.s[FEE].master
        \/ system.llp = NoAccount
        \/ PrincipalBacked(get_public_pool_share(t.s[OWNER], t.idx[FEE]).principal,
                           StakedLit(u.s[OWNER], left.pool, u.idx[SUB], left.bal[LIT].spot,
                                     t.asset[LIT].em))

UnlockFits(a) == Len(a.unlocks) < MAX_PENDING_UNLOCKS

L2UnstakeAssets(in) ==
    LET t == Begin(in.account, in.pool, IF in.pool = system.staking THEN system.llp ELSE NoAccount)
        pool == t.s[SUB].pool
    IN  /\ Signed(t, OWNER, "l2_unstake_assets")
        /\ in.shares # 0 /\ t.asset[LIT].exists
        /\ t.s[SUB].type = STAKING_POOL
        /\ in.shares <= Owned(t) /\ in.shares <= pool.total
        /\ in.shares <= get_available_shares_to_burn_for_staking_pool(pool.total, t.s[SUB].bal[LIT])
        /\ IsOperator(t) /\ pool.status # FROZEN =>
                OperatorRateHolds(pool.total - in.shares, Owned(t) - in.shares, pool.rate)
        /\ IsPendingUnlock(t) => UnlockFits(t.s[OWNER])
        /\ \E u \in {Unstaked(t, in.shares)} : StakeBacksLlp(t, u) /\ Commit(u)
        /\ UNCHANGED <<setup, system, clock, rounds, stack, flow, drift>>

Unlocked(t) ==
    apply_asset_delta([t EXCEPT !.s[OWNER] = pop_pending_unlock(@)], OWNER, LIT, SPOT,
                      Head(t.s[OWNER].unlocks).amount,
                      is_asset_used_as_margin(t.s[OWNER], LIT), t.s[OWNER].unified, FALSE)

InternalPendingUnlock(j) ==
    LET t == Begin(j, NoAccount, NoAccount)
    IN  /\ Idle
        /\ t.asset[LIT].exists
        /\ t.s[OWNER].unlocks # <<>>
        /\ Head(t.s[OWNER].unlocks).amount # 0
        /\ Head(t.s[OWNER].unlocks).time <= clock
        /\ Commit(Unlocked(t))
        /\ UNCHANGED <<setup, system, clock, rounds, stack, flow, drift>>
=============================================================================
