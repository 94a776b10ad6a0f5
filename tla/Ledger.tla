------------------------------ MODULE Ledger ------------------------------
(***************************************************************************)
(* Accounts, their balances, pools and stakes, and the transactions that   *)
(* move assets between them.  A transaction copies its accounts into slots *)
(* (Begin), checks and changes the copies, and writes them back with the   *)
(* deltas of the public data (Commit); if an assertion fails the circuit   *)
(* has no witness and the step does not exist.  Transactions from layer 1  *)
(* must be processed: where one fails it changes nothing.                  *)
(*                                                                         *)
(* Setups gives, for each name, the initial state and the sets of inputs   *)
(* tried with every transaction.                                           *)
(***************************************************************************)
EXTENDS Pools

CONSTANTS
    Setups,
    TREASURY_ACCOUNT_INDEX,
    INSURANCE_FUND_OPERATOR_ACCOUNT_INDEX,
    MAX_MASTER_ACCOUNT_INDEX,   \* larger indices are sub accounts and pools
    NB_STRATEGIES,
    MAX_FLOW                    \* bound: what is deposited or withdrawn

VARIABLES
    setup,      \* the chosen setup
    acct,       \* accounts by index
    asset,      \* assets by index
    market,     \* markets by index
    system,     \* [llp, staking, cooldown, lockup, cap]; cap: of integrators' fees
    clock,      \* time of the block
    rounds,     \* [funding, premium, oracle]: when each was last updated, and
                \* ghost samples: premiums since the last funding round
    stack,      \* registers: transfers of fees and liquidation orders, top first
    steps,      \* ghost: number of steps taken, bounded by the setup
    flow,       \* ghost: deposits minus withdrawals of every asset
    drift       \* ghost: what self transfers kept from the public balances

TRANSFER == "transfer"
ORDER == "order"

vars == <<setup, acct, asset, market, system, clock, rounds, stack, steps, flow, drift>>

Inputs == setup.inputs

ZeroPerAsset(assets) == [x \in DOMAIN assets |-> 0]

LedgerInit ==
    /\ setup \in {Setups[n] : n \in DOMAIN Setups}
    /\ acct = setup.acct /\ asset = setup.asset
    /\ market = setup.market /\ system = setup.system
    /\ clock = 0 /\ rounds = [funding |-> 0, premium |-> 0, oracle |-> 0, samples |-> 0] /\ stack = <<>>
    /\ steps = 0 /\ flow = ZeroPerAsset(asset)
    /\ drift = [j \in DOMAIN acct |-> ZeroPerAsset(asset)]

Exists(a) == a.type # NEW_ACCOUNT

MasterOrSub(a) == a.type \in {MASTER, SUB_ACCOUNT}

EmptyAccount(assets, markets) ==
    [type |-> NEW_ACCOUNT, master |-> NoAccount, unified |-> FALSE,
     bal |-> [x \in assets |->
                [spot |-> 0, locked |-> 0, margin |-> 0, mode |-> FALSE, published |-> 0]],
     strategies |-> [k \in 0 .. NB_STRATEGIES - 1 |-> 0],
     pos |-> [k \in markets |-> EmptyPosition],
     pool |-> NoPool, shares |-> <<>>, unlocks |-> <<>>, orders |-> 0]

-----------------------------------------------------------------------------
(* Slots.                                                                   *)

\* The account of an index that is not used is empty.
Loaded(j) ==
    IF j \in DOMAIN acct THEN acct[j] ELSE EmptyAccount(DOMAIN asset, DOMAIN market)

Begin(i, j, f) ==
    [idx |-> <<i, j, f>>, s |-> <<Loaded(i), Loaded(j), Loaded(f)>>,
     asset |-> asset, market |-> market, strat |-> <<0, 0, 0>>,
     different |-> i # j, ok |-> TRUE]

\* The strategy of a fund is that of the market.
InMarket(t, k) ==
    [t EXCEPT !.strat = [i \in DOMAIN t.s |->
        IF i = FEE \/ IsFund(t.s[i]) THEN t.market[k].strategy ELSE 0]]

Commit(t) ==
    /\ t.ok
    /\ acct' = Written(t, acct)
    /\ asset' = t.asset
    /\ market' = t.market

\* Transactions wait until the register stack is empty.
Idle == stack = <<>>

OrderTxs == {"l2_create_order", "l2_cancel_order", "l2_cancel_all_orders", "l2_modify_order"}

TreasuryTxs ==
    OrderTxs \cup {"l2_transfer", "l2_withdraw", "l2_create_staking_pool", "l2_stake_assets",
                   "l2_unstake_assets"}

InsuranceFundOperatorTxs ==
    {"l2_transfer", "l2_withdraw", "l2_burn_shares", "l2_mint_shares", "l2_create_public_pool",
     "l2_update_public_pool", "l2_update_market_config", "l2_update_asset_config"}

SubAccountTxs ==
    OrderTxs \cup {"l2_create_grouped_orders", "l2_change_pub_key", "l2_approve_integrator",
                   "l2_transfer", "l2_withdraw", "l2_burn_shares", "l2_mint_shares",
                   "l2_update_leverage", "l2_update_margin", "l2_stake_assets",
                   "l2_unstake_assets", "l2_update_account_config",
                   "l2_update_account_asset_config"}

ActivePoolTxs ==
    OrderTxs \cup {"l2_create_grouped_orders", "l2_change_pub_key", "l2_update_leverage",
                   "l2_force_burn_shares", "l2_strategy_transfer"}

FrozenPoolTxs == {"l2_transfer", "l2_change_pub_key"}

\* Which layer 2 transactions an account may sign.
verify_l2_tx(j, a, kind) ==
    /\ Exists(a) /\ a.type # STAKING_POOL
    /\ j = TREASURY_ACCOUNT_INDEX => kind \in TreasuryTxs
    /\ j = INSURANCE_FUND_OPERATOR_ACCOUNT_INDEX => kind \in InsuranceFundOperatorTxs
    /\ a.type = SUB_ACCOUNT => kind \in SubAccountTxs
    /\ IsPool(a) => kind \in IF a.pool.status = FROZEN THEN FrozenPoolTxs ELSE ActivePoolTxs

Signed(t, i, kind) == Idle /\ verify_l2_tx(t.idx[i], t.s[i], kind)

-----------------------------------------------------------------------------
(* Transfers.                                                               *)

SelfTransferValid(t, in) ==
    in.from = in.to =>
        in.fromSpot # in.toSpot /\ ~(t.s[OWNER].unified /\ in.x = USDC)

SameMaster(t) == t.s[OWNER].master = t.s[SUB].master

AmountValid(t, in) ==
    /\ in.amount # 0
    /\ SameMaster(t) \/ t.asset[in.x].minTransfer <= in.amount
    /\ t.s[OWNER].master = TREASURY_ACCOUNT_INDEX => SameMaster(t)

RoutesValid(t, in) ==
    /\ in.fromSpot \/ is_asset_used_as_margin(t.s[OWNER], in.x)
    /\ in.toSpot \/ is_asset_used_as_margin(t.s[SUB], in.x)

\* Pools take part with perps USDC only, staking pools with spot LIT: active
\* ones receive, frozen ones without shares send.
PoolRoute(a, x, spot) ==
    /\ IsPool(a) => ~spot /\ x = USDC
    /\ a.type = STAKING_POOL => spot /\ x = LIT

PoolsAllow(t, in) ==
    /\ PoolRoute(t.s[SUB], in.x, in.toSpot)
    /\ PoolRoute(t.s[OWNER], in.x, in.fromSpot)
    /\ IsPool(t.s[SUB]) \/ t.s[SUB].type = STAKING_POOL => t.s[SUB].pool.status = ACTIVE
    /\ IsPool(t.s[OWNER]) \/ t.s[OWNER].type = STAKING_POOL =>
            t.s[OWNER].pool.status = FROZEN /\ t.s[OWNER].pool.total = 0

\* Between its own sides an account may also move what its orders lock.
TransferCovered(t, in) ==
    LET amount == in.amount * t.asset[in.x].em
        fee == in.fee * USDC_TO_COLLATERAL_MULTIPLIER
        available == IF in.from = in.to /\ in.fromSpot THEN t.s[OWNER].bal[in.x].spot
                     ELSE AvailableOf(t, OWNER, in.x, in.fromSpot, in.from = in.to)
    IN  IF in.x = USDC THEN amount + fee <= available
        ELSE amount <= available /\ fee <= AvailableOf(t, OWNER, USDC, in.fromSpot, FALSE)

TransferValid(t, in) ==
    /\ Exists(t.s[SUB]) /\ t.asset[in.x].exists
    /\ SelfTransferValid(t, in)
    /\ AmountValid(t, in)
    /\ RoutesValid(t, in)
    /\ PoolsAllow(t, in)
    /\ TransferCovered(t, in)

\* The sender pays amount and fee, the fee always in USDC.
TransferPaid(t, in) ==
    LET amount == in.amount * t.asset[in.x].em
        fee == in.fee * USDC_TO_COLLATERAL_MULTIPLIER
        paid == IF in.from = in.to
                THEN apply_asset_delta_raw(t, OWNER, in.x, in.fromSpot, -amount, FALSE)
                ELSE AssetDelta(t, OWNER, in.x, in.fromSpot, -amount)
    IN  IF in.x = USDC THEN AssetDelta(t, OWNER, USDC, in.fromSpot, -(amount + fee))
        ELSE AssetDelta(paid, OWNER, USDC, in.fromSpot, -fee)

TransferReceived(t, in) ==
    LET amount == in.amount * t.asset[in.x].em
    IN  IF in.from = in.to THEN apply_asset_delta_raw(t, OWNER, in.x, in.toSpot, amount, TRUE)
        ELSE AssetDelta(t, SUB, in.x, in.toSpot, amount)

\* Mutant: a fee account that is also sender or receiver is not credited.
FeeCollected_OnlyThird(t, fee) == apply_collateral_delta(t, FEE, fee)

\* The fee goes to every slot of the fee account; of these only the first is
\* written back.
FeeCollected(t, fee) ==
    LET at(u, i) == IF u.idx[i] = u.idx[FEE] THEN apply_collateral_delta(u, i, fee) ELSE u
    IN  apply_collateral_delta(at(at(t, OWNER), SUB), FEE, fee)

TransferApplied(t, in) ==
    FeeCollected(TransferReceived(TransferPaid(t, in), in), in.fee * USDC_TO_COLLATERAL_MULTIPLIER)

\* What a self transfer changes but does not publish.
Unpublished(t) ==
    LET new == Written(t, acct)
    IN  IF t.different THEN drift
        ELSE [j \in DOMAIN acct |-> [x \in DOMAIN asset |->
                drift[j][x] + Held(new[j], x, asset[x].em) - Held(acct[j], x, asset[x].em)]]

L2Transfer(in) ==
    \E t \in {Begin(in.from, in.to, in.feeAccount)} :
        /\ Signed(t, OWNER, "l2_transfer")
        /\ TransferValid(t, in)
        /\ \E u \in {TransferApplied(t, in)} : Commit(u) /\ drift' = Unpublished(u)
        /\ UNCHANGED <<setup, system, clock, rounds, stack, flow>>

\* Between the strategies of an insurance fund: nothing but the split changes.
L2StrategyTransfer(in) ==
    LET t == [Begin(in.fund, NoAccount, NoAccount) EXCEPT !.strat[OWNER] = in.from]
        a == t.s[OWNER]
        amount == in.amount * t.asset[USDC].em
    IN  /\ Signed(t, OWNER, "l2_strategy_transfer")
        /\ IsFund(a) /\ a.pool.status # FROZEN
        /\ in.from # in.to
        /\ t.asset[USDC].minTransfer <= in.amount
        /\ amount <= get_available_usdc_collateral(CrossRisk(t, OWNER))
        /\ Commit([t EXCEPT !.s[OWNER].strategies =
                        [@ EXCEPT ![in.from] = @ - amount, ![in.to] = @ + amount]])
        /\ UNCHANGED <<setup, system, clock, rounds, stack, flow, drift>>

-----------------------------------------------------------------------------
(* Deposits and withdrawals.                                                *)

FlowBound(x, delta) == Abs(flow[x] + delta) <= MAX_FLOW * asset[x].em

Opened(a, j) == [a EXCEPT !.type = MASTER, !.master = j, !.unified = TRUE]

\* The sequencer accepts a part of the deposit; an index not in use becomes a
\* master account, whatever the part.
L1Deposit(in) ==
    LET t == Begin(in.account, NoAccount, NoAccount)
        a == t.s[OWNER]
        b == IF Exists(a) THEN a ELSE Opened(a, in.account)
        opened == [t EXCEPT !.s[OWNER] = b]
        delta == in.accepted * t.asset[in.x].em
    IN  /\ Idle
        /\ in.accepted # 0 => t.asset[in.x].exists
                              /\ (in.spot \/ is_asset_used_as_margin(a, in.x))
        /\ FlowBound(in.x, delta)
        /\ Commit(IF in.accepted = 0 THEN opened
                  ELSE apply_asset_delta(opened, OWNER, in.x, in.spot, delta,
                                         is_asset_used_as_margin(a, in.x), b.unified, FALSE))
        /\ flow' = [flow EXCEPT ![in.x] = @ + delta]
        /\ UNCHANGED <<setup, system, clock, rounds, stack, drift>>

WithdrawalCovered(t, in) ==
    /\ in.amount * t.asset[in.x].em <= AvailableOf(t, OWNER, in.x, in.spot, FALSE)
    /\ in.spot \/ is_asset_used_as_margin(t.s[OWNER], in.x)

Withdrawn(t, in) ==
    apply_asset_delta(t, OWNER, in.x, in.spot, -in.amount * t.asset[in.x].em,
                      is_asset_used_as_margin(t.s[OWNER], in.x), t.s[OWNER].unified, FALSE)

\* A request from layer 1 that cannot be met is processed without effect.
L1Withdraw(in) ==
    LET t == Begin(in.account, NoAccount, NoAccount)
        success == /\ MasterOrSub(t.s[OWNER]) /\ t.s[OWNER].master = in.master
                   /\ t.asset[in.x].exists
                   /\ WithdrawalCovered(t, in)
    IN  /\ Idle
        /\ FlowBound(in.x, -in.amount * t.asset[in.x].em)
        /\ IF success
           THEN /\ Commit(Withdrawn(t, in))
                /\ flow' = [flow EXCEPT ![in.x] = @ - in.amount * t.asset[in.x].em]
           ELSE UNCHANGED <<acct, asset, market, flow>>
        /\ UNCHANGED <<setup, system, clock, rounds, stack, drift>>

L2Withdraw(in) ==
    LET t == Begin(in.account, NoAccount, NoAccount)
    IN  /\ Signed(t, OWNER, "l2_withdraw")
        /\ t.asset[in.x].exists
        /\ t.asset[in.x].minWithdrawal <= in.amount
        /\ WithdrawalCovered(t, in)
        /\ FlowBound(in.x, -in.amount * t.asset[in.x].em)
        /\ Commit(Withdrawn(t, in))
        /\ flow' = [flow EXCEPT ![in.x] = @ - in.amount * t.asset[in.x].em]
        /\ UNCHANGED <<setup, system, clock, rounds, stack, drift>>

-----------------------------------------------------------------------------
(* Accounts and their modes.                                                *)

OrdinaryOwner(t) ==
    /\ MasterOrSub(t.s[OWNER])
    /\ t.idx[OWNER] \notin {TREASURY_ACCOUNT_INDEX, INSURANCE_FUND_OPERATOR_ACCOUNT_INDEX}

IsSubIndex(t) == t.idx[SUB] > MAX_MASTER_ACCOUNT_INDEX /\ ~Exists(t.s[SUB])

L2CreateSubAccount(in) ==
    LET t == Begin(in.account, in.sub, NoAccount)
    IN  /\ Signed(t, OWNER, "l2_create_sub_account")
        /\ in.account <= MAX_MASTER_ACCOUNT_INDEX /\ IsSubIndex(t)
        /\ Commit([t EXCEPT !.s[SUB] = [@ EXCEPT !.type = SUB_ACCOUNT, !.unified = TRUE,
                                                 !.master = in.account]])
        /\ UNCHANGED <<setup, system, clock, rounds, stack, flow, drift>>

MayBeSimple(t) ==
    LET a == t.s[OWNER]
        r == CrossRisk(t, OWNER)
    IN  /\ a.bal[USDC].locked = 0
        /\ is_healthy(r) /\ r.withFunding >= 0
        /\ \A x \in DOMAIN a.bal \ {USDC} : ~a.bal[x].mode

\* Mutant: USDC stays on the spot side of an account that becomes unified.
ModeSwitched_KeepsSpot(t) == [t EXCEPT !.s[OWNER].unified = ~@]

\* A unified account keeps its USDC on the margin side only.
ModeSwitched(t) ==
    LET b == t.s[OWNER].bal[USDC]
    IN  IF t.s[OWNER].unified THEN [t EXCEPT !.s[OWNER].unified = FALSE]
        ELSE [t EXCEPT !.s[OWNER].unified = TRUE,
                       !.s[OWNER].bal[USDC] = [@ EXCEPT !.margin = @ + b.spot, !.spot = 0]]

L2UpdateAccountConfig(j) ==
    LET t == Begin(j, NoAccount, NoAccount)
    IN  /\ Signed(t, OWNER, "l2_update_account_config")
        /\ OrdinaryOwner(t)
        /\ t.s[OWNER].unified => MayBeSimple(t)
        /\ Commit(ModeSwitched(t))
        /\ UNCHANGED <<setup, system, clock, rounds, stack, flow, drift>>

\* An asset is lent only as far as the loans on it leave it free.
MayWithdrawMargin(t, x) ==
    LET m == t.s[OWNER].bal[x].margin
    IN  m < 0 \/ m <= AvailableOf(t, OWNER, x, PERPS, TRUE)

\* All of the asset changes sides; what exceeds the caps comes back as spot.
MarginModeSwitched(t, x) ==
    LET b == t.s[OWNER].bal[x]
        enabling == ~b.mode
        delta == IF enabling THEN b.spot ELSE b.margin
        switched == [t EXCEPT !.s[OWNER].bal[x].mode = enabling]
    IN  apply_asset_delta(
            apply_asset_delta_raw(switched, OWNER, x, enabling, -delta, FALSE),
            OWNER, x, ~enabling, delta, enabling, TRUE, FALSE)

L2UpdateAccountAssetConfig(in) ==
    LET t == Begin(in.account, NoAccount, NoAccount)
        a == t.s[OWNER]
    IN  /\ Signed(t, OWNER, "l2_update_account_asset_config")
        /\ OrdinaryOwner(t) /\ a.unified
        /\ in.x # USDC /\ t.asset[in.x].exists /\ t.asset[in.x].marginEnabled
        /\ a.bal[in.x].mode => MayWithdrawMargin(t, in.x)
        /\ Commit(MarginModeSwitched(t, in.x))
        /\ UNCHANGED <<setup, system, clock, rounds, stack, flow, drift>>

-----------------------------------------------------------------------------
(* Internal transfers: fees of integrators, from the register stack.        *)

\* Both sides of the transfer, each with the strategy of the register if it is
\* an insurance fund.
FeeMoved(top) ==
    LET b == Begin(top.from, top.to, NoAccount)
        t == [b EXCEPT !.strat = [i \in DOMAIN @ |-> IF IsFund(b.s[i]) THEN top.strategy ELSE 0]]
        amount == top.amount * t.asset[top.x].em
        moved(u, i, delta) ==
            DeltaApplied(u, i, top.x, top.spot, delta, is_asset_used_as_margin(u.s[i], top.x),
                         u.s[i].unified, IsFund(u.s[i]))
    IN  moved(moved(t, OWNER, -amount), SUB, amount)

FeeTransferSucceeds(top) ==
    \E t \in {FeeMoved(top)} :
        /\ top.from \in DOMAIN acct /\ top.to \in DOMAIN acct
        /\ Exists(acct[top.from]) /\ Exists(acct[top.to])
        /\ asset[top.x].exists
        /\ top.from # top.to
        /\ top.strategy < NB_STRATEGIES
        /\ BalancesCover(t.s[OWNER].bal[top.x], top.x)
        /\ BalancesCover(t.s[SUB].bal[top.x], top.x)

\* Popped only if it succeeds.
InternalTransfer ==
    /\ stack # <<>> /\ Head(stack).kind = TRANSFER
    /\ FeeTransferSucceeds(Head(stack))
    /\ Commit(FeeMoved(Head(stack)))
    /\ stack' = Tail(stack)
    /\ UNCHANGED <<setup, system, clock, rounds, flow, drift>>
=============================================================================
