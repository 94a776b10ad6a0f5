----------------------------- MODULE Balances -----------------------------
(***************************************************************************)
(* Balances of accounts and the slots through which a transaction changes  *)
(* them.  A transaction works on copies of at most three accounts,         *)
(*   OWNER  owner, sender or taker                                         *)
(*   SUB    sub account, pool, receiver or maker                           *)
(*   FEE    the account that collects fees                                 *)
(* which may be the same account, and writes them back at its end.         *)
(*                                                                         *)
(*  account  [type, master, unified, bal, strategies, pos, pool, shares,   *)
(*            unlocks]                                                     *)
(*  bal[x]   [spot, locked, margin, mode, published] in extended units     *)
(*           (published in units of the asset)                             *)
(*  tx       [idx, s, asset, market, strat, different, ok], where ok says  *)
(*           that no assertion on the way has failed                       *)
(***************************************************************************)
EXTENDS Risk, Sequences

CONSTANTS LIT, NoAccount

OWNER == 1
SUB == 2
FEE == 3

MASTER == "master"
SUB_ACCOUNT == "sub"
PUBLIC_POOL == "public pool"
INSURANCE_FUND == "insurance fund"
STAKING_POOL == "staking pool"
NEW_ACCOUNT == "new"

SPOT == TRUE
PERPS == FALSE

IsFund(a) == a.type = INSURANCE_FUND

is_asset_used_as_margin(a, x) == x = USDC \/ a.bal[x].mode

Holding(a, x) ==
    [spot |-> a.bal[x].spot, locked |-> a.bal[x].locked, margin |-> a.bal[x].margin,
     used |-> is_asset_used_as_margin(a, x), unified |-> a.unified]

-----------------------------------------------------------------------------
(* Supply caps.                                                             *)

get_remaining_supply_cap(a, margin) ==
    Least(Pos(a.globalCap - a.supplied),
          IF margin < 0 THEN 0 ELSE Pos(a.userCap - margin))

\* The part of delta that the margin side takes; the rest is spot.  A unified
\* account lends what the caps allow and pays from its spot side first.
MarginPart(a, x, asset, spotProduct, delta, used, unified, fund) ==
    IF fund /\ spotProduct THEN delta
    ELSE IF ~unified THEN IF spotProduct THEN 0 ELSE delta
    ELSE IF ~used THEN 0
    ELSE IF delta > 0
         THEN IF x = USDC THEN delta
              ELSE Least(delta, get_remaining_supply_cap(asset, a.bal[x].margin))
         ELSE delta + Least(a.bal[x].spot, -delta)

\* Simple accounts lend USDC only, unified ones what they marked as margin.
SideAllowed(x, spotProduct, used, unified) ==
    /\ ~unified /\ ~spotProduct => x = USDC
    /\ unified /\ ~used => spotProduct

\* No balance but that of USDC lent may fall below zero.
BalancesCover(b, x) == b.spot >= 0 /\ (x # USDC => b.margin >= 0)

\* m of delta goes to the margin side; what is counted of it is supply.
Split(t, i, x, delta, m, counted, fund) ==
    [t EXCEPT
        !.s[i].bal[x] = [@ EXCEPT !.margin = @ + m, !.spot = @ + delta - m],
        !.s[i].strategies[t.strat[i]] = @ + (IF fund /\ x = USDC THEN m ELSE 0),
        !.asset[x].supplied = IF counted THEN @ + m ELSE @,
        !.ok = @ /\ (counted => t.asset[x].supplied + m >= 0)]

DeltaApplied(t, i, x, spotProduct, delta, used, unified, fund) ==
    Split([t EXCEPT !.ok = @ /\ SideAllowed(x, spotProduct, used, unified)], i, x, delta,
          MarginPart(t.s[i], x, t.asset[x], spotProduct, delta, used, unified, fund),
          x # USDC /\ ~(fund /\ spotProduct), fund)

Covered(u, i, x) == [u EXCEPT !.ok = @ /\ BalancesCover(u.s[i].bal[x], x)]

apply_asset_delta(t, i, x, spotProduct, delta, used, unified, fund) ==
    Covered(DeltaApplied(t, i, x, spotProduct, delta, used, unified, fund), i, x)

\* The usual call: margin mode, trading mode and type are those of the slot.
AssetDelta(t, i, x, spotProduct, delta) ==
    apply_asset_delta(t, i, x, spotProduct, delta, is_asset_used_as_margin(t.s[i], x),
                      t.s[i].unified, IsFund(t.s[i]))

\* Perps USDC of a slot changes by delta, the strategy with it.
apply_collateral_delta(t, i, delta) ==
    [t EXCEPT !.s[i].bal[USDC].margin = @ + delta,
              !.s[i].strategies[t.strat[i]] = @ + (IF IsFund(t.s[i]) THEN delta ELSE 0)]

CapsEnabled(x, canBeUniversal) == canBeUniversal => x # USDC

\* Within one account, one side loses what the other gains; what is lent must
\* keep within the caps.
apply_asset_delta_raw(t, i, x, spotProduct, delta, canBeUniversal) ==
    LET b == t.s[i].bal[x]
        counted == CapsEnabled(x, canBeUniversal)
    IN  IF spotProduct
        THEN [t EXCEPT !.s[i].bal[x].spot = @ + delta, !.ok = @ /\ b.spot + delta >= 0]
        ELSE [t EXCEPT
                !.s[i].bal[x].margin = @ + delta,
                !.asset[x].supplied = @ + (IF counted THEN delta ELSE 0),
                !.ok = @ /\ (counted =>
                                /\ delta <= get_remaining_supply_cap(t.asset[x], b.margin)
                                /\ t.asset[x].supplied + delta >= 0)]

-----------------------------------------------------------------------------
(* Unlocks pending after unstaking, oldest first.                           *)

CONSTANT MAX_PENDING_UNLOCKS

get_total_unlock_amount(a) ==
    MapThenSumSet(LAMBDA k : a.unlocks[k].amount, DOMAIN a.unlocks)

\* A slot is free when its amount is zero, so nothing is kept of an unlock of
\* nothing.
add_pending_unlock(a, unlock) ==
    IF unlock.amount = 0 THEN a ELSE [a EXCEPT !.unlocks = Append(@, unlock)]

pop_pending_unlock(a) == [a EXCEPT !.unlocks = Tail(@)]

-----------------------------------------------------------------------------
(* Risk of the slots before the transaction.                                *)

\* The risk engine is handed a partial copy of the account, whose type is the
\* default of the struct and never that of an insurance fund.
RiskView(usdc, margin, pos) ==
    [usdc |-> usdc, margin |-> margin, pos |-> pos, isInsuranceFund |-> FALSE]

Margins(a) == [x \in DOMAIN a.bal |-> a.bal[x].margin]

\* Collateral and positions of an insurance fund are those of one strategy.
get_relevant_usdc_collateral(a, strategy) ==
    IF IsFund(a) THEN a.strategies[strategy] ELSE a.bal[USDC].margin

OfStrategy(market, byStrategy, strategy) ==
    {k \in DOMAIN market : byStrategy => market[k].strategy = strategy}

AccountRisk(a, t, byStrategy, strategy) ==
    new_cross(RiskView(IF byStrategy THEN get_relevant_usdc_collateral(a, strategy)
                       ELSE a.bal[USDC].margin,
                       Margins(a), a.pos),
              t.market, OfStrategy(t.market, byStrategy, strategy), t.asset)

\* A fund is judged by the strategy of the transaction, anyone else as a whole.
CrossRisk(t, i) == AccountRisk(t.s[i], t, IsFund(t.s[i]), t.strat[i])

CurrentRisk(t, i, k) ==
    IF t.s[i].pos[k].isolated THEN new_isolated(t.s[i].pos[k], t.market[k])
    ELSE CrossRisk(t, i)

\* Minting values the pool as a whole, all strategies together.
WholeRisk(t, i) == AccountRisk(t.s[i], t, FALSE, 0)

\* Burning values the pool as a whole too, but of its other assets only those
\* of an insurance fund.
BurnRisk(t, i) ==
    LET a == t.s[i]
        margin == [x \in DOMAIN a.bal |-> IF IsFund(a) THEN a.bal[x].margin ELSE 0]
    IN  new_cross(RiskView(a.bal[USDC].margin, margin, a.pos),
                  t.market, DOMAIN t.market, t.asset)

AvailableOf(t, i, x, spotProduct, skipOrderMargin) ==
    get_available_asset_balance(spotProduct, x, Holding(t.s[i], x), CrossRisk(t, i),
                                t.asset[x], skipOrderMargin)

-----------------------------------------------------------------------------
(* Public data and the end of a transaction.                                *)

\* What the public data ought to show of an asset: spot with the pending
\* unlocks, margin, and for USDC the positions.
Held(a, x, em) ==
    ((a.bal[x].spot + IF x = LIT THEN get_total_unlock_amount(a) ELSE 0) \div em)
        + (a.bal[x].margin \div em)

HeldInPositions(a) == MapThenSumSet(LAMBDA k : aggregated_usdc(a.pos[k]), DOMAIN a.pos)

\* Mutant: positions are left out of the public balance.
HeldWithPositions_NoPositions(a, x, em, slot) == Held(a, x, em)

\* The fee slot has no positions.
HeldWithPositions(a, x, em, slot) ==
    Held(a, x, em) + IF x = USDC /\ slot # FEE THEN HeldInPositions(a) ELSE 0

\* Slot i with the deltas of its public balances; a transfer within one account
\* publishes nothing.
Published(t, i, before) ==
    LET delta(x) == HeldWithPositions(t.s[i], x, t.asset[x].em, i)
                        - HeldWithPositions(before, x, t.asset[x].em, i)
    IN  [t.s[i] EXCEPT !.bal = [x \in DOMAIN @ |->
            [@[x] EXCEPT !.published =
                before.bal[x].published + IF t.different THEN delta(x) ELSE 0]]]

\* Slots are written back in order: a slot whose account is that of an earlier
\* slot is not.
Written(t, accounts) ==
    LET slots(j) == {i \in DOMAIN t.idx : t.idx[i] = j}
    IN  [j \in DOMAIN accounts |->
            IF slots(j) = {} THEN accounts[j] ELSE Published(t, Min(slots(j)), accounts[j])]
=============================================================================
