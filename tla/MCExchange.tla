----------------------------- MODULE MCExchange -----------------------------
(***************************************************************************)
(* Instances of Exchange small enough for TLC.  A setup gives the accounts,*)
(* assets, markets and system at the start and the inputs tried with every *)
(* transaction.  Amounts are a few units: one USDC is 8 units of           *)
(* collateral, margin fractions, loan to value and fees count eighths.     *)
(***************************************************************************)
EXTENDS Exchange

CONSTANT ETH

-----------------------------------------------------------------------------
(* Building blocks.                                                         *)

UsdcAsset ==
    [exists |-> TRUE, price |-> 1, divider |-> 1, ltv |-> 8, lt |-> 8, factor |-> 8,
     globalCap |-> 0, userCap |-> 0, supplied |-> 0, em |-> 8, marginEnabled |-> TRUE,
     minTransfer |-> 1, minWithdrawal |-> 1, liquidationFee |-> 0]

LitAsset ==
    [UsdcAsset EXCEPT !.price = 0, !.ltv = 0, !.lt = 0, !.factor = 0, !.em = 4,
                      !.marginEnabled = FALSE]

EthAsset ==
    [UsdcAsset EXCEPT !.price = 2, !.ltv = 4, !.lt = 6, !.factor = 7, !.em = 4,
                      !.globalCap = 40, !.userCap = 24]

NewEth == [LitAsset EXCEPT !.exists = FALSE, !.em = 0]

AssetSet == [x \in {USDC, LIT, ETH} |->
                CASE x = USDC -> UsdcAsset [] x = LIT -> LitAsset [] x = ETH -> EthAsset]

PerpsMarket ==
    [EmptyMarket EXCEPT !.mark = 4, !.index = 4, !.active = TRUE, !.qm = 1, !.default = 4,
                        !.min = 2, !.mmf = 2, !.cmf = 1, !.multiplier = 2, !.liquidationFee = 8,
                        !.clampBig = 16]

Markets(n) == [k \in 1 .. n |-> PerpsMarket]

User(markets) ==
    [EmptyAccount({USDC, LIT, ETH}, DOMAIN markets) EXCEPT !.type = MASTER, !.unified = TRUE]

UsdcOf(a, amount) == [a EXCEPT !.bal[USDC].margin = amount * 8]

\* The public data of the initial accounts, and who owns them.
Booked(accounts, owner) ==
    [j \in DOMAIN accounts |->
        [accounts[j] EXCEPT
            !.master = IF accounts[j].type = NEW_ACCOUNT THEN NoAccount ELSE owner[j],
            !.bal = [x \in DOMAIN @ |->
                [@[x] EXCEPT !.published = Held(accounts[j], x, AssetSet[x].em)
                    + IF x = USDC THEN HeldInPositions(accounts[j]) ELSE 0]]]]

Self(accounts) == [j \in DOMAIN accounts |-> j]

NoInputs ==
    [transfer |-> {}, strategyTransfer |-> {}, deposit |-> {}, l1Withdraw |-> {}, withdraw |-> {},
     subAccount |-> {}, accountConfig |-> {}, accountAsset |-> {},
     createPool |-> {}, updatePool |-> {}, createStaking |-> {}, mint |-> {}, burn |-> {},
     l1Burn |-> {}, forceBurn |-> {}, stake |-> {}, unstake |-> {}, unlock |-> {},
     perps |-> {}, spot |-> {}, liquidate |-> {}, liquidateSpot |-> {}, deleverage |-> {},
     leverage |-> {}, margin |-> {}, exit |-> {}, createMarket |-> {}, updateMarket |-> {},
     marketConfig |-> {}, registerAsset |-> {}, updateAsset |-> {}, assetConfig |-> {},
     systemConfig |-> {}, block |-> {}, impact |-> {}, l2 |-> {}, l1Key |-> {}]

NoSystem ==
    [llp |-> NoAccount, staking |-> NoAccount, cooldown |-> 0, lockup |-> 0, cap |-> NoFees]

BaseSetup(accounts, owner, markets) ==
    [acct |-> Booked(accounts, owner), asset |-> AssetSet, market |-> markets, system |-> NoSystem,
     keys |-> <<>>, maxTime |-> 0, maxSteps |-> 4, inputs |-> NoInputs]

Treasury == 0
Operator == 1

-----------------------------------------------------------------------------
(* Transfers, deposits, withdrawals and modes.  2 is unified and lends ETH, *)
(* 3 keeps spot and margin apart; 4 and 10 do not exist yet.                *)

TransferAccounts ==
    LET none == EmptyAccount({USDC, LIT, ETH}, {})
        lender == [User(<<>>) EXCEPT
                    !.bal[USDC].margin = 20, !.bal[ETH] = [@ EXCEPT !.margin = 8, !.mode = TRUE]]
        simple == [User(<<>>) EXCEPT !.unified = FALSE, !.bal[USDC] = [@ EXCEPT !.spot = 8, !.margin = 8],
                    !.bal[ETH] = [@ EXCEPT !.spot = 8, !.locked = 4]]
    IN  [j \in {Treasury, 2, 3, 4, 10} |->
            CASE j = Treasury -> User(<<>>) [] j = 2 -> lender [] j = 3 -> simple
              [] OTHER -> none]

TransferInput(from, to, x, fromSpot, toSpot, amount, fee, feeAccount) ==
    [from |-> from, to |-> to, x |-> x, fromSpot |-> fromSpot, toSpot |-> toSpot,
     amount |-> amount, fee |-> fee, feeAccount |-> feeAccount]

TransfersSetup ==
    [BaseSetup(TransferAccounts, Self(TransferAccounts), <<>>) EXCEPT
        !.asset[ETH].supplied = 8,
        !.inputs = [@ EXCEPT
            !.transfer =
                {TransferInput(f, t, x, fs, ts, 1, fee, c) :
                    f \in {2, 3}, t \in {2, 3}, x \in {USDC, ETH}, fs \in BOOLEAN,
                    ts \in BOOLEAN, fee \in {0, 1}, c \in {Treasury, 2}},
            !.deposit = {[account |-> j, x |-> USDC, spot |-> FALSE, accepted |-> n] :
                            j \in {4}, n \in {0, 1}},
            !.withdraw = {[account |-> j, x |-> x, spot |-> s, amount |-> 1] :
                            j \in {2, 3}, x \in {ETH}, s \in BOOLEAN},
            !.l1Withdraw = {[account |-> j, x |-> USDC, spot |-> FALSE, amount |-> 1, master |-> 2] :
                            j \in {2, 3}},
            !.subAccount = {[account |-> 2, sub |-> 10]},
            !.accountConfig = {2, 3},
            !.accountAsset = {[account |-> j, x |-> ETH] : j \in {2, 3}}]]

-----------------------------------------------------------------------------
(* Pools.  11 is a public pool of 2, whose operator takes half of a profit; *)
(* 12 an insurance fund; 14 and 15 do not exist yet.                        *)

PoolAccount(a, type, total, operator) ==
    [a EXCEPT !.type = type, !.unified = (type = INSURANCE_FUND),
              !.pool = [NoPool EXCEPT !.total = total, !.operator = operator]]

FundOf(markets, budget) ==
    [PoolAccount(UsdcOf(User(markets), budget), INSURANCE_FUND, 2, 2)
        EXCEPT !.strategies[0] = budget * 8]

PoolAccounts ==
    LET public == [PoolAccount([User(<<>>) EXCEPT !.bal[USDC].margin = 85], PUBLIC_POOL, 5, 2)
                    EXCEPT !.pool.fee = 4, !.pool.rate = 2]
        investor == [UsdcOf(User(<<>>), 3) EXCEPT
                        !.shares = <<[pool |-> 11, amount |-> 3, principal |-> 1, entry |-> 0]>>]
    IN  [j \in {Operator, 2, 3, 11, 12, 14, 15} |->
            CASE j = Operator -> UsdcOf(User(<<>>), 2) [] j = 2 -> UsdcOf(User(<<>>), 2)
              [] j = 3 -> investor [] j = 11 -> public [] j = 12 -> FundOf(<<>>, 2)
              [] OTHER -> EmptyAccount({USDC, LIT, ETH}, {})]

PoolOwners == [j \in DOMAIN PoolAccounts |-> CASE j = 11 -> 2 [] j = 12 -> Operator [] OTHER -> j]

ShareInputs(accounts, pools, counts) ==
    {[account |-> j, pool |-> p, shares |-> n] : j \in accounts, p \in pools, n \in counts}

PoolsSetup ==
    [BaseSetup(PoolAccounts, PoolOwners, <<>>) EXCEPT
        !.inputs = [@ EXCEPT
            !.transfer = {TransferInput(3, 11, USDC, FALSE, FALSE, 1, 0, NoAccount),
                          TransferInput(11, 3, USDC, FALSE, FALSE, 1, 0, NoAccount)},
            !.createPool = {[account |-> 2, pool |-> 14, shares |-> 1, fee |-> 1, rate |-> 8],
                            [account |-> Operator, pool |-> 15, shares |-> 1, fee |-> 0, rate |-> 0]},
            !.updatePool = {[account |-> 2, pool |-> 11, status |-> st, fee |-> 0, rate |-> 6] :
                                st \in {ACTIVE, FROZEN}}
                           \cup {[account |-> Operator, pool |-> 12, status |-> FROZEN, fee |-> 0,
                                  rate |-> 0]},
            !.mint = ShareInputs({2, 3}, {11}, {1, 2}) \cup ShareInputs({3}, {12}, {1}),
            !.burn = ShareInputs({2, 3}, {11}, {1, 3}) \cup ShareInputs({3}, {12}, {1}),
            !.l1Burn = {[account |-> 3, pool |-> 11, shares |-> 2, master |-> j] : j \in {2, 3}}]]

-----------------------------------------------------------------------------
(* Staking.  12 is the llp, 13 the staking pool; 3 got its share of the llp *)
(* before shares had to be backed by a stake.                               *)

StakingAccounts ==
    LET staking == [PoolAccount(User(<<>>), STAKING_POOL, 3, 1) EXCEPT !.bal[LIT].spot = 14]
        depositor == [UsdcOf(User(<<>>), 3) EXCEPT
                        !.bal[LIT].spot = 8,
                        !.shares = <<[pool |-> 12, amount |-> 2, principal |-> 2, entry |-> 0],
                                     [pool |-> 13, amount |-> 2, principal |-> 2, entry |-> 0]>>]
    IN  [j \in {Treasury, Operator, 3, 12, 13, 15} |->
            CASE j = Treasury -> [User(<<>>) EXCEPT !.bal[LIT].spot = 8]
              [] j = Operator -> User(<<>>)
              [] j = 3 -> depositor
              [] j = 12 -> [FundOf(<<>>, 5) EXCEPT !.pool.total = 4]
              [] j = 13 -> staking
              [] OTHER -> EmptyAccount({USDC, LIT, ETH}, {})]

StakingOwners ==
    [j \in DOMAIN StakingAccounts |-> CASE j = 12 -> Operator [] j = 13 -> Treasury [] OTHER -> j]

StakingSystem == [llp |-> 12, staking |-> 13, cooldown |-> 1, lockup |-> 1, cap |-> NoFees]

QuietBlock(dt) == [dt |-> dt, oracle |-> FALSE, premium |-> FALSE, price |-> <<>>, assetPrice |-> <<>>]

StakingSetup ==
    [BaseSetup(StakingAccounts, StakingOwners, <<>>) EXCEPT
        !.system = StakingSystem,
        !.maxTime = 2, !.maxSteps = 5,
        !.inputs = [@ EXCEPT
            !.createStaking = {[account |-> Treasury, pool |-> 15, shares |-> 1, rate |-> 0]},
            !.stake = ShareInputs({3, Treasury}, {13}, {1}),
            !.unstake = ShareInputs({3, Treasury}, {13}, {1, 2}),
            !.unlock = {3},
            !.mint = ShareInputs({3}, {12}, {1}),
            !.burn = ShareInputs({3}, {12}, {1}),
            !.forceBurn = ShareInputs({3}, {12}, {1}),
            !.transfer = {TransferInput(3, 13, LIT, TRUE, TRUE, 1, 0, NoAccount)},
            !.systemConfig = {[StakingSystem EXCEPT !.lockup = 0], [StakingSystem EXCEPT !.llp = 13]},
            !.block = {QuietBlock(1)}]]

-----------------------------------------------------------------------------
(* Perps.  2 is long and 3 short in market 1; the fund 12 collects fees.    *)

Side(a, k, size, entry, isolated, alloc) ==
    [a EXCEPT !.pos[k] = [EmptyPosition EXCEPT !.size = size, !.entry = entry, !.set = TRUE,
                                               !.isolated = isolated, !.alloc = alloc]]

PerpsAccounts(markets, usdc, isolated, alloc) ==
    [j \in {Operator, 2, 3, 4, 12} |->
        CASE j = 2 -> Side([User(markets) EXCEPT !.bal[USDC].margin = usdc], 1, 2, 8, isolated, alloc)
          [] j = 3 -> Side([User(markets) EXCEPT !.bal[USDC].margin = 60], 1, -2, 8, FALSE, 0)
          [] j = 12 -> FundOf(markets, 10)
          [] OTHER -> User(markets)]

PerpsOwners == [j \in {Operator, 2, 3, 4, 12} |-> IF j = 12 THEN Operator ELSE j]

Traded(markets) == [markets EXCEPT ![1].oi = 4]

PerpsInput(taker, maker, k, ask, base, price, takerFee, takerRate, makerRate) ==
    [taker |-> taker, maker |-> maker, fund |-> 12, k |-> k, ask |-> ask, base |-> base,
     price |-> price, takerFee |-> takerFee, makerFee |-> 0, integrator |-> 4,
     takerRate |-> takerRate, makerRate |-> makerRate]

OracleBlock(dt, mark, n) ==
    [dt |-> dt, oracle |-> TRUE, premium |-> FALSE,
     price |-> [k \in 1 .. n |-> [mark |-> mark, index |-> mark]],
     assetPrice |-> [x \in {USDC, LIT, ETH} |-> AssetSet[x].price]]

PerpsSetup(isolated, usdc, alloc) ==
    [BaseSetup(PerpsAccounts(Markets(1), usdc, isolated, alloc), PerpsOwners, Traded(Markets(1)))
        EXCEPT
        !.inputs = [@ EXCEPT
            !.perps = {PerpsInput(i, 5 - i, 1, ask, base, price, fee, 0, 0) :
                        i \in {2, 3}, ask \in BOOLEAN, base \in {1, 3}, price \in {2, 4},
                        fee \in {0, 1}}
                      \cup {PerpsInput(2, 12, 1, TRUE, 1, 2, 0, 0, 0),
                            PerpsInput(2, 3, 1, TRUE, 1, 4, 0, 2, 2)},
            !.liquidate = {[account |-> j, k |-> 1, size |-> n] : j \in {2, 3}, n \in {1, 2}},
            !.deleverage = {[bankrupt |-> i, deleverager |-> j, k |-> 1, size |-> n] :
                                i \in {2, 3}, j \in {2, 3, 12}, n \in {1, 2}},
            !.withdraw = {[account |-> 2, x |-> USDC, spot |-> FALSE, amount |-> 1]},
            !.block = {OracleBlock(0, mark, 1) : mark \in {1, 2, 6}}]]

\* 3 has a reduce-only order, which goes with the position.
CrossSetup ==
    [PerpsSetup(FALSE, 36, 0) EXCEPT
        !.acct[3] = [@ EXCEPT !.orders = 1, !.pos[1] = [@ EXCEPT !.orders = 1, !.tied = 1]],
        !.market[1].orders = 1]

-----------------------------------------------------------------------------
(* Terms of positions and markets.                                          *)

MarketConfig ==
    [default |-> 4, min |-> 3, mmf |-> 2, cmf |-> 2, liquidationFee |-> 1, interest |-> 0,
     clampSmall |-> 0, clampBig |-> 8]

TermsSetup ==
    [BaseSetup(PerpsAccounts(Markets(2), 40, TRUE, 40), PerpsOwners, Traded(Markets(2)))
        EXCEPT
        !.inputs = [@ EXCEPT
            !.leverage = {[account |-> j, k |-> k, imf |-> n, isolated |-> i] :
                            j \in {2, 3}, k \in {1, 2}, n \in {1, 5}, i \in BOOLEAN},
            !.margin = {[account |-> 2, k |-> 1, add |-> add, amount |-> 1] : add \in BOOLEAN},
            !.exit = {[account |-> j, k |-> 1] : j \in {2, 3}},
            !.createMarket = {[k |-> 1, qm |-> 2, config |-> MarketConfig]},
            !.updateMarket = {[k |-> 1, active |-> b, config |-> MarketConfig] : b \in BOOLEAN},
            !.perps = {PerpsInput(2, 3, k, TRUE, 1, 4, 0, 0, 0) : k \in {1, 2}},
            !.block = {OracleBlock(0, 6, 2)}]]

-----------------------------------------------------------------------------
(* Insurance funds: strategies and the markets that use them.               *)

FundAccounts ==
    [PerpsAccounts(Markets(2), 60, FALSE, 0) EXCEPT
        ![12] = [FundOf(Markets(2), 10) EXCEPT !.strategies = [@ EXCEPT ![0] = 40, ![1] = 24, ![2] = 16],
                                               !.bal[ETH].margin = 8],
        ![3].bal[ETH] = [@ EXCEPT !.spot = 16]]

SpotPair == [base |-> ETH, quote |-> USDC, sizeExt |-> 8, quoteExt |-> 8]

SpotInput(taker, maker, fund, ask, price, takerFee, takerRate, makerRate) ==
    [taker |-> taker, maker |-> maker, fund |-> fund, m |-> SpotPair, ask |-> ask, base |-> 1,
     price |-> price, takerFee |-> takerFee, makerFee |-> 0, integrator |-> 4,
     takerRate |-> takerRate, makerRate |-> makerRate]

FundsSetup ==
    [BaseSetup(FundAccounts, PerpsOwners, Traded([Markets(2) EXCEPT ![2].strategy = 2]))
        EXCEPT
        !.inputs = [@ EXCEPT
            !.strategyTransfer = {[fund |-> 12, from |-> f, to |-> t, amount |-> 1] :
                                    f \in {0, 2}, t \in {0, 1, 2}},
            !.perps = {PerpsInput(3, 12, k, ask, 1, 4, 1, 2, 0) : k \in {1, 2}, ask \in BOOLEAN},
            !.spot = {SpotInput(3, 12, 12, ask, 2, 1, 0, 0) : ask \in BOOLEAN},
            !.marketConfig = {[account |-> Operator, k |-> 1, strategy |-> 2, isolatedOnly |-> FALSE,
                               isolatedDefault |-> TRUE, multiplier |-> 1],
                              [account |-> Operator, k |-> 2, strategy |-> 0, isolatedOnly |-> TRUE,
                               isolatedDefault |-> TRUE, multiplier |-> 1]},
            !.mint = ShareInputs({2}, {12}, {1}),
            !.burn = ShareInputs({2, Operator}, {12}, {1}),
            !.block = {OracleBlock(0, 6, 2)}]]

-----------------------------------------------------------------------------
(* Spot trades and the liquidation of ETH lent.                             *)

SpotAccounts ==
    [j \in {Treasury, 2, 3, 4, 12} |->
        CASE j = 2 -> [User(<<>>) EXCEPT !.bal[USDC].margin = -12,
                        !.bal[ETH] = [@ EXCEPT !.margin = 12, !.spot = 6, !.mode = TRUE]]
          [] j = 3 -> [User(<<>>) EXCEPT !.unified = FALSE,
                        !.bal[USDC] = [@ EXCEPT !.spot = 40], !.bal[ETH] = [@ EXCEPT !.spot = 17]]
          [] j = 12 -> FundOf(<<>>, 4)
          [] OTHER -> User(<<>>)]

SpotOwners == [j \in DOMAIN SpotAccounts |-> IF j = 12 THEN Operator ELSE j]

SpotSetup ==
    [BaseSetup(SpotAccounts, SpotOwners, <<>>) EXCEPT
        !.asset[ETH] = [@ EXCEPT !.supplied = 12, !.globalCap = 16],
        !.inputs = [@ EXCEPT
            !.spot = {SpotInput(i, 5 - i, f, ask, price, fee, 0, 0) :
                        i \in {2, 3}, f \in {Treasury, 3, 12}, ask \in BOOLEAN,
                        price \in {1, 2}, fee \in {0, 1}}
                     \cup {SpotInput(2, 3, Treasury, ask, price, 0, rate, 4) :
                            ask \in BOOLEAN, price \in {1, 2}, rate \in {3, 4}},
            !.liquidateSpot = {[account |-> 2, m |-> SpotPair, size |-> 1]},
            !.block = {[OracleBlock(0, 1, 0) EXCEPT !.assetPrice[ETH] = n] : n \in {1, 4}}]]

-----------------------------------------------------------------------------
(* ETH is registered and becomes an asset that can be lent.                 *)

AssetConfig(enabled) ==
    [minTransfer |-> 1, minWithdrawal |-> 1, marginEnabled |-> enabled, price |-> 2, divider |-> 1,
     ltv |-> IF enabled THEN 4 ELSE 0, lt |-> IF enabled THEN 6 ELSE 0,
     factor |-> IF enabled THEN 7 ELSE 0, liquidationFee |-> 0]

AssetAccounts == [j \in {Operator, 2} |-> User(<<>>)]

AssetsSetup ==
    [BaseSetup(AssetAccounts, Self(AssetAccounts), <<>>) EXCEPT
        !.asset[ETH] = NewEth, !.maxSteps = 6,
        !.inputs = [@ EXCEPT
            !.registerAsset = {[x |-> ETH, em |-> 4, config |-> AssetConfig(b)] : b \in BOOLEAN},
            !.updateAsset = {[x |-> x, config |-> AssetConfig(FALSE)] : x \in {ETH, LIT}}
                            \cup {[x |-> LIT, config |-> AssetConfig(TRUE)]},
            !.assetConfig = {[account |-> Operator, x |-> ETH, globalCap |-> n, userCap |-> 1] :
                                n \in {1, 2}},
            !.deposit = {[account |-> 2, x |-> ETH, spot |-> s, accepted |-> 1] : s \in BOOLEAN},
            !.accountAsset = {[account |-> 2, x |-> ETH]}]]

-----------------------------------------------------------------------------
(* Funding rounds.                                                          *)

RoundsSetup ==
    [BaseSetup(PerpsAccounts(Markets(1), 60, FALSE, 0), PerpsOwners, Traded(Markets(1))) EXCEPT
        !.maxTime = 13, !.maxSteps = 7,
        !.inputs = [@ EXCEPT
            !.block = {[QuietBlock(dt) EXCEPT !.premium = b] : dt \in {1, 2, 3}, b \in BOOLEAN},
            !.impact = {[k |-> 1, bid |-> 6, ask |-> 6], [k |-> 1, bid |-> 2, ask |-> 0]},
            !.perps = {PerpsInput(2, 3, 1, TRUE, 1, 4, 0, 0, 0)}]]

-----------------------------------------------------------------------------
(* Keys and integrators.  2 has an API key, and the index that stays empty; *)
(* 3, 4 and its own sub account 10 are integrators, one more than it can    *)
(* approve.                                                                 *)

KeyAccounts ==
    [j \in {2, 3, 4, 10, 12, 13} |->
        CASE j = 10 -> [User(<<>>) EXCEPT !.type = SUB_ACCOUNT]
          [] j = 12 -> FundOf(<<>>, 1)
          [] j = 13 -> PoolAccount(User(<<>>), STAKING_POOL, 1, 1)
          [] OTHER -> User(<<>>)]

KeyOwners ==
    [j \in DOMAIN KeyAccounts |->
        CASE j = 10 -> 2 [] j = 12 -> Operator [] j = 13 -> Treasury [] OTHER -> j]

Perps(n) == [NoFees EXCEPT !.perps = n]

KeySystem == [StakingSystem EXCEPT !.cap = Perps(3)]

Message(type, key, pk, nonce) ==
    [type |-> type, account |-> 2, key |-> key, pk |-> pk, owner |-> 2, nonce |-> nonce,
     expiredAt |-> 2, market |-> "none", skip |-> FALSE, who |-> Nobody, fee |-> 0,
     new |-> NoKey, approval |-> NoApproval]

OrderMessage(nonce, who, fee, skip) ==
    [Message("l2_create_order", 1, "a", nonce) EXCEPT
        !.market = "perps", !.who = who, !.fee = fee, !.skip = skip]

KeyMessages ==
    {Message("l2_cancel_all_orders", 1, "a", n) : n \in 0 .. 4}
    \cup {OrderMessage(n, 3, fee, FALSE) : n \in 0 .. 4, fee \in {1, 3}}
    \cup {OrderMessage(2, Nobody, 0, TRUE), OrderMessage(4, Nobody, 0, TRUE),
          OrderMessage(0, Nobody, 1, FALSE)}
    \cup {[Message("l2_change_pub_key", i, pk, n) EXCEPT !.new = pk, !.owner = o] :
            i \in {1, 2}, pk \in {"a", "b", NoKey}, n \in {0, 1}, o \in {2, 3}}

ApprovalMessages ==
    {[Message("l2_approve_integrator", 1, "a", n) EXCEPT
        !.approval = [who |-> w, fee |-> Perps(g[1]), expiry |-> g[2]]] :
            n \in 0 .. 4, w \in {3, 4, 10}, g \in {<<2, 1>>, <<3, 2>>, <<0, 0>>}}
    \cup {[Message("l2_approve_integrator", 1, "a", 0) EXCEPT !.owner = 3,
            !.approval = [who |-> w, fee |-> Perps(n), expiry |-> 1]] : w \in {3, 10}, n \in {0, 4, 1}}

KeysSetup ==
    [BaseSetup(KeyAccounts, KeyOwners, <<>>) EXCEPT
        !.system = KeySystem, !.maxTime = 2, !.maxSteps = 5,
        !.keys = [j \in {2} |-> [i \in {1, 2} |-> [pk |-> IF i = 1 THEN "a" ELSE NoKey, nonce |-> 0]]],
        !.inputs = [@ EXCEPT
            !.l2 = KeyMessages \cup ApprovalMessages,
            !.l1Key = {[account |-> 2, master |-> o, key |-> 1, new |-> pk] :
                        o \in {2, 3}, pk \in {"a", "b"}},
            !.systemConfig = {[KeySystem EXCEPT !.cap = Perps(1)], [KeySystem EXCEPT !.cap = Perps(9)]},
            !.block = {QuietBlock(1)}]]

-----------------------------------------------------------------------------
(* ETH, lent by 2, is updated once more.                                    *)

UpdatedAssetSetup ==
    [TransfersSetup EXCEPT
        !.inputs = [NoInputs EXCEPT
            !.updateAsset = {[x |-> ETH, config |-> AssetConfig(TRUE)]},
            !.transfer = TransfersSetup.inputs.transfer,
            !.withdraw = TransfersSetup.inputs.withdraw]]

UpdatedAssetSetups == [updated_asset |-> UpdatedAssetSetup]

-----------------------------------------------------------------------------
ExchangeSetups ==
    [transfers |-> TransfersSetup, pools |-> PoolsSetup, staking |-> StakingSetup,
     cross |-> CrossSetup, isolated |-> PerpsSetup(TRUE, 16, 20),
     terms |-> TermsSetup, funds |-> FundsSetup, spot |-> SpotSetup, assets |-> AssetsSetup,
     rounds |-> RoundsSetup, keys |-> KeysSetup]
=============================================================================
