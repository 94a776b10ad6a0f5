SPECIFICATION Spec
CONSTANTS
    USDC = usdc
    LIT = lit
    ETH = eth
    NoAccount = 99
    USDC_TO_COLLATERAL_MULTIPLIER = 8
    MARGIN_TICK = 8
    MARGIN_FRACTION_MULTIPLIER = 1
    ASSET_MARGIN_TICK = 8
    FEE_TICK = 8
    SHARE_TICK = 8
    MAX_ORDER_PRICE = 100
    MAX_PENDING_UNLOCKS = 2
    INITIAL_POOL_SHARE_VALUE = 1
    MAX_POOL_SHARES = 8
    SHARES_LIST_SIZE = 2
    LIT_TO_MINT_SHARES_MULTIPLIER = 1
    USDC_TO_LIT_CONVERSION_RATE = 1
    TREASURY_ACCOUNT_INDEX = 0
    INSURANCE_FUND_OPERATOR_ACCOUNT_INDEX = 1
    MAX_MASTER_ACCOUNT_INDEX = 9
    NB_STRATEGIES = 3
    MAX_FLOW = 1
    MAX_INITIAL_TOTAL_SHARES = 8
    MIN_INITIAL_TOTAL_STAKING_SHARES = 1
    MAX_POSITION_SIZE = 4
    MAX_ENTRY_QUOTE = 100
    MAX_INTEGRATOR_FEE_AMOUNT = 100
    MAX_DELEVERAGE_QUOTE = 100
    MAX_QUOTE_MULTIPLIER = 2
    MARGINED_ASSET_LIST_SIZE = 3
    FUNDING_RATE_TICK = 32
    FUNDING_PREMIUM_MULTIPLIER_TICK = 2
    MAX_COOLDOWN_PERIOD = 2
    MAX_LOCKUP_PERIOD = 2
    MINUTE_IN_MS = 2
    HOUR_IN_MS = 6
    MAX_PREMIUM_SAMPLE_COUNT = 3
    MARKET_OPEN_INTEREST_NOTIONAL = 100
    NoKey = "none"
    Nobody = 0
    NIL_API_KEY_INDEX = 2
    MAX_SKIP_NONCE_CAP = 2
    MAX_APPROVED_INTEGRATORS = 2
    Setups <- UpdatedAssetSetups
INVARIANT SupplyIsCounted
CHECK_DEADLOCK FALSE
