SPECIFICATION Spec

CONSTANTS
    u1 = u1
    u2 = u2
    Users <- MCUsers
    NoKey = NoKey
    None = None
    EmptyBook = EmptyBook
    DemoBook = DemoBook
    FirstSlot = 1
    MaxSlot = 8
    U64_MAX = 1999999999
    SCALE = 1
    RISK_SCORE_MAX = 10
    DEFAULT_CB_THRESHOLD = 7
    MAX_PROOF_AGE_SLOTS = 3
    CB_RESET_TIMELOCK_SLOTS = 4
    DEFAULT_GOVERNANCE_TIMELOCK_SLOTS = 2
    MOCK_VERIFY = FALSE
    StressScore <- MCStressScore
    TARGET_EXPO = 0
    PythFeeds <- MCFeeds
    SnapshotPrices <- MCPrices
    SnapshotFunds <- MCFunds
    LeverageChoices = {}
    MaintenanceChoices = {}
    TargetChoices = {}
    TimelockChoices = {}
    ThresholdChoices = {}
    RewardChoices = {}
    IntervalChoices = {}
    FundingChoices = {}
    InitialLamports = 0

PROPERTY OraclePriceInMicrodollars
