SPECIFICATION ProtocolSpec

CONSTANTS
    u1 = u1
    u2 = u2
    Users <- MCUsers
    NoKey = NoKey
    None = None
    EmptyBook = EmptyBook
    DemoBook = DemoBook
    FirstSlot = 1
    MaxSlot = 3
    U64_MAX = 1999999999
    SCALE = 1
    RISK_SCORE_MAX = 10
    DEFAULT_CB_THRESHOLD = 7
    MAX_PROOF_AGE_SLOTS = 1
    CB_RESET_TIMELOCK_SLOTS = 1
    DEFAULT_GOVERNANCE_TIMELOCK_SLOTS = 2
    MOCK_VERIFY = FALSE
    StressScore <- MCStressScore
    TARGET_EXPO = 0
    PythFeeds <- MCProtocolFeeds
    SnapshotPrices <- MCBreakerPrices
    SnapshotFunds <- MCCalmFunds
    LeverageChoices = {}
    MaintenanceChoices = {}
    TargetChoices = {}
    TimelockChoices = {}
    ThresholdChoices = {3}
    RewardChoices = {}
    IntervalChoices = {}
    FundingChoices = {}
    InitialLamports = 0
    ONE_X = 1
    InitialLeverages = {0, 5}
    AlarmScore = 3
    Polls = {p1}

SYMMETRY MCSymmetry

PROPERTIES
    PerpRefined
    ServiceRefined
