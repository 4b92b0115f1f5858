SPECIFICATION PipelineFairSpec

CONSTANTS
    u1 = u1
    u2 = u2
    Users <- MCUsers
    NoKey = NoKey
    None = None
    EmptyBook = EmptyBook
    DemoBook = DemoBook
    FirstSlot = 1
    MaxSlot = 3
    U64_MAX = 1999999999
    SCALE = 1
    RISK_SCORE_MAX = 10
    DEFAULT_CB_THRESHOLD = 7
    MAX_PROOF_AGE_SLOTS = 1
    CB_RESET_TIMELOCK_SLOTS = 4
    DEFAULT_GOVERNANCE_TIMELOCK_SLOTS = 2
    MOCK_VERIFY = TRUE
    StressScore <- MCStressScore
    TARGET_EXPO = 0
    PythFeeds <- MCPipelineFeeds
    SnapshotPrices <- MCPipelinePrices
    SnapshotFunds <- MCCalmFunds
    LeverageChoices = {}
    MaintenanceChoices = {}
    TargetChoices = {}
    TimelockChoices = {}
    ThresholdChoices = {}
    RewardChoices = {1}
    IntervalChoices = {1}
    FundingChoices = {1}
    InitialLamports = 1
    Operator = u1
    MaxFaults = 1
    MaxRefreshes = 1

INVARIANTS
    CompleteMeansAccepted
    SetupRepairsBook
    CacheIsClean

PROPERTIES
    ProgramRefined
    AcceptedScoreIsLive
    FirstProofLands
