SPECIFICATION Spec

CONSTANTS
    u1 = u1
    u2 = u2
    Users <- MCUsers
    NoKey = NoKey
    None = None
    EmptyBook = EmptyBook
    DemoBook = DemoBook
    FirstSlot = 1
    MaxSlot = 5
    U64_MAX = 1999999999
    SCALE = 1
    RISK_SCORE_MAX = 10
    DEFAULT_CB_THRESHOLD = 7
    MAX_PROOF_AGE_SLOTS = 2
    CB_RESET_TIMELOCK_SLOTS = 4
    DEFAULT_GOVERNANCE_TIMELOCK_SLOTS = 2
    MOCK_VERIFY = FALSE
    StressScore <- MCStressScore
    TARGET_EXPO = 0
    PythFeeds <- MCOddFeeds
    SnapshotPrices <- MCOddPrices
    SnapshotFunds <- MCCalmFunds
    LeverageChoices = {0, 20}
    MaintenanceChoices = {}
    TargetChoices = {}
    TimelockChoices = {3, 1999999999}
    ThresholdChoices = {}
    RewardChoices = {1}
    IntervalChoices = {2}
    FundingChoices = {1}
    InitialLamports = 1

SYMMETRY MCSymmetry

INVARIANTS
    TypeOK
    CompleteUntilLapse

PROPERTIES
    PayoutsSpaced
    ParamChangesSpaced
    FreezeIsPermanent
