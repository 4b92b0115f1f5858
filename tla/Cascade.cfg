SPECIFICATION SolvencyFairSpec

CONSTANTS
    Snapshots <- MCSnapshots
    Shocks <- MCShocks
    ImpactBlock = 1000
    U64_MAX = 19999999
    RISK_SCORE_MAX = 100

INVARIANTS
    TypeOK
    UntouchedUnlessLiquidated
    Settled
    DeficitsCharged
    NoLiquidationNoRisk

PROPERTIES
    NothingGrows
    StepsMakeProgress
    CascadeEnds

CHECK_DEADLOCK FALSE
