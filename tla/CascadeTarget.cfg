SPECIFICATION SolvencyFairSpec

CONSTANTS
    Snapshots <- DefaultSnapshots
    Shocks <- MCShocks
    ImpactBlock = 1000
    U64_MAX = 19999999
    RISK_SCORE_MAX = 100

PROPERTY TargetReached

CHECK_DEADLOCK FALSE
