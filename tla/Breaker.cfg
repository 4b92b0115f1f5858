SPECIFICATION PerpFairSpec

CONSTANTS
    MaxAge = 3
    ResetTimelock = 6
    ONE_X = 2
    InitialLeverages = {0, 9, 20}

INVARIANTS
    CutsOnEvidence

PROPERTIES
    WatchedDangerHalts
    CalmRecovers
    DangerDeleverages
