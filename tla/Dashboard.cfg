SPECIFICATION FairSpec

CONSTANTS
    volatility_shock = volatility_shock
    flash_crash = flash_crash
    Scenarios <- MCScenarios
    DefaultScenario = volatility_shock
    Result <- MCResult
    CB_THRESHOLD = 700000
    RISK_SCORE_MAX = 1000000
    None = None
    MaxRequests = 2
    MaxDue = 3

INVARIANTS
    OneRunAtATime
    CardsAgree
    FeedIsCurrent
    VerifiedIsConfirmed

PROPERTIES
    RunEnds
    VerifyingEnds
