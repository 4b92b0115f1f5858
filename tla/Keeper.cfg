SPECIFICATION FairSpec

CONSTANTS
    Scores = {0, 184118, 1000000}
    RISK_SCORE_MAX = 1000000
    Thresholds = {100000, 700000}
    AlarmScore = 7000
    Polls = {p1, p2}

INVARIANTS
    AlarmOnlyUntripped

PROPERTIES
    GaugesCatchUp
    AlarmSounds
