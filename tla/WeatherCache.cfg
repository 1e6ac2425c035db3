\* Two workers that fail, stop and start as they like, over three refresh intervals.
CONSTANTS
    Worker = {w1, w2}
    RefreshEvery = 3
    MaxAge = 7
    Latency = 1
    Period = 2
    Horizon = 10
    None = None
SYMMETRY MCSymmetry
SPECIFICATION Spec
INVARIANTS
    TypeOK
    HealthyIsFresh
    HonestAge
PROPERTY
    LittleRegression
CHECK_DEADLOCK FALSE
