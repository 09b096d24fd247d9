SPECIFICATION FairSpec
CONSTANTS
    Callers = {c1, c2, c3, c4}
    Threshold = 5
    ResetTimeout = 3
INVARIANTS OpenIffThreshold OvershootBounded
PROPERTY Recovers
