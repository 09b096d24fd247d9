SPECIFICATION FairSpec
CONSTANTS
    Handlers = {h1, h2}
    Workers = {w1, w2}
    QueueSize = 1
INVARIANTS TypeOK DrainedBeforeClosed
PROPERTY StopsEventually
CHECK_DEADLOCK FALSE
