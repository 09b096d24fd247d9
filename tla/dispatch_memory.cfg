SPECIFICATION FairSpec
CONSTANTS
    Adapter = "memory"
    QueueKind = "immediate"
    QueueSize = 1
    Requests = {r1, r2, r3}
    UuidRequests = {r1, r2, r3}
    StoredForm = {r1, r2, r3}
    Workers = {w1}
    Agents = {a1, a2}
    AgentOf <- OtherAgent
    KeyOf <- MCKeyOf
    ConvOf <- NewConvs
    MaxVersion = 2
    Environment = {"update", "delete", "cancel"}
    None = None
    r1 = r1
    r2 = r2
    r3 = r3
    a1 = a1
    a2 = a2
PROPERTIES EveryRequestAnswered EveryExecutionEnds
CHECK_DEADLOCK FALSE
