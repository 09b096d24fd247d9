SPECIFICATION Spec
CONSTANTS
    Adapter = "postgres"
    QueueKind = "immediate"
    QueueSize = 1
    Requests = {r1, r2, r3}
    UuidRequests = {r1, r2, r3}
    StoredForm = {r1, r2, r3}
    Workers = {w1, w2}
    Agents = {a1, a2}
    AgentOf <- OtherAgent
    KeyOf <- MCKeyOf
    ConvOf <- MCConvOf
    MaxVersion = 1
    Environment = {"delete", "cancel", "crash"}
    None = None
    r1 = r1
    r2 = r2
    r3 = r3
    a1 = a1
    a2 = a2
INVARIANT ConversationMatches
PROPERTY RefusalsExplained
CHECK_DEADLOCK FALSE
