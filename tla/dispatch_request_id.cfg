SPECIFICATION Spec
CONSTANTS
    Adapter = "postgres"
    QueueKind = "redis"
    QueueSize = 1
    Requests = {r1}
    UuidRequests = {}
    StoredForm = {r1}
    Workers = {w1}
    Agents = {a1}
    AgentOf <- OneAgent
    KeyOf <- MCKeyOf
    ConvOf <- MCConvOf
    MaxVersion = 1
    Environment = {}
    None = None
    r1 = r1
    r2 = r2
    r3 = r3
    a1 = a1
    a2 = a2
PROPERTY RefusalsExplained
CHECK_DEADLOCK FALSE
