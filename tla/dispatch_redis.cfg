SPECIFICATION Spec
CONSTANTS
    Adapter = "postgres"
    QueueKind = "redis"
    QueueSize = 1
    Requests = {r1, r2, r3}
    UuidRequests = {r1, r2, r3}
    StoredForm = {r1, r2, r3}
    Workers = {w1, w2}
    Agents = {a1}
    AgentOf <- OneAgent
    KeyOf <- MCKeyOf
    ConvOf <- MCConvOf
    MaxVersion = 1
    Environment = {"delete", "cancel", "crash", "store",
                   "push_failed", "push_unacknowledged", "push_repeated", "pop_lost"}
    None = None
    r1 = r1
    r2 = r2
    r3 = r3
    a1 = a1
    a2 = a2
SYMMETRY Symmetry
INVARIANTS PersistedBeforePushed Conserved IdempotentAnswers OneWorkerClaims
PROPERTIES TerminalStable RunsOnce
CHECK_DEADLOCK FALSE
