SPECIFICATION Spec
CONSTANTS
    Adapters = {"memory", "postgres"}
    Clients = {c1, c2}
    AgentIds = {a1, a2}
    Names = {"n1", "n2"}
    Contents = {x, y}
    MaxVersion = 3
SYMMETRY Symmetry
INVARIANTS VersionsContiguous AcknowledgedVersionsKept
PROPERTIES DeletedStaysDeleted ImplementsHistory
CHECK_DEADLOCK FALSE
