SPECIFICATION Spec
CONSTANTS
    Handlers = {h1, h2}
    Users = {u1, u2}
    u1 = u1
    u2 = u2
    NoSubject = NoSubject
    ApiKeyUser = u1
    Credentials <- MCCredentials
    Watched = u1
    Limit = 2
    Window = 2
    MaxStale = 2
    Names = {"lookup"}
    DefaultTools = {}
    Tools = {x, y}
    Builtin = Builtin
    None = None
SYMMETRY Symmetry
INVARIANTS TypeOK BurstBounded FirstRegistrationStands
PROPERTIES RejectionJustified OnlyAdminsRegister
