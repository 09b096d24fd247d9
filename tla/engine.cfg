SPECIFICATION FairSpec
CONSTANTS
    Adapter = "postgres"
    StoreErrors = TRUE
    MaxSteps = 3
    MaxAttempts = 3
    BaseDelay = 4
    MaxDelay = 5
    MaxCalls = 2
INVARIANTS ToolsJoined ConversationGrammar VerdictsBalanced RetriesCounted StatusJustified
           BackoffBounded TraceComplete
PROPERTIES ImplementsRun Terminates
