SPECIFICATION Spec
CONSTANTS
    Client = {c1, c2}
    PromptTokens = 2
    MaxTokens = 2
    CallbacksThrow = TRUE
INVARIANTS TypeOK EveryResultTold BusyHasOwner
PROPERTIES CancelEnds CallsReturn
