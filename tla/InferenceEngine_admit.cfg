SPECIFICATION Spec
CONSTANTS
    Client = {c1, c2}
    PromptTokens = 2
    MaxTokens = 2
    CallbacksThrow = FALSE
INVARIANT OneGeneration
