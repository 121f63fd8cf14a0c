SPECIFICATION MCSpec
CONSTANTS
    High = {h1, h2}
    Low = {l1}
    Request <- AllRequests
    Priority <- Level
    MaxQueued = 2
    MaxCalls = 5
PROPERTY DestructorReturns
CHECK_DEADLOCK FALSE
