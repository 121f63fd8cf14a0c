SPECIFICATION ClosedSpec
CONSTANTS
    Early = {}
    Near = {m1}
    Global = {}
    Far = {f1}
    FirstModel = M1
    SecondModel = M1
    NoModel = none
    Caller = {c1}
    Worker = w
    Nobody = nobody
    Node = {n1, n2, n3}
    Size = {1}
    MaxCacheBytes = 1
    Clobber = FALSE
    MaxQueued = 1
    NLayers = 5
    FileSize = 2
    ChunkSize = 1
    UInt = 16
    MaxOpens = 1
    Operations = {"open", "close", "register", "resolve", "prefetch",
                  "set_active", "evict", "destroy"}
    Page <- Pages
    Registered = {f1}
    Model <- Models
    Request <- Requests
    Priority <- PriorityOf
    ModelOf <- ModelOfPage
    LayerOf <- LayerOfPage
    SizeOf <- SizeOfPage
    EndOf <- EndOfPage
SYMMETRY Symmetric
INVARIANT TypeOK
CHECK_DEADLOCK FALSE
