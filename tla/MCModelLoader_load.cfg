SPECIFICATION MCSpec
CONSTANTS
    FirstModel = M1
    SecondModel = M2
    NoModel = none
    Loader = main
    Caller = {main}
    Worker = w
    Nobody = nobody
    Node = {n1, n2}
    Size = {1}
    MaxCacheBytes = 1
    Clobber = FALSE
    MaxQueued = 2
    NLayers = 2
    FileSize = 2
    ChunkSize = 1
    UInt = 16
    MaxOpens = 2
    MaxCalls = 2
    StringBytes = 9
    Registered = {}
    Operations = {"open", "register", "prefetch", "set_active", "destroy"}
    Page <- Pages
    Model <- Models
    Request <- Requests
    Priority <- PriorityOf
    ModelOf <- ModelOfPage
    LayerOf <- LayerOfPage
    SizeOf <- SizeOfPage
    EndOf <- EndOfPage
    TensorsOf <- Tensors
    MetadataOf <- Metadata
    Occurs <- OccursIn
INVARIANTS WalksAgree RegistriesAgree PagesOfOpenModel FailedLoadLeavesNothing
PROPERTIES NeededArrive LoadReturns

CHECK_DEADLOCK FALSE
