SPECIFICATION OpenedSpec
CONSTANTS
    Early = {e1}
    Near = {m1}
    Global = {}
    Far = {}
    FirstModel = M1
    SecondModel = M2
    NoModel = none
    Caller = {c1, c2}
    Worker = w
    Nobody = nobody
    Node = {n1, n2, n3, n4}
    Size = {1}
    MaxCacheBytes = 1
    Clobber = FALSE
    MaxQueued = 2
    NLayers = 5
    FileSize = 2
    ChunkSize = 1
    UInt = 16
    MaxOpens = 1
    Operations = {"resolve", "set_active"}
    Page <- Pages
    Registered <- Pages
    Model <- Models
    Request <- Requests
    Priority <- PriorityOf
    ModelOf <- ModelOfPage
    LayerOf <- LayerOfPage
    SizeOf <- SizeOfPage
    EndOf <- EndOfPage
SYMMETRY Symmetric
INVARIANTS PageShowsItsBytes ResidentIsActive BuffersPrivate
PROPERTY KeepsWindow
