SPECIFICATION Spec
CONSTANTS
    Lanes = 2
    UInt = 32
    NVocab = 4
    One = 6
    Files <- Shapes
INVARIANTS ReadsAreWhole AccessesInside TopKIsByRank NucleusIsSmallest DrawsKeptTokens
CHECK_DEADLOCK FALSE
