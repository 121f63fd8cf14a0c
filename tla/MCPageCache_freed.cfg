SPECIFICATION MCSpec
CONSTANTS
    Page = {p1, p2, p3}
    Node = {n1, n2, n3, n4}
    Size = {1, 2, 5}
    MaxCacheBytes = 4
    Clobber = TRUE
SYMMETRY Interchangeable
INVARIANT MapSound
