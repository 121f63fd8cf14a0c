SPECIFICATION MCSpec
CONSTANTS
    Page = {p1, p2, p3}
    Node = {n1, n2, n3, n4, n5, n6}
    Size = {1, 2, 6}
    MaxCacheBytes = 5
    Clobber = FALSE
SYMMETRY Interchangeable
INVARIANTS CacheTypeOK MapSound OrphansBehind CacheBounded
PROPERTY IsLRUCache
