---------------------------- MODULE MCPageCache ----------------------------
(* PageCache on a few pages, with the abstract cache it implements. *)
EXTENDS PageCache, TLC

Interchangeable == Permutations(Page) \cup Permutations(Node)

VARIABLES
    latest,      \* the page of the last hit or insertion, unless it was evicted
    reloaded     \* a page was inserted while it was resident

MCInit == CacheInit /\ latest = {} /\ reloaded = FALSE

MCNext ==
    \/ \E p \in Page :
          /\ Get(p)
          /\ latest' = IF CachedPage(p) THEN {p} ELSE latest
          /\ UNCHANGED reloaded
    \/ \E p \in Page : Evict(p) /\ latest' = latest \ {p} /\ UNCHANGED reloaded
    \/ \E p \in Page, n \in Node, size \in Size :
          /\ Insert(p, n, size)
          /\ latest' = {p}
          /\ reloaded' = (reloaded \/ CachedPage(p))

MCSpec == MCInit /\ [][MCNext]_<<cacheVars, latest, reloaded>>

\* The pages mapped to a node in front of p's.
UsedAfter(p) ==
    {q \in DOMAIN cache_map_ :
        \E i, j \in Places : PlaceOf(q, i) /\ PlaceOf(p, j) /\ i < j}

Promise == INSTANCE LRUCache WITH
    Pages    <- Page,
    Sizes    <- Size,
    Limit    <- MaxCacheBytes,
    resident <- [p \in DOMAIN cache_map_ |-> entry[cache_map_[p]].size],
    newer    <- [p \in DOMAIN cache_map_ |-> UsedAfter(p)],
    latest   <- latest,
    void     <- reloaded

(* Until a caller inserts a resident page, every step of the list, the map  *)
(* and the byte count is a step of a byte-bounded LRU cache                 *)
(* (paging_manager.h:39).                                                   *)
IsLRUCache == Promise!Spec

=============================================================================
