----------------------------- MODULE PageCache -----------------------------
(***************************************************************************)
(* The LRU cache of resident pages: class PageCache of                     *)
(* engine/paging_manager.{h,cpp}.                                          *)
(*                                                                         *)
(* Every public operation runs under mutex_ from its first line to its     *)
(* last, so each is one step.  A Node is the identity of an allocation:    *)
(* the list node of lru_list_ together with the page buffer it owns, which *)
(* the list frees with it.  A Node outside the list is free memory, and an *)
(* allocation may reuse it.  A list iterator is the Node it points to.     *)
(***************************************************************************)
EXTENDS Integers, Sequences, FiniteSets, Functions

CONSTANTS
    Page,            \* page ids
    Node,            \* allocations: a list node and the buffer it owns
    Size,            \* the page sizes insert is called with
    MaxCacheBytes,   \* max_cache_bytes_
    Clobber          \* may a freed list node be overwritten before it is read?

ASSUME PageCacheAssumption ==
    /\ Size \subseteq Nat \ {0}
    /\ MaxCacheBytes \in Nat
    /\ Clobber \in BOOLEAN

VARIABLES
    lru_list_,            \* nodes, most recently used first
    entry,                \* node of the list -> what its CacheEntry holds
    cache_map_,           \* resident page -> iterator into lru_list_
    current_cache_bytes_

cacheVars == <<lru_list_, entry, cache_map_, current_cache_bytes_>>

CacheEntry == [page_id : Page, size : Size]

Places == 1..Len(lru_list_)
Live == {lru_list_[i] : i \in Places}

CacheInit ==
    /\ lru_list_ = <<>>
    /\ entry = [n \in {} |-> 0]
    /\ cache_map_ = [p \in {} |-> 0]
    /\ current_cache_bytes_ = 0

-----------------------------------------------------------------------------
\* The bytes of the entries at the given places of the list.
Weight(places) == SumFunctionOnSet([i \in Places |-> entry[lru_list_[i]].size], places)

Without(i) == SubSeq(lru_list_, 1, i - 1) \o SubSeq(lru_list_, i + 1, Len(lru_list_))

\* it->second is place i of the list.
PlaceOf(p, i) == p \in DOMAIN cache_map_ /\ lru_list_[i] = cache_map_[p]

\* Mutants of Touch: the node goes to the back; a hit moves nothing.
TouchToBack(i) == lru_list_' = Without(i) \o <<lru_list_[i]>>
TouchNothing(i) == UNCHANGED lru_list_

\* touch: splice the node to the front.
Touch(i) == lru_list_' = <<lru_list_[i]>> \o Without(i)

\* Mutant of RemoveNode: the node leaves the list and is not freed.
RemoveNodeLeaks(i) ==
    /\ current_cache_bytes_' = current_cache_bytes_ - entry[lru_list_[i]].size
    /\ lru_list_' = Without(i)
    /\ UNCHANGED entry

\* remove: subtract the size, free the node.
RemoveNode(i) ==
    /\ current_cache_bytes_' = current_cache_bytes_ - entry[lru_list_[i]].size
    /\ lru_list_' = Without(i)
    /\ entry' = Restrict(entry, Live \ {lru_list_[i]})

\* The pointer get returns: the buffer of the node mapped to p, if there is one.
Lookup(p) == IF p \in DOMAIN cache_map_ THEN {cache_map_[p]} ELSE {}

\* A hit makes the page the most recently used, a miss changes nothing.  What
\* follows the dereference of an iterator to a freed node has no defined
\* behaviour and no step here.
Get(p) ==
    /\ \/ \E i \in Places : PlaceOf(p, i) /\ Touch(i)
       \/ p \notin DOMAIN cache_map_ /\ UNCHANGED lru_list_
    /\ UNCHANGED <<entry, cache_map_, current_cache_bytes_>>

CachedPage(p) == p \in DOMAIN cache_map_

\* Mutant of Evict: the map keeps the iterator.
EvictForgetsMap(p) ==
    /\ \/ \E i \in Places : PlaceOf(p, i) /\ RemoveNode(i)
       \/ /\ p \notin DOMAIN cache_map_
          /\ UNCHANGED <<lru_list_, entry, current_cache_bytes_>>
    /\ UNCHANGED cache_map_

Evict(p) ==
    /\ \/ /\ \E i \in Places : PlaceOf(p, i) /\ RemoveNode(i)
          /\ cache_map_' = Restrict(cache_map_, DOMAIN cache_map_ \ {p})
       \/ /\ p \notin DOMAIN cache_map_
          /\ UNCHANGED cacheVars

\* Mutant of FitsWith: room is made without the page that enters.
FitsIgnoringNew(kept, needed) ==
    \/ kept = 0
    \/ current_cache_bytes_ - Weight(kept + 1 .. Len(lru_list_)) <= MaxCacheBytes

\* The condition that ends evict_to_fit's loop once the entries behind the
\* first `kept` ones are gone.
FitsWith(kept, needed) ==
    \/ kept = 0
    \/ current_cache_bytes_ - Weight(kept + 1 .. Len(lru_list_)) + needed
          <= MaxCacheBytes

\* Mutant of Behind: the map keeps the first page that is evicted.
BehindButOne(kept) == {entry[lru_list_[i]].page_id : i \in kept + 2 .. Len(lru_list_)}

\* The pages of the entries behind the first `kept` ones.
Behind(kept) == {entry[lru_list_[i]].page_id : i \in kept + 1 .. Len(lru_list_)}

\* evict_to_fit drops entries from the back until the rest fits.  It erases
\* from the map the page id it reads from the node it has just freed: `lost`
\* are the pages whose id no longer is what it reads.
EvictToFit(needed, kept, lost) ==
    /\ FitsWith(kept, needed)
    /\ \A more \in kept + 1 .. Len(lru_list_) : ~FitsWith(more, needed)
    /\ lost # {} => Clobber

\* insert: whatever the page was mapped to before, the map now has the new node.
Insert(p, n, size) ==
    /\ n \notin Live
    /\ \E kept \in 0..Len(lru_list_) : \E lost \in SUBSET Behind(kept) :
          LET remembered == DOMAIN cache_map_ \ (Behind(kept) \ lost)
              survivors  == {lru_list_[i] : i \in 1..kept}
          IN
          /\ EvictToFit(size, kept, lost)
          /\ lru_list_' = <<n>> \o SubSeq(lru_list_, 1, kept)
          /\ entry' = [m \in survivors \cup {n} |->
                          IF m = n THEN [page_id |-> p, size |-> size] ELSE entry[m]]
          /\ cache_map_' = [q \in remembered \cup {p} |->
                               IF q = p THEN n ELSE cache_map_[q]]
          /\ current_cache_bytes_' =
                current_cache_bytes_ - Weight(kept + 1 .. Len(lru_list_)) + size

-----------------------------------------------------------------------------
CacheNext ==
    \/ \E p \in Page : Get(p)
    \/ \E p \in Page : Evict(p)
    \/ \E p \in Page, n \in Node, size \in Size : Insert(p, n, size)

CacheSpec == CacheInit /\ [][CacheNext]_cacheVars

-----------------------------------------------------------------------------
CacheTypeOK ==
    /\ lru_list_ \in Seq(Node)
    /\ entry \in [Live -> CacheEntry]
    /\ DOMAIN cache_map_ \subseteq Page
    /\ \A p \in DOMAIN cache_map_ : cache_map_[p] \in Node

(* get's "pointer to resident memory" (paging_manager.h:48): every iterator *)
(* of the map is a node of the list, and the node holds that very page; no  *)
(* node is in the list twice.                                               *)
MapSound ==
    /\ \A p \in DOMAIN cache_map_ :
          \E i \in Places : PlaceOf(p, i) /\ entry[lru_list_[i]].page_id = p
    /\ \A i, j \in Places : lru_list_[i] = lru_list_[j] => i = j

(* Two loads of one page leave two nodes and one map entry.  The node the   *)
(* map forgot always lies behind the one it points to, so evicting it from  *)
(* the back erases the entry of a newer node, never a node the map keeps.   *)
OrphansBehind ==
    \A i, j \in Places :
        (/\ entry[lru_list_[i]].page_id = entry[lru_list_[j]].page_id
         /\ i < j)
        => ~PlaceOf(entry[lru_list_[j]].page_id, j)

(* "until total cache size is below limit" (paging_manager.h:60): the byte  *)
(* count is the weight of the list, orphans included, and passes the limit  *)
(* only when a single page does.                                            *)
CacheBounded ==
    /\ current_cache_bytes_ = Weight(Places)
    /\ current_cache_bytes_ <= MaxCacheBytes \/ Len(lru_list_) = 1

=============================================================================
