--------------------------- MODULE LRUCacheProofs ---------------------------
(***************************************************************************)
(* PageCache implements LRUCache: until a caller inserts a page that is    *)
(* resident, every step of the list, the map and the byte count is a step  *)
(* of a cache that orders pages by their last use and makes no more room   *)
(* than it has to, for every set of pages, nodes and sizes and every limit.*)
(***************************************************************************)
EXTENDS MCPageCache, PageCacheProofs

mcVars == <<cacheVars, latest, reloaded>>

PageAt(i) == entry[lru_list_[i]].page_id

\* Every node of the list is its page's only one.
NoOrphans == \A i \in Places : PlaceOf(PageAt(i), i)

\* Where a page is in the list.
pos == [q \in DOMAIN cache_map_ |-> CHOOSE i \in Places : PlaceOf(q, i)]

\* Pages and places correspond one to one.
Placed ==
    /\ \A q \in DOMAIN cache_map_ :
          /\ pos[q] \in Places /\ PageAt(pos[q]) = q
          /\ cache_map_[q] = lru_list_[pos[q]]
          /\ UsedAfter(q) = {r \in DOMAIN cache_map_ : pos[r] < pos[q]}
    /\ \A i \in Places : PageAt(i) \in DOMAIN cache_map_ /\ pos[PageAt(i)] = i

LEMMA EachPagePlaced == CacheInv /\ NoOrphans => Placed
<1> SUFFICES ASSUME CacheInv, NoOrphans PROVE Placed
  OBVIOUS
<1>1. \A i, j \in Places : lru_list_[i] = lru_list_[j] => i = j
  BY DEF CacheInv, MapSound
<1>2. ASSUME NEW q \in DOMAIN cache_map_, NEW i \in Places, PlaceOf(q, i)
      PROVE  pos[q] = i /\ PageAt(i) = q
  <2>1. PageAt(i) = q
    BY <1>2, PageOfMappedPlace DEF CacheInv, PageAt
  <2>2. \A j \in Places : PlaceOf(q, j) => j = i
    BY <1>1, <1>2 DEF PlaceOf
  <2> QED  BY <1>2, <2>1, <2>2 DEF pos
<1>3. ASSUME NEW q \in DOMAIN cache_map_
      PROVE  pos[q] \in Places /\ PageAt(pos[q]) = q /\ PlaceOf(q, pos[q])
  <2>1. PICK i \in Places : PlaceOf(q, i)
    BY DEF CacheInv, MapSound
  <2> QED  BY <1>2, <2>1
<1>4. ASSUME NEW q \in DOMAIN cache_map_
      PROVE  UsedAfter(q) = {r \in DOMAIN cache_map_ : pos[r] < pos[q]}
  <2>1. ASSUME NEW r \in UsedAfter(q) PROVE r \in DOMAIN cache_map_ /\ pos[r] < pos[q]
    <3>1. PICK i \in Places, j \in Places : PlaceOf(r, i) /\ PlaceOf(q, j) /\ i < j
      BY DEF UsedAfter
    <3>2. r \in DOMAIN cache_map_
      BY DEF UsedAfter
    <3>3. pos[r] = i /\ pos[q] = j
      BY <1>2, <3>1, <3>2
    <3> QED  BY <3>1, <3>2, <3>3
  <2>2. ASSUME NEW r \in DOMAIN cache_map_, pos[r] < pos[q] PROVE r \in UsedAfter(q)
    BY <1>3, <2>2 DEF UsedAfter
  <2> QED  BY <2>1, <2>2
<1>5. ASSUME NEW i \in Places PROVE PageAt(i) \in DOMAIN cache_map_ /\ pos[PageAt(i)] = i
  <2>1. PlaceOf(PageAt(i), i)
    BY DEF NoOrphans
  <2>2. PageAt(i) \in DOMAIN cache_map_
    BY <2>1 DEF PlaceOf
  <2> QED  BY <1>2, <2>1, <2>2
<1>6. ASSUME NEW q \in DOMAIN cache_map_ PROVE cache_map_[q] = lru_list_[pos[q]]
  BY <1>3 DEF PlaceOf
<1> QED  BY <1>3, <1>4, <1>5, <1>6 DEF Placed

-----------------------------------------------------------------------------
(* Operations. *)

\* A hit puts the page in front of the others and those before it one back.
LEMMA HitPlaces ==
    ASSUME CacheInv, NoOrphans, CacheInv', NEW p \in Page, Get(p), CachedPage(p)
    PROVE  /\ NoOrphans' /\ Len(lru_list_) \in Nat
           /\ UNCHANGED <<entry, cache_map_, current_cache_bytes_>>
           /\ \A q \in DOMAIN cache_map_ :
                 pos'[q] = IF q = p THEN 1
                           ELSE IF pos[q] < pos[p] THEN pos[q] + 1 ELSE pos[q]
<1>1. PICK i \in Places : PlaceOf(p, i) /\ Touch(i)
  BY DEF Get, CachedPage
<1>2. UNCHANGED <<entry, cache_map_, current_cache_bytes_>>
  BY DEF Get
<1>3. /\ Len(lru_list_') = Len(lru_list_)
      /\ \A j \in Places : lru_list_'[j] =
            IF j = 1 THEN lru_list_[i]
            ELSE IF j <= i THEN lru_list_[j - 1] ELSE lru_list_[j]
  BY <1>1, TouchPlaces DEF CacheInv
<1>4. Places' = Places /\ Len(lru_list_) \in Nat /\ i \in 1..Len(lru_list_)
      /\ Places = 1..Len(lru_list_)
  BY <1>1, <1>3, LenProperties DEF CacheInv, CacheTypeOK, Places
<1> DEFINE from(j) == IF j = 1 THEN i ELSE IF j <= i THEN j - 1 ELSE j
           to(j) == IF j = i THEN 1 ELSE IF j < i THEN j + 1 ELSE j
<1>5. \A j \in Places : from(j) \in Places /\ to(j) \in Places /\ from(to(j)) = j
                        /\ lru_list_'[j] = lru_list_[from(j)]
  BY <1>3, <1>4
<1> HIDE DEF from
<1>6. NoOrphans'
  <2>1. ASSUME NEW j \in Places' PROVE (PlaceOf(PageAt(j), j))'
    <3>1. j \in Places /\ from(j) \in Places /\ lru_list_'[j] = lru_list_[from(j)]
      BY <1>4, <1>5
    <3>2. PlaceOf(PageAt(from(j)), from(j))
      BY <3>1 DEF NoOrphans
    <3> QED  BY <1>2, <3>1, <3>2 DEF PlaceOf, PageAt
  <2> QED  BY <2>1 DEF NoOrphans
<1>7. Placed /\ Placed'
  BY <1>6, EachPagePlaced, PTL
<1>8. ASSUME NEW q \in DOMAIN cache_map_
      PROVE  pos'[q] = to(pos[q])
  <2>1. pos[q] \in Places /\ to(pos[q]) \in Places
        /\ lru_list_'[to(pos[q])] = lru_list_[pos[q]] /\ PageAt(pos[q]) = q
    BY <1>5, <1>7 DEF Placed
  <2>2. entry'[lru_list_'[to(pos[q])]].page_id = q
    BY <1>2, <2>1 DEF PageAt
  <2>3. \A j \in Places' : pos'[entry'[lru_list_'[j]].page_id] = j
    BY <1>7 DEF Placed, PageAt
  <2> QED  BY <1>4, <2>1, <2>2, <2>3
<1>9. pos[p] = i
  <2>1. PageAt(i) = p
    BY <1>1, PageOfMappedPlace DEF CacheInv, PageAt
  <2> QED  BY <1>7, <2>1 DEF Placed
<1>10. ASSUME NEW q \in DOMAIN cache_map_, q # p PROVE pos[q] # i /\ pos[q] \in Places
  BY <1>1, <1>7, <1>9, <1>10 DEF Placed, PlaceOf
<1> QED  BY <1>2, <1>4, <1>6, <1>8, <1>9, <1>10

Resident == [q \in DOMAIN cache_map_ |-> entry[cache_map_[q]].size]
Newer == [q \in DOMAIN cache_map_ |-> UsedAfter(q)]

\* The order of use, as places.
Ordered == Newer = [q \in DOMAIN cache_map_ |->
                       {r \in DOMAIN cache_map_ : pos[r] < pos[q]}]

LEMMA NewerByPlace == Placed => Ordered
BY DEF Newer, Placed, Ordered

LEMMA HitUses ==
    ASSUME CacheInv, NoOrphans, CacheInv', NEW p \in Page, Get(p), CachedPage(p),
           latest' = {p}
    PROVE  NoOrphans' /\ Promise!Use(p)
<1> DEFINE pages == DOMAIN cache_map_
<1>1. /\ NoOrphans' /\ UNCHANGED <<entry, cache_map_>> /\ p \in pages
      /\ \A q \in pages :
            pos'[q] = IF q = p THEN 1
                      ELSE IF pos[q] < pos[p] THEN pos[q] + 1 ELSE pos[q]
  BY HitPlaces DEF CachedPage
<1>2. Placed /\ Placed'
  BY <1>1, EachPagePlaced, PTL
<1>3. /\ Newer = [q \in pages |-> {r \in pages : pos[r] < pos[q]}]
      /\ Newer' = [q \in pages |-> {r \in pages : pos'[r] < pos'[q]}]
  <2>1. Ordered /\ Ordered'
    BY <1>2, NewerByPlace, PTL
  <2> QED  BY <1>1, <2>1 DEF Ordered
<1>4. \A q \in pages : pos[q] \in Nat \ {0}
  BY <1>2, LenProperties DEF Placed, Places, CacheInv, CacheTypeOK
<1>5. \A q \in pages : q # p => pos[q] # pos[p]
  BY <1>1, <1>2 DEF Placed
<1>6. Newer' = [q \in DOMAIN Newer |->
                   IF q = p THEN {}
                   ELSE IF q \in Newer[p] THEN Newer[q] \cup {p}
                   ELSE Newer[q]]
  <2> DEFINE new(q) == {r \in pages : pos'[r] < pos'[q]}
             old(q) == {r \in pages : pos[r] < pos[q]}
  <2>1. ASSUME NEW q \in pages
        PROVE  new(q) = IF q = p THEN {}
                        ELSE IF q \in old(p) THEN old(q) \cup {p} ELSE old(q)
    <3>1. CASE q = p
      BY <1>1, <1>4, <3>1
    <3>2. CASE q # p /\ pos[q] < pos[p]
      BY <1>1, <1>4, <1>5, <3>2
    <3>3. CASE q # p /\ pos[p] < pos[q]
      BY <1>1, <1>4, <1>5, <3>3
    <3> QED  BY <1>1, <1>4, <1>5, <3>1, <3>2, <3>3
  <2> QED  BY <1>1, <1>3, <2>1
<1>7. Resident' = Resident
  BY <1>1 DEF Resident
<1> QED  BY <1>1, <1>6, <1>7 DEF Promise!Use, Newer, Resident

\* An eviction brings the places behind the page one forward.
LEMMA EvictPlaces ==
    ASSUME CacheInv, NoOrphans, CacheInv', NEW p \in Page, Evict(p), CachedPage(p)
    PROVE  /\ NoOrphans' /\ Len(lru_list_) \in Nat
           /\ \A m \in Live \ {cache_map_[p]} : entry'[m] = entry[m]
           /\ cache_map_' = [q \in DOMAIN cache_map_ \ {p} |-> cache_map_[q]]
           /\ \A q \in DOMAIN cache_map_ \ {p} :
                 pos'[q] = IF pos[q] < pos[p] THEN pos[q] ELSE pos[q] - 1
<1>1. PICK i \in Places : PlaceOf(p, i) /\ RemoveNode(i)
  BY DEF Evict, CachedPage
<1>2. /\ lru_list_' = Without(i)
      /\ entry' = Restrict(entry, Live \ {lru_list_[i]})
      /\ cache_map_' = [q \in DOMAIN cache_map_ \ {p} |-> cache_map_[q]]
  BY <1>1 DEF Evict, CachedPage, RemoveNode, Restrict
<1>3. /\ Len(lru_list_') = Len(lru_list_) - 1
      /\ \A j \in 1..Len(lru_list_) - 1 :
            lru_list_'[j] = IF j < i THEN lru_list_[j] ELSE lru_list_[j + 1]
  BY <1>2, WithoutPlaces DEF CacheInv
<1>4. /\ Len(lru_list_) \in Nat /\ Places' = 1..Len(lru_list_) - 1
      /\ Places = 1..Len(lru_list_)
  BY <1>3, LenProperties DEF CacheInv, CacheTypeOK, Places
<1> DEFINE from(j) == IF j < i THEN j ELSE j + 1
           to(j) == IF j < i THEN j ELSE j - 1
<1>5. /\ \A j \in Places' : from(j) \in Places /\ from(j) # i
                            /\ lru_list_'[j] = lru_list_[from(j)]
      /\ \A j \in Places : j # i => to(j) \in Places' /\ from(to(j)) = j
  BY <1>3, <1>4
<1>6. \A j \in Places : j # i => lru_list_[j] # lru_list_[i]
  BY DEF CacheInv, MapSound
<1>7. \A m \in Live \ {lru_list_[i]} : entry'[m] = entry[m]
  <2>1. DOMAIN entry = Live
    BY DEF CacheInv, CacheTypeOK
  <2> QED  BY <1>2, <2>1 DEF Restrict
<1> HIDE DEF from
<1>8. \A j \in Places' : entry'[lru_list_'[j]].page_id = PageAt(from(j))
  BY <1>5, <1>6, <1>7 DEF PageAt, Live
<1>9. NoOrphans'
  <2>1. ASSUME NEW j \in Places' PROVE (PlaceOf(PageAt(j), j))'
    <3>1. /\ from(j) \in Places /\ from(j) # i /\ lru_list_'[j] = lru_list_[from(j)]
          /\ entry'[lru_list_'[j]].page_id = PageAt(from(j))
      BY <1>5, <1>8
    <3>2. PlaceOf(PageAt(from(j)), from(j))
      BY <3>1 DEF NoOrphans
    <3>3. PageAt(from(j)) # p
      BY <1>1, <1>6, <3>1, <3>2 DEF PlaceOf
    <3> QED  BY <1>2, <3>1, <3>2, <3>3 DEF PlaceOf, PageAt
  <2> QED  BY <2>1 DEF NoOrphans
<1>10. Placed /\ Placed'
  BY <1>9, EachPagePlaced, PTL
<1>11. pos[p] = i /\ cache_map_[p] = lru_list_[i]
  <2>1. PageAt(i) = p
    BY <1>1, PageOfMappedPlace DEF CacheInv, PageAt
  <2> QED  BY <1>1, <1>10, <2>1 DEF Placed, PlaceOf
<1>12. ASSUME NEW q \in DOMAIN cache_map_ \ {p}
       PROVE  pos'[q] = to(pos[q])
  <2>1. pos[q] \in Places /\ PageAt(pos[q]) = q /\ pos[q] # i
    <3>1. pos[q] \in Places /\ PageAt(pos[q]) = q /\ PageAt(pos[p]) = p
      BY <1>1, <1>10 DEF Placed, PlaceOf
    <3> QED  BY <1>11, <3>1
  <2>2. to(pos[q]) \in Places' /\ entry'[lru_list_'[to(pos[q])]].page_id = q
    BY <1>5, <1>8, <2>1
  <2>3. \A j \in Places' : pos'[entry'[lru_list_'[j]].page_id] = j
    BY <1>10 DEF Placed, PageAt
  <2> QED  BY <2>2, <2>3
<1> QED  BY <1>2, <1>4, <1>7, <1>9, <1>11, <1>12

LEMMA EvictionDrops ==
    ASSUME CacheInv, NoOrphans, CacheInv', NEW p \in Page, Evict(p), CachedPage(p),
           latest' = latest \ {p}
    PROVE  NoOrphans' /\ Promise!Drop(p)
<1> DEFINE pages == DOMAIN cache_map_
<1>1. /\ NoOrphans' /\ p \in pages
      /\ \A m \in Live \ {cache_map_[p]} : entry'[m] = entry[m]
      /\ cache_map_' = [q \in pages \ {p} |-> cache_map_[q]]
      /\ \A q \in pages \ {p} :
            pos'[q] = IF pos[q] < pos[p] THEN pos[q] ELSE pos[q] - 1
  BY EvictPlaces DEF CachedPage
<1>2. Placed /\ Placed'
  BY <1>1, EachPagePlaced, PTL
<1>3. /\ Newer = [q \in pages |-> {r \in pages : pos[r] < pos[q]}]
      /\ Newer' = [q \in pages \ {p} |-> {r \in pages \ {p} : pos'[r] < pos'[q]}]
  <2>1. Ordered /\ Ordered'
    BY <1>2, NewerByPlace, PTL
  <2> QED  BY <1>1, <2>1 DEF Ordered
<1>4. \A q \in pages : pos[q] \in Nat \ {0}
  BY <1>2, LenProperties DEF Placed, Places, CacheInv, CacheTypeOK
<1>5. \A q \in pages : q # p => pos[q] # pos[p]
  BY <1>1, <1>2 DEF Placed
<1>6. Newer' = [q \in DOMAIN Newer \ {p} |-> Newer[q] \ {p}]
  <2>1. ASSUME NEW q \in pages \ {p}
        PROVE  {r \in pages \ {p} : pos'[r] < pos'[q]}
                  = {r \in pages : pos[r] < pos[q]} \ {p}
    BY <1>1, <1>4, <1>5
  <2> QED  BY <1>1, <1>3, <2>1
<1>7. Resident' = [q \in DOMAIN Resident \ {p} |-> Resident[q]]
  <2>1. ASSUME NEW q \in pages \ {p} PROVE entry'[cache_map_[q]] = entry[cache_map_[q]]
    <3>1. /\ cache_map_[q] = lru_list_[pos[q]] /\ pos[q] \in Places
          /\ cache_map_[p] = lru_list_[pos[p]] /\ pos[p] \in Places
          /\ pos[q] # pos[p]
      BY <1>1, <1>2, <1>5 DEF Placed
    <3>2. cache_map_[q] # cache_map_[p]
      BY <3>1 DEF CacheInv, MapSound
    <3> QED  BY <1>1, <3>1, <3>2 DEF Live
  <2> QED  BY <1>1, <2>1 DEF Resident
<1> QED  BY <1>1, <1>6, <1>7 DEF Promise!Drop, Newer, Resident

\* The pages of the first places of the list.
Foremost(kept) == {q \in DOMAIN cache_map_ : pos[q] <= kept}

\* Insertion of a page that is not resident puts it in front of a front part
\* of the list.
LEMMA InsertPlaces ==
    ASSUME CacheInv, NoOrphans, CacheInv', ~Clobber,
           NEW p \in Page, NEW n \in Node, NEW size \in Size, Insert(p, n, size),
           ~CachedPage(p)
    PROVE  /\ NoOrphans' /\ Len(lru_list_) \in Nat
           /\ \E kept \in 0..Len(lru_list_) :
                 /\ EvictToFit(size, kept, {})
                 /\ cache_map_' = [q \in Foremost(kept) \cup {p} |->
                                      IF q = p THEN n ELSE cache_map_[q]]
                 /\ entry'[n].size = size
                 /\ \A q \in Foremost(kept) :
                       entry'[cache_map_[q]] = entry[cache_map_[q]]
                 /\ pos'[p] = 1
                 /\ \A q \in Foremost(kept) : pos'[q] = pos[q] + 1
<1>0. PICK kept \in 0..Len(lru_list_) : \E lost \in SUBSET Behind(kept) :
         /\ EvictToFit(size, kept, lost)
         /\ lru_list_' = <<n>> \o SubSeq(lru_list_, 1, kept)
         /\ entry' = [m \in {lru_list_[i] : i \in 1..kept} \cup {n} |->
                        IF m = n THEN [page_id |-> p, size |-> size] ELSE entry[m]]
         /\ cache_map_' = [q \in (DOMAIN cache_map_ \ (Behind(kept) \ lost)) \cup {p} |->
                              IF q = p THEN n ELSE cache_map_[q]]
  BY DEF Insert
<1>1. PICK lost \in SUBSET Behind(kept) :
         /\ EvictToFit(size, kept, lost)
         /\ lru_list_' = <<n>> \o SubSeq(lru_list_, 1, kept)
         /\ entry' = [m \in {lru_list_[i] : i \in 1..kept} \cup {n} |->
                        IF m = n THEN [page_id |-> p, size |-> size] ELSE entry[m]]
         /\ cache_map_' = [q \in (DOMAIN cache_map_ \ (Behind(kept) \ lost)) \cup {p} |->
                              IF q = p THEN n ELSE cache_map_[q]]
  BY <1>0
<1>2. lost = {} /\ n \notin Live
  BY <1>1 DEF EvictToFit, Insert
<1>3. Placed
  BY EachPagePlaced
<1>4. /\ lru_list_ \in Seq(Node) /\ Len(lru_list_) \in Nat
      /\ kept \in Nat /\ kept <= Len(lru_list_) /\ Places = 1..Len(lru_list_)
  BY LenProperties DEF CacheInv, CacheTypeOK, Places
<1>5. DOMAIN cache_map_ \ Behind(kept) = Foremost(kept)
  <2>1. ASSUME NEW q \in DOMAIN cache_map_ PROVE q \in Behind(kept) <=> pos[q] > kept
    <3>1. pos[q] \in Places /\ entry[lru_list_[pos[q]]].page_id = q
      BY <1>3 DEF Placed, PageAt
    <3>2. ASSUME q \in Behind(kept) PROVE pos[q] > kept
      <4>1. PICK i \in kept + 1 .. Len(lru_list_) : q = PageAt(i)
        BY <3>2 DEF Behind, PageAt
      <4>2. i \in Places /\ i > kept
        BY <1>4
      <4> QED  BY <1>3, <4>1, <4>2 DEF Placed
    <3>3. ASSUME pos[q] > kept PROVE q \in Behind(kept)
      BY <1>4, <3>1, <3>3 DEF Behind
    <3> QED  BY <3>2, <3>3
  <2>2. \A q \in DOMAIN cache_map_ : pos[q] \in Nat
    BY <1>3, <1>4 DEF Placed
  <2> QED  BY <1>4, <2>1, <2>2 DEF Foremost
<1>6. cache_map_' = [q \in Foremost(kept) \cup {p} |-> IF q = p THEN n ELSE cache_map_[q]]
  BY <1>1, <1>2, <1>5
<1> DEFINE front == SubSeq(lru_list_, 1, kept)
<1>7. /\ front \in Seq(Node) /\ Len(front) = kept
      /\ \A j \in 1..kept : front[j] = lru_list_[j]
  BY <1>4
<1> HIDE DEF front
<1>8. /\ Len(lru_list_') = kept + 1 /\ lru_list_'[1] = n
      /\ \A j \in 1..kept : lru_list_'[j + 1] = lru_list_[j]
  <2>1. lru_list_' = <<n>> \o front
    BY <1>1 DEF front
  <2>2. /\ Len(<<n>> \o front) = Len(front) + 1
        /\ (<<n>> \o front)[1] = n
        /\ \A j \in 1..Len(front) : (<<n>> \o front)[j + 1] = front[j]
    BY <1>7, OneInFront
  <2> QED  BY <1>7, <2>1, <2>2
<1>9. \A i \in 1..kept : lru_list_[i] # n /\ i \in Places
  BY <1>2, <1>4 DEF Live
<1>10. /\ entry'[n] = [page_id |-> p, size |-> size]
       /\ \A i \in 1..kept : entry'[lru_list_[i]] = entry[lru_list_[i]]
  BY <1>1, <1>9
<1>11. Places' = 1..kept + 1
  BY <1>8 DEF Places
<1>12. NoOrphans'
  <2>1. ASSUME NEW j \in Places' PROVE (PlaceOf(PageAt(j), j))'
    <3>1. CASE j = 1
      BY <1>6, <1>8, <1>10, <3>1 DEF PlaceOf, PageAt
    <3>2. CASE j # 1
      <4>1. j - 1 \in 1..kept /\ (j - 1) + 1 = j
        BY <1>4, <1>11, <3>2
      <4>2. lru_list_'[j] = lru_list_[j - 1] /\ j - 1 \in Places
            /\ entry'[lru_list_'[j]].page_id = PageAt(j - 1)
        BY <1>8, <1>9, <1>10, <4>1 DEF PageAt
      <4>3. /\ PageAt(j - 1) \in DOMAIN cache_map_ /\ pos[PageAt(j - 1)] = j - 1
            /\ cache_map_[PageAt(j - 1)] = lru_list_[j - 1]
        BY <1>3, <4>2 DEF Placed
      <4>4. PageAt(j - 1) \in Foremost(kept) /\ PageAt(j - 1) # p
        BY <4>1, <4>3 DEF Foremost, CachedPage
      <4> QED  BY <1>6, <4>2, <4>3, <4>4 DEF PlaceOf, PageAt
    <3> QED  BY <3>1, <3>2
  <2> QED  BY <2>1 DEF NoOrphans
<1>13. Placed'
  BY <1>12, EachPagePlaced, PTL
<1>14. \A j \in Places' : pos'[entry'[lru_list_'[j]].page_id] = j
  BY <1>13 DEF Placed, PageAt
<1>15. pos'[p] = 1
  <2>1. 1 \in Places'
    BY <1>4, <1>11
  <2> QED  BY <1>8, <1>10, <1>14, <2>1
<1>16. ASSUME NEW q \in Foremost(kept)
       PROVE  pos'[q] = pos[q] + 1 /\ entry'[cache_map_[q]] = entry[cache_map_[q]]
  <2>1. /\ pos[q] \in 1..kept /\ PageAt(pos[q]) = q
        /\ cache_map_[q] = lru_list_[pos[q]]
    BY <1>3, <1>4 DEF Foremost, Placed
  <2>2. pos[q] + 1 \in Places'
    BY <1>4, <1>11, <2>1
  <2>3. entry'[lru_list_'[pos[q] + 1]].page_id = q
    BY <1>8, <1>10, <2>1 DEF PageAt
  <2> QED  BY <1>10, <1>14, <2>1, <2>2, <2>3
<1>17. EvictToFit(size, kept, {}) /\ entry'[n].size = size
  BY <1>1, <1>2, <1>10
<1> QED  BY <1>4, <1>6, <1>12, <1>15, <1>16, <1>17

\* The first pages weigh what the list does without the places behind them.
LEMMA WeightOfForemost ==
    ASSUME CacheInv, NoOrphans, NEW kept \in 0..Len(lru_list_)
    PROVE  /\ IsFiniteSet(DOMAIN Resident)
           /\ \A q \in DOMAIN Resident : Resident[q] \in Nat
           /\ SumFunctionOnSet(Resident, Foremost(kept)) \in Nat
           /\ Weight(kept + 1 .. Len(lru_list_)) \in Nat
           /\ Weight(Places) = SumFunctionOnSet(Resident, Foremost(kept))
                                  + Weight(kept + 1 .. Len(lru_list_))
<1> DEFINE f == [i \in Places |-> entry[lru_list_[i]].size]
           m == [i \in Places |-> PageAt(i)]
           behind == kept + 1 .. Len(lru_list_)
<1>1. Placed
  BY EachPagePlaced
<1>2. Len(lru_list_) \in Nat /\ Places = 1..Len(lru_list_) /\ IsFiniteSet(Places)
  <2>1. Len(lru_list_) \in Nat
    BY LenProperties DEF CacheInv, CacheTypeOK
  <2> QED  BY <2>1, FS_Interval DEF Places
<1>3. \A i \in Places : f[i] \in Nat /\ entry[lru_list_[i]].size = f[i]
  BY PageCacheAssumption DEF CacheInv, CacheTypeOK, Live, CacheEntry
<1>4. \A i \in Places : /\ m[i] \in DOMAIN Resident /\ pos[m[i]] = i
                        /\ Resident[m[i]] = f[i]
  BY <1>1 DEF Placed, Resident
<1>5. \A q \in DOMAIN Resident : pos[q] \in Places /\ m[pos[q]] = q
  BY <1>1 DEF Placed, Resident
<1> HIDE DEF f, m, behind
<1>6. Moves(m, f, Places, Resident, DOMAIN Resident)
  BY <1>3, <1>4, <1>5 DEF Moves
<1>7. IsFiniteSet(DOMAIN Resident)
  BY <1>2, <1>6, SumMoved
<1>8. \A q \in DOMAIN Resident : Resident[q] \in Nat
  BY <1>3, <1>4, <1>5
<1>9. /\ 1..kept \cup behind = Places /\ 1..kept \cap behind = {}
      /\ IsFiniteSet(1..kept) /\ IsFiniteSet(behind)
  <2>1. 1..kept \cup behind = Places /\ 1..kept \cap behind = {}
    BY <1>2 DEF behind
  <2> QED  BY <1>2, <2>1, FS_Subset
<1>10. Moves(m, f, 1..kept, Resident, Foremost(kept))
  <2>1. ASSUME NEW q \in Foremost(kept) PROVE pos[q] \in 1..kept /\ m[pos[q]] = q
    <3>1. q \in DOMAIN Resident /\ pos[q] <= kept
      BY DEF Foremost, Resident
    <3> QED  BY <1>2, <1>5, <3>1
  <2>2. ASSUME NEW i \in 1..kept PROVE i \in Places /\ m[i] \in Foremost(kept)
    <3>1. i \in Places /\ i <= kept
      BY <1>9
    <3>2. m[i] \in DOMAIN Resident /\ pos[m[i]] = i
      BY <1>4, <3>1
    <3>3. m[i] \in DOMAIN cache_map_
      BY <3>2 DEF Resident
    <3> QED  BY <3>1, <3>2, <3>3 DEF Foremost
  <2> QED  BY <1>3, <1>4, <2>1, <2>2 DEF Moves
<1>11. SumFunctionOnSet(Resident, Foremost(kept)) = SumFunctionOnSet(f, 1..kept)
  BY <1>9, <1>10, SumMoved
<1>12. /\ SumFunctionOnSet(f, Places)
             = SumFunctionOnSet(f, 1..kept) + SumFunctionOnSet(f, behind)
       /\ SumFunctionOnSet(f, 1..kept) \in Nat /\ SumFunctionOnSet(f, behind) \in Nat
  <2>1. \A i \in 1..kept \cup behind : f[i] \in Nat
    BY <1>3, <1>9
  <2>2. SumFunctionOnSet(f, 1..kept \cup behind)
           = SumFunctionOnSet(f, 1..kept) + SumFunctionOnSet(f, behind)
    BY <1>9, <2>1, SumUnion
  <2>3. SumFunctionOnSet(f, 1..kept) \in Nat /\ SumFunctionOnSet(f, behind) \in Nat
    BY <1>9, <2>1, SumInNat
  <2> QED  BY <1>9, <2>2, <2>3
<1>13. Weight(Places) = SumFunctionOnSet(f, Places)
       /\ Weight(behind) = SumFunctionOnSet(f, behind)
  BY DEF Weight, f
<1> QED  BY <1>7, <1>8, <1>11, <1>12, <1>13 DEF behind

LEMMA TotalIsSum == \A S : Promise!Total(S) = SumFunctionOnSet(Resident, S)
BY DEF Promise!Total, Promise!SumFunctionOnSet, Promise!FoldFunctionOnSet,
       Promise!MapThenFoldSet, SumFunctionOnSet, FoldFunctionOnSet, MapThenFoldSet,
       Resident

LEMMA InsertionStores ==
    ASSUME CacheInv, CacheBounded, NoOrphans, CacheInv', ~Clobber,
           NEW p \in Page, NEW n \in Node, NEW size \in Size, Insert(p, n, size),
           ~CachedPage(p), latest' = {p}
    PROVE  NoOrphans' /\ Promise!Store(p, size)
<1> DEFINE pages == DOMAIN cache_map_
<1>1. NoOrphans' /\ Len(lru_list_) \in Nat
  BY InsertPlaces
<1>2. PICK kept \in 0..Len(lru_list_) :
         /\ EvictToFit(size, kept, {})
         /\ cache_map_' = [q \in Foremost(kept) \cup {p} |->
                              IF q = p THEN n ELSE cache_map_[q]]
         /\ entry'[n].size = size
         /\ \A q \in Foremost(kept) : entry'[cache_map_[q]] = entry[cache_map_[q]]
         /\ pos'[p] = 1
         /\ \A q \in Foremost(kept) : pos'[q] = pos[q] + 1
  BY InsertPlaces
<1> DEFINE keep == Foremost(kept)
<1>3. Placed /\ Placed'
  BY <1>1, EachPagePlaced, PTL
<1>4. /\ Newer = [q \in pages |-> {r \in pages : pos[r] < pos[q]}]
      /\ Newer' = [q \in DOMAIN cache_map_' |->
                      {r \in DOMAIN cache_map_' : pos'[r] < pos'[q]}]
  <2>1. Ordered /\ Ordered'
    BY <1>3, NewerByPlace, PTL
  <2> QED  BY <2>1 DEF Ordered
<1>5. /\ \A q \in pages : pos[q] \in 1..Len(lru_list_)
      /\ size \in Nat /\ MaxCacheBytes \in Nat
  BY <1>3, PageCacheAssumption DEF Placed, Places
<1>6. keep \subseteq pages /\ p \notin keep /\ p \notin pages
  BY DEF Foremost, CachedPage
<1>7. /\ IsFiniteSet(DOMAIN Resident) /\ DOMAIN Resident = pages
      /\ \A q \in DOMAIN Resident : Resident[q] \in Nat
  BY WeightOfForemost DEF Resident
<1>8. \A q \in keep : Newer[q] \subseteq keep
  BY <1>1, <1>4, <1>5, <1>6 DEF Foremost
<1>9. keep = {} \/ Promise!Total(keep) + size <= MaxCacheBytes
  <2>1. CASE kept = 0
    BY <1>5, <2>1 DEF Foremost
  <2>2. CASE kept # 0
    <3>1. current_cache_bytes_ - Weight(kept + 1 .. Len(lru_list_)) + size
             <= MaxCacheBytes
      BY <1>2, <2>2 DEF EvictToFit, FitsWith
    <3>2. /\ Promise!Total(keep) \in Nat /\ Weight(kept + 1 .. Len(lru_list_)) \in Nat
          /\ current_cache_bytes_ = Promise!Total(keep)
                                       + Weight(kept + 1 .. Len(lru_list_))
      BY WeightOfForemost, TotalIsSum DEF CacheBounded
    <3> QED  BY <1>5, <3>1, <3>2
  <2> QED  BY <2>1, <2>2
<1>10. ASSUME NEW more \in SUBSET pages, \A q \in more : Newer[q] \subseteq more,
              keep \subseteq more, keep # more
       PROVE  Promise!Total(more) + size > MaxCacheBytes
  <2>1. PICK r \in more : pos[r] > kept
    BY <1>1, <1>5, <1>6, <1>10 DEF Foremost
  <2>2. kept + 1 \in 1..Len(lru_list_)
    BY <1>1, <1>5, <2>1
  <2>3. Foremost(kept + 1) \subseteq more
    <3>1. ASSUME NEW q \in Foremost(kept + 1), q # r PROVE q \in Newer[r]
      <4>1. q \in pages /\ r \in pages /\ pos[q] <= kept + 1 /\ pos[q] # pos[r]
        BY <1>3, <3>1 DEF Foremost, Placed
      <4>2. pos[q] < pos[r]
        BY <1>1, <1>5, <2>1, <4>1
      <4> QED  BY <1>4, <4>1, <4>2
    <3> QED  BY <1>10, <2>1, <3>1
  <2>4. /\ Promise!Total(Foremost(kept + 1)) \in Nat
        /\ Weight((kept + 1) + 1 .. Len(lru_list_)) \in Nat
        /\ current_cache_bytes_ = Promise!Total(Foremost(kept + 1))
                                     + Weight((kept + 1) + 1 .. Len(lru_list_))
    <3>1. kept + 1 \in 0..Len(lru_list_)
      BY <2>2
    <3> QED  BY <3>1, WeightOfForemost, TotalIsSum DEF CacheBounded
  <2>5. ~(current_cache_bytes_ - Weight((kept + 1) + 1 .. Len(lru_list_)) + size
             <= MaxCacheBytes)
    <3>1. kept + 1 \in kept + 1 .. Len(lru_list_)
      BY <2>2
    <3> QED  BY <1>2, <3>1 DEF EvictToFit, FitsWith
  <2>6. Promise!Total(Foremost(kept + 1)) <= Promise!Total(more)
        /\ Promise!Total(more) \in Nat
    <3>1. IsFiniteSet(more) /\ \A q \in more : Resident[q] \in Nat
      BY <1>7, FS_Subset
    <3>2. SumFunctionOnSet(Resident, Foremost(kept + 1))
             <= SumFunctionOnSet(Resident, more)
          /\ SumFunctionOnSet(Resident, more) \in Nat
      BY <2>3, <3>1, SumSubset, SumInNat
    <3> QED  BY <3>2, TotalIsSum
  <2> QED  BY <1>5, <2>4, <2>5, <2>6
<1>11. Resident' = [q \in keep \cup {p} |-> IF q = p THEN size ELSE Resident[q]]
  BY <1>2, <1>6 DEF Resident
<1>12. Newer' = [q \in keep \cup {p} |-> IF q = p THEN {} ELSE Newer[q] \cup {p}]
  <2> DEFINE after == keep \cup {p}
  <2>1. DOMAIN cache_map_' = after
    BY <1>2
  <2>2. ASSUME NEW q \in after
        PROVE  {r \in after : pos'[r] < pos'[q]}
                  = IF q = p THEN {} ELSE Newer[q] \cup {p}
    <3>1. CASE q = p
      BY <1>1, <1>2, <1>5, <1>6, <3>1
    <3>2. CASE q # p
      <4>1. q \in keep /\ Newer[q] \subseteq keep
            /\ Newer[q] = {r \in pages : pos[r] < pos[q]}
        BY <1>4, <1>6, <1>8, <3>2
      <4> QED  BY <1>1, <1>2, <1>5, <1>6, <3>2, <4>1
    <3> QED  BY <3>1, <3>2
  <2> QED  BY <1>4, <2>1, <2>2
<1> HIDE DEF keep
<1>13. Promise!Recent(keep)
  BY <1>8 DEF Promise!Recent, Newer
<1>14. \A more \in SUBSET pages :
          (Promise!Recent(more) /\ keep \subseteq more /\ keep # more)
              => Promise!Total(more) + size > MaxCacheBytes
  BY <1>10 DEF Promise!Recent, Newer
<1> QED  BY <1>1, <1>6, <1>9, <1>11, <1>12, <1>13, <1>14
         DEF Promise!Store, Newer, Resident

-----------------------------------------------------------------------------
(* The refinement. *)

\* What is true until a resident page is inserted.
MCInv ==
    /\ CacheInv /\ CacheBounded
    /\ latest \subseteq DOMAIN cache_map_
    /\ reloaded \in BOOLEAN
    /\ ~reloaded => NoOrphans

\* The three actions, with what the history variables do.
HitOrMiss(p) == /\ Get(p)
                /\ latest' = IF CachedPage(p) THEN {p} ELSE latest
                /\ UNCHANGED reloaded
Eviction(p) == Evict(p) /\ latest' = latest \ {p} /\ UNCHANGED reloaded
Insertion(p, n, size) == /\ Insert(p, n, size)
                         /\ latest' = {p}
                         /\ reloaded' = (reloaded \/ CachedPage(p))

LEMMA Actions ==
    ASSUME MCNext
    PROVE  \/ \E p \in Page : HitOrMiss(p) \/ Eviction(p)
           \/ \E p \in Page, n \in Node, size \in Size : Insertion(p, n, size)
BY DEF MCNext, HitOrMiss, Eviction, Insertion

LEMMA MCInitEstablishes == MCInit => MCInv
<1> SUFFICES ASSUME MCInit PROVE MCInv
  OBVIOUS
<1>1. CacheInit /\ latest = {} /\ reloaded = FALSE /\ Places = {}
  BY DEF MCInit, CacheInit, Places
<1>2. CacheInv
  BY <1>1, InitEstablishes
<1>3. CacheBounded
  BY <1>1, SumEmpty, PageCacheAssumption DEF CacheBounded, Weight, CacheInit
<1> QED  BY <1>1, <1>2, <1>3 DEF MCInv, NoOrphans

\* What a step of the cache is to the promise, and what it leaves true.
Refines ==
    /\ CacheInv' /\ CacheBounded' /\ (~reloaded' => NoOrphans')
    /\ latest' \subseteq DOMAIN cache_map_' /\ reloaded' \in BOOLEAN
    /\ [Promise!Next]_(Promise!vars)

\* Nothing is promised once a resident page was inserted.
LEMMA VoidStep == ASSUME reloaded, reloaded' PROVE Promise!Next
BY DEF Promise!Next

LEMMA KeptStep ==
    ASSUME ~reloaded, UNCHANGED reloaded,
           \/ \E p \in Page : Promise!Use(p) \/ Promise!Drop(p)
           \/ \E p \in Page, size \in Size : Promise!Store(p, size)
    PROVE  Promise!Next
BY DEF Promise!Next

LEMMA StillStep ==
    ASSUME UNCHANGED <<entry, cache_map_, lru_list_, latest, reloaded>>
    PROVE  UNCHANGED Promise!vars
BY DEF Promise!vars, UsedAfter, PlaceOf, Places

LEMMA HitOrMissRefines ==
    ASSUME MCInv, NEW p \in Page, HitOrMiss(p)
    PROVE  Refines
<1>1. CacheInv' /\ CacheBounded'
  BY GetPreserves, GetBounded DEF MCInv, HitOrMiss
<1>2. DOMAIN cache_map_' = DOMAIN cache_map_ /\ UNCHANGED reloaded
  BY DEF HitOrMiss, Get
<1>3. latest' \subseteq DOMAIN cache_map_'
  BY <1>2 DEF HitOrMiss, CachedPage, MCInv
<1>4. CASE reloaded
  BY <1>1, <1>2, <1>3, <1>4, VoidStep DEF Refines
<1>5. CASE ~reloaded /\ CachedPage(p)
  <2>1. NoOrphans' /\ Promise!Use(p)
    BY <1>1, <1>5, HitUses DEF MCInv, HitOrMiss
  <2>2. Promise!Next
    BY <1>2, <1>5, <2>1, KeptStep
  <2> QED  BY <1>1, <1>2, <1>3, <1>5, <2>1, <2>2 DEF Refines, MCInv
<1>6. CASE ~reloaded /\ ~CachedPage(p)
  <2>1. UNCHANGED <<entry, cache_map_, lru_list_, latest, reloaded>>
    BY <1>6 DEF HitOrMiss, Get, PlaceOf, CachedPage
  <2>2. UNCHANGED Promise!vars
    BY <2>1, StillStep
  <2>3. NoOrphans'
    BY <1>6, <2>1 DEF MCInv, NoOrphans, PlaceOf, PageAt, Places
  <2> QED  BY <1>1, <1>2, <1>3, <1>6, <2>2, <2>3 DEF Refines, MCInv
<1> QED  BY <1>4, <1>5, <1>6 DEF MCInv

LEMMA EvictionRefines ==
    ASSUME MCInv, NEW p \in Page, Eviction(p)
    PROVE  Refines
<1>1. CacheInv' /\ CacheBounded'
  BY EvictPreserves, EvictBounded DEF MCInv, Eviction
<1>2. UNCHANGED reloaded
  BY DEF Eviction
<1>3. latest' \subseteq DOMAIN cache_map_'
  <2>1. DOMAIN cache_map_ \ {p} \subseteq DOMAIN cache_map_'
    BY DEF Eviction, Evict, Restrict, cacheVars
  <2> QED  BY <2>1 DEF Eviction, MCInv
<1>4. CASE reloaded
  BY <1>1, <1>2, <1>3, <1>4, VoidStep DEF Refines
<1>5. CASE ~reloaded /\ CachedPage(p)
  <2>1. NoOrphans' /\ Promise!Drop(p)
    BY <1>1, <1>5, EvictionDrops DEF MCInv, Eviction
  <2>2. Promise!Next
    BY <1>2, <1>5, <2>1, KeptStep
  <2> QED  BY <1>1, <1>2, <1>3, <1>5, <2>1, <2>2 DEF Refines, MCInv
<1>6. CASE ~reloaded /\ ~CachedPage(p)
  <2>1. UNCHANGED <<entry, cache_map_, lru_list_, latest, reloaded>>
    BY <1>6 DEF Eviction, Evict, PlaceOf, CachedPage, cacheVars, MCInv
  <2>2. UNCHANGED Promise!vars
    BY <2>1, StillStep
  <2>3. NoOrphans'
    BY <1>6, <2>1 DEF MCInv, NoOrphans, PlaceOf, PageAt, Places
  <2> QED  BY <1>1, <1>2, <1>3, <1>6, <2>2, <2>3 DEF Refines, MCInv
<1> QED  BY <1>4, <1>5, <1>6 DEF MCInv

LEMMA InsertionRefines ==
    ASSUME MCInv, ~Clobber,
           NEW p \in Page, NEW n \in Node, NEW size \in Size, Insertion(p, n, size)
    PROVE  Refines
<1>1. CacheInv' /\ CacheBounded'
  BY InsertPreserves, InsertBounded DEF MCInv, Insertion
<1>2. /\ reloaded' = (reloaded \/ CachedPage(p)) /\ reloaded' \in BOOLEAN
      /\ latest' \subseteq DOMAIN cache_map_'
  <2>1. p \in DOMAIN cache_map_'
    BY DEF Insertion, Insert
  <2> QED  BY <2>1 DEF Insertion, CachedPage, MCInv
<1>3. CASE reloaded
  BY <1>1, <1>2, <1>3, VoidStep DEF Refines
<1>4. CASE ~reloaded /\ CachedPage(p)
  <2>1. Promise!Next
    BY <1>2, <1>4 DEF Promise!Next, CachedPage
  <2> QED  BY <1>1, <1>2, <1>4, <2>1 DEF Refines
<1>5. CASE ~reloaded /\ ~CachedPage(p)
  <2>1. NoOrphans' /\ Promise!Store(p, size)
    BY <1>1, <1>5, InsertionStores DEF MCInv, Insertion
  <2>2. UNCHANGED reloaded
    BY <1>2, <1>5 DEF MCInv
  <2>3. Promise!Next
    BY <1>5, <2>1, <2>2, KeptStep
  <2> QED  BY <1>1, <1>2, <1>5, <2>1, <2>3 DEF Refines
<1> QED  BY <1>3, <1>4, <1>5 DEF MCInv

(* Until a caller inserts a resident page the list, the map and the byte    *)
(* count are a byte-bounded LRU cache (paging_manager.h:39): a hit makes a  *)
(* page the most recently used, an insertion displaces the least recently   *)
(* used ones and no more of them than it needs.                             *)
THEOREM ImplementsLRUCache == ~Clobber => (MCSpec => IsLRUCache)
<1> SUFFICES ASSUME ~Clobber PROVE MCSpec => IsLRUCache
  OBVIOUS
<1>1. MCInit => MCInv
  BY MCInitEstablishes
<1>2. MCInit => Promise!Init
  BY DEF MCInit, CacheInit, Promise!Init
<1>3. MCInv /\ [MCNext]_mcVars => MCInv' /\ [Promise!Next]_(Promise!vars)
  <2> SUFFICES ASSUME MCInv, [MCNext]_mcVars PROVE Refines
    BY DEF Refines, MCInv
  <2>1. ASSUME NEW p \in Page, HitOrMiss(p) PROVE Refines
    BY <2>1, HitOrMissRefines
  <2>2. ASSUME NEW p \in Page, Eviction(p) PROVE Refines
    BY <2>2, EvictionRefines
  <2>3. ASSUME NEW p \in Page, NEW n \in Node, NEW size \in Size, Insertion(p, n, size)
        PROVE  Refines
    BY <2>3, InsertionRefines
  <2>4. CASE UNCHANGED mcVars
    <3>1. UNCHANGED <<entry, cache_map_, lru_list_, latest, reloaded,
                      current_cache_bytes_>>
      BY <2>4 DEF mcVars, cacheVars
    <3>2. UNCHANGED Promise!vars
      BY <3>1, StillStep
    <3>3. CacheInv'
      BY <3>1, NothingChanges DEF MCInv
    <3>4. CacheBounded'
      BY <3>1 DEF MCInv, CacheBounded, Weight, Places
    <3>5. ~reloaded' => NoOrphans'
      BY <3>1 DEF MCInv, NoOrphans, PlaceOf, PageAt, Places
    <3> QED  BY <3>1, <3>2, <3>3, <3>4, <3>5 DEF Refines, MCInv
  <2> QED  BY <2>1, <2>2, <2>3, <2>4, Actions
<1>4. MCSpec <=> MCInit /\ [][MCNext]_mcVars
  BY DEF MCSpec, mcVars
<1> QED  BY <1>1, <1>2, <1>3, <1>4, PTL DEF IsLRUCache, Promise!Spec

=============================================================================
