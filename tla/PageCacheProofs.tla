--------------------------- MODULE PageCacheProofs ---------------------------
(***************************************************************************)
(* PageCache never returns freed memory and never evicts a node the map    *)
(* points to while it forgets an older one, for every set of pages, every  *)
(* size and every limit, in a build whose freed list nodes keep their      *)
(* contents until they are read.                                           *)
(***************************************************************************)
EXTENDS PageCache, FiniteSums, SequenceTheorems

(* Taking one element out of a sequence.                                   *)
LEMMA OneRemoved ==
    ASSUME NEW S, NEW s \in Seq(S), NEW i \in 1..Len(s)
    PROVE  LET r == SubSeq(s, 1, i - 1) \o SubSeq(s, i + 1, Len(s)) IN
           /\ r \in Seq(S)
           /\ Len(r) = Len(s) - 1
           /\ \A j \in 1..Len(s) - 1 : r[j] = IF j < i THEN s[j] ELSE s[j + 1]
<1> DEFINE a == SubSeq(s, 1, i - 1)
           b == SubSeq(s, i + 1, Len(s))
<1>1. Len(s) \in Nat
  BY LenProperties
<1>2. a \in Seq(S) /\ Len(a) = i - 1 /\ \A j \in 1..i - 1 : a[j] = s[j]
  BY <1>1
<1>3. b \in Seq(S) /\ Len(b) = Len(s) - i
      /\ \A j \in 1..Len(s) - i : b[j] = s[j + i]
  BY <1>1
<1> HIDE DEF a, b
<1>4. a \o b \in Seq(S) /\ Len(a \o b) = Len(s) - 1
  <2>1. a \in Seq(S) /\ b \in Seq(S)
    BY <1>2, <1>3
  <2>2. a \o b \in Seq(S) /\ Len(a \o b) = Len(a) + Len(b)
    BY <2>1, ConcatProperties
  <2>3. Len(a) = i - 1 /\ Len(b) = Len(s) - i
    BY <1>2, <1>3
  <2> QED  BY <1>1, <2>2, <2>3
<1>5. \A j \in 1..Len(s) - 1 : (a \o b)[j] = IF j < i THEN s[j] ELSE s[j + 1]
  <2> SUFFICES ASSUME NEW j \in 1..Len(s) - 1
               PROVE  (a \o b)[j] = IF j < i THEN s[j] ELSE s[j + 1]
    OBVIOUS
  <2>1. (a \o b)[j] = IF j <= Len(a) THEN a[j] ELSE b[j - Len(a)]
    BY <1>1, <1>2, <1>3, ConcatProperties
  <2>2. CASE j < i
    BY <2>1, <2>2, <1>1, <1>2
  <2>3. CASE ~(j < i)
    <3>1. (a \o b)[j] = b[j - (i - 1)] /\ j - (i - 1) \in 1..Len(s) - i
      BY <2>1, <2>3, <1>1, <1>2
    <3>2. b[j - (i - 1)] = s[j - (i - 1) + i] /\ j - (i - 1) + i = j + 1
      BY <3>1, <1>1, <1>3
    <3> QED  BY <3>1, <3>2, <2>3
  <2> QED  BY <2>2, <2>3
<1> QED  BY <1>4, <1>5 DEF a, b

(* Putting an element in front of a sequence.                              *)
LEMMA OneInFront ==
    ASSUME NEW S, NEW s \in Seq(S), NEW e \in S
    PROVE  /\ <<e>> \o s \in Seq(S)
           /\ Len(<<e>> \o s) = Len(s) + 1
           /\ (<<e>> \o s)[1] = e
           /\ \A j \in 1..Len(s) : (<<e>> \o s)[j + 1] = s[j]
<1>1. <<e>> \in Seq(S) /\ Len(<<e>>) = 1 /\ <<e>>[1] = e /\ Len(s) \in Nat
  BY LenProperties
<1>2. <<e>> \o s \in Seq(S) /\ Len(<<e>> \o s) = Len(s) + 1
  BY <1>1, ConcatProperties
<1>3. \A j \in 1..Len(s) + 1 :
         (<<e>> \o s)[j] = IF j <= 1 THEN <<e>>[j] ELSE s[j - 1]
  BY <1>1, ConcatProperties
<1> QED  BY <1>1, <1>2, <1>3

-----------------------------------------------------------------------------
(* The inductive invariant.                                                 *)
CacheInv == CacheTypeOK /\ MapSound /\ OrphansBehind

(* In a list without repetition, the page of a mapped place is the page the *)
(* map has for it.                                                          *)
LEMMA PageOfMappedPlace ==
    ASSUME CacheTypeOK, MapSound, NEW p, NEW i \in Places, PlaceOf(p, i)
    PROVE  p \in Page /\ entry[lru_list_[i]].page_id = p
BY DEF CacheTypeOK, MapSound, PlaceOf, Places

(* Without(i) as a list of nodes.                                           *)
LEMMA WithoutPlaces ==
    ASSUME CacheTypeOK, NEW i \in Places
    PROVE  /\ Without(i) \in Seq(Node)
           /\ Len(Without(i)) = Len(lru_list_) - 1
           /\ \A j \in 1..Len(lru_list_) - 1 :
                 Without(i)[j] = IF j < i THEN lru_list_[j] ELSE lru_list_[j + 1]
BY OneRemoved DEF CacheTypeOK, Places, Without

(* touch moves one place to the front and the places before it one back.    *)
LEMMA TouchPlaces ==
    ASSUME CacheTypeOK, NEW i \in Places, Touch(i)
    PROVE  /\ lru_list_' \in Seq(Node)
           /\ Len(lru_list_') = Len(lru_list_)
           /\ \A j \in Places : lru_list_'[j] =
                 IF j = 1 THEN lru_list_[i]
                 ELSE IF j <= i THEN lru_list_[j - 1] ELSE lru_list_[j]
<1> DEFINE w == Without(i)
           e == lru_list_[i]
<1>1. Len(lru_list_) \in Nat /\ i \in 1..Len(lru_list_) /\ e \in Node
  BY LenProperties DEF CacheTypeOK, Places
<1>2. w \in Seq(Node) /\ Len(w) = Len(lru_list_) - 1
      /\ \A j \in 1..Len(lru_list_) - 1 :
            w[j] = IF j < i THEN lru_list_[j] ELSE lru_list_[j + 1]
  BY WithoutPlaces
<1>3. lru_list_' = <<e>> \o w
  BY DEF Touch
<1> HIDE DEF w, e
<1>4. /\ <<e>> \o w \in Seq(Node)
      /\ Len(<<e>> \o w) = Len(w) + 1
      /\ (<<e>> \o w)[1] = e
      /\ \A j \in 1..Len(w) : (<<e>> \o w)[j + 1] = w[j]
  BY <1>1, <1>2, OneInFront
<1>5. ASSUME NEW j \in Places, j # 1
      PROVE  lru_list_'[j] = IF j <= i THEN lru_list_[j - 1] ELSE lru_list_[j]
  <2>1. j - 1 \in 1..Len(w) /\ j - 1 \in 1..Len(lru_list_) - 1
    BY <1>1, <1>2, <1>5 DEF Places
  <2>2. (<<e>> \o w)[(j - 1) + 1] = w[j - 1]
    BY <2>1, <1>4
  <2>3. w[j - 1] = IF j - 1 < i THEN lru_list_[j - 1] ELSE lru_list_[(j - 1) + 1]
    BY <2>1, <1>2
  <2>4. (j - 1) + 1 = j /\ (j - 1 < i <=> j <= i)
    BY <1>1 DEF Places
  <2> QED  BY <2>2, <2>3, <2>4, <1>3
<1>6. lru_list_' \in Seq(Node) /\ Len(lru_list_') = Len(lru_list_)
  BY <1>1, <1>2, <1>3, <1>4
<1>7. lru_list_'[1] = lru_list_[i]
  BY <1>3, <1>4 DEF e
<1>8. ASSUME NEW j \in Places
      PROVE  lru_list_'[j] =
                IF j = 1 THEN lru_list_[i]
                ELSE IF j <= i THEN lru_list_[j - 1] ELSE lru_list_[j]
  BY <1>5, <1>7
<1> QED  BY <1>6, <1>8

-----------------------------------------------------------------------------
LEMMA InitEstablishes == CacheInit => CacheInv
BY DEF CacheInit, CacheInv, CacheTypeOK, MapSound, OrphansBehind, PlaceOf,
       Places, Live

LEMMA NothingChanges ==
    ASSUME CacheInv, UNCHANGED <<lru_list_, entry, cache_map_>>
    PROVE  CacheInv'
<1>1. Places' = Places /\ Live' = Live
  BY DEF Places, Live
<1>2. CacheTypeOK'
  BY <1>1 DEF CacheInv, CacheTypeOK
<1>3. MapSound'
  BY <1>1 DEF CacheInv, MapSound, PlaceOf
<1>4. OrphansBehind'
  BY <1>1 DEF CacheInv, OrphansBehind, PlaceOf
<1> QED  BY <1>2, <1>3, <1>4 DEF CacheInv

(* A lookup: the list is permuted, and the place that comes to the front is *)
(* a mapped one.                                                            *)
LEMMA GetPreserves ==
    ASSUME CacheInv, NEW p \in Page, Get(p)
    PROVE  CacheInv'
<1>1. CASE p \notin DOMAIN cache_map_ /\ UNCHANGED lru_list_
  BY <1>1, NothingChanges DEF Get
<1>2. CASE \E i \in Places : PlaceOf(p, i) /\ Touch(i)
  <2>1. PICK i \in Places : PlaceOf(p, i) /\ Touch(i)
    BY <1>2
  <2>2. UNCHANGED <<entry, cache_map_>>
    BY DEF Get
  <2> DEFINE old(j) == IF j = 1 THEN i ELSE IF j <= i THEN j - 1 ELSE j
             new(j) == IF j = i THEN 1 ELSE IF j < i THEN j + 1 ELSE j
  <2>3. /\ lru_list_' \in Seq(Node)
        /\ Len(lru_list_') = Len(lru_list_)
        /\ \A j \in Places : lru_list_'[j] = lru_list_[old(j)]
    BY <2>1, TouchPlaces DEF CacheInv
  <2>4. Len(lru_list_) \in Nat /\ Places' = Places
    BY <2>3, LenProperties DEF Places, CacheInv, CacheTypeOK
  <2>5. \A j \in Places : old(j) \in Places /\ new(j) \in Places /\ old(new(j)) = j
    BY <2>4 DEF Places
  <2>6. \A j, k \in Places : old(j) = old(k) => j = k
    BY <2>4 DEF Places
  <2>7. \A j, k \in Places : j < k => j = 1 \/ old(j) < old(k)
    BY <2>4 DEF Places
  <2>8. old(1) = i
    OBVIOUS
  <2> HIDE DEF old, new
  <2>9. Live' = Live
    BY <2>3, <2>4, <2>5 DEF Live
  <2>10. CacheTypeOK'
    BY <2>2, <2>3, <2>9 DEF CacheInv, CacheTypeOK
  <2>11. MapSound'
    <3>1. ASSUME NEW q \in DOMAIN cache_map_
          PROVE  \E j \in Places : /\ lru_list_'[j] = cache_map_[q]
                                   /\ entry[lru_list_'[j]].page_id = q
      <4>1. PICK k \in Places : lru_list_[k] = cache_map_[q]
                               /\ entry[lru_list_[k]].page_id = q
        BY <3>1 DEF CacheInv, MapSound, PlaceOf
      <4>2. new(k) \in Places /\ lru_list_'[new(k)] = lru_list_[k]
        BY <2>3, <2>5
      <4> QED  BY <4>1, <4>2
    <3>2. \A j, k \in Places : lru_list_'[j] = lru_list_'[k] => j = k
      BY <2>3, <2>5, <2>6 DEF CacheInv, MapSound
    <3> QED  BY <3>1, <3>2, <2>2, <2>4 DEF MapSound, PlaceOf
  <2>12. OrphansBehind'
    <3> SUFFICES ASSUME NEW j \in Places, NEW k \in Places, j < k,
                        entry[lru_list_'[j]].page_id = entry[lru_list_'[k]].page_id,
                        entry[lru_list_'[k]].page_id \in DOMAIN cache_map_,
                        lru_list_'[k] = cache_map_[entry[lru_list_'[k]].page_id]
                 PROVE  FALSE
      BY <2>2, <2>4 DEF OrphansBehind, PlaceOf
    <3> DEFINE q == entry[lru_list_'[k]].page_id
    <3>1. /\ lru_list_'[j] = lru_list_[old(j)] /\ lru_list_'[k] = lru_list_[old(k)]
          /\ old(j) \in Places /\ old(k) \in Places
      BY <2>3, <2>5
    <3>2. PlaceOf(q, old(k)) /\ q = entry[lru_list_[old(k)]].page_id
          /\ q = entry[lru_list_[old(j)]].page_id
      BY <3>1 DEF PlaceOf
    <3>3. CASE j = 1
      <4>1. p = q
        BY <3>1, <3>2, <3>3, <2>1, <2>8, PageOfMappedPlace DEF CacheInv
      <4>2. lru_list_[old(j)] = lru_list_[old(k)]
        BY <4>1, <3>2, <3>3, <2>1, <2>8 DEF PlaceOf
      <4> QED  BY <4>2, <3>1, <2>6, <2>4 DEF CacheInv, MapSound, Places
    <3>4. CASE old(j) < old(k)
      BY <3>1, <3>2, <3>4 DEF CacheInv, OrphansBehind
    <3> QED  BY <3>3, <3>4, <2>7
  <2> QED  BY <2>10, <2>11, <2>12 DEF CacheInv
<1> QED  BY <1>1, <1>2 DEF Get

(* An eviction of one page: one place goes, with it the entry of its node   *)
(* and the map's entry of its page.                                         *)
LEMMA EvictPreserves ==
    ASSUME CacheInv, NEW p \in Page, Evict(p)
    PROVE  CacheInv'
<1>1. CASE p \notin DOMAIN cache_map_
  <2>1. UNCHANGED <<lru_list_, entry, cache_map_>>
    BY <1>1 DEF Evict, PlaceOf, cacheVars
  <2> QED  BY <2>1, NothingChanges
<1>2. CASE p \in DOMAIN cache_map_
  <2>1. PICK i \in Places : PlaceOf(p, i) /\ RemoveNode(i)
    BY <1>2 DEF Evict
  <2>2. /\ lru_list_' = Without(i)
        /\ entry' = Restrict(entry, Live \ {lru_list_[i]})
        /\ cache_map_' = Restrict(cache_map_, DOMAIN cache_map_ \ {p})
    BY <1>2, <2>1 DEF Evict, RemoveNode
  <2> DEFINE old(j) == IF j < i THEN j ELSE j + 1
             new(j) == IF j < i THEN j ELSE j - 1
  <2>3. /\ lru_list_' \in Seq(Node)
        /\ Len(lru_list_') = Len(lru_list_) - 1
        /\ \A j \in 1..Len(lru_list_) - 1 : lru_list_'[j] = lru_list_[old(j)]
    BY <2>2, WithoutPlaces DEF CacheInv
  <2>4. Len(lru_list_) \in Nat /\ Places' = 1..Len(lru_list_) - 1
    BY <2>3, LenProperties DEF Places, CacheInv, CacheTypeOK
  <2>5. /\ \A j \in Places' : old(j) \in Places /\ old(j) # i
        /\ \A j \in Places : j # i => new(j) \in Places' /\ old(new(j)) = j
        /\ \A j, k \in Places' : j < k => old(j) < old(k)
        /\ \A j, k \in Places' : old(j) = old(k) => j = k
    BY <2>4 DEF Places
  <2> HIDE DEF old, new
  <2>6. \A j \in Places' : lru_list_'[j] = lru_list_[old(j)]
    BY <2>3, <2>4
  <2>7. Live' = Live \ {lru_list_[i]}
    <3>1. \A j, k \in Places : lru_list_[j] = lru_list_[k] => j = k
      BY DEF CacheInv, MapSound
    <3>2. ASSUME NEW n \in Live' PROVE n \in Live \ {lru_list_[i]}
      <4>1. PICK j \in Places' : n = lru_list_'[j]
        BY DEF Live
      <4> QED  BY <4>1, <3>1, <2>5, <2>6 DEF Live
    <3>3. ASSUME NEW n \in Live \ {lru_list_[i]} PROVE n \in Live'
      <4>1. PICK j \in Places : n = lru_list_[j] /\ j # i
        BY DEF Live
      <4>2. new(j) \in Places' /\ lru_list_'[new(j)] = n
        BY <4>1, <2>5, <2>6
      <4> QED  BY <4>2 DEF Live
    <3> QED  BY <3>2, <3>3
  <2>8. \A n \in Live' : entry'[n] = entry[n]
    BY <2>2, <2>7 DEF Restrict
  <2>9. /\ DOMAIN cache_map_' = DOMAIN cache_map_ \ {p}
        /\ \A q \in DOMAIN cache_map_ \ {p} : cache_map_'[q] = cache_map_[q]
    BY <2>2 DEF Restrict
  <2>10. CacheTypeOK'
    <3>1. entry' \in [Live' -> CacheEntry]
      BY <2>2, <2>7 DEF Restrict, CacheInv, CacheTypeOK
    <3> QED  BY <3>1, <2>3, <2>9 DEF CacheInv, CacheTypeOK
  <2>11. MapSound'
    <3>1. ASSUME NEW q \in DOMAIN cache_map_'
          PROVE  \E j \in Places' : /\ lru_list_'[j] = cache_map_'[q]
                                    /\ entry'[lru_list_'[j]].page_id = q
      <4>1. PICK k \in Places : lru_list_[k] = cache_map_[q]
                               /\ entry[lru_list_[k]].page_id = q
        BY <2>9 DEF CacheInv, MapSound, PlaceOf
      <4>2. k # i
        BY <4>1, <2>1, <2>9, PageOfMappedPlace DEF CacheInv
      <4>3. new(k) \in Places' /\ lru_list_'[new(k)] = lru_list_[k]
        BY <4>2, <2>5, <2>6
      <4>4. lru_list_'[new(k)] \in Live'
        BY <4>3 DEF Live
      <4> QED  BY <4>1, <4>3, <4>4, <2>8, <2>9
    <3>2. \A j, k \in Places' : lru_list_'[j] = lru_list_'[k] => j = k
      BY <2>5, <2>6 DEF CacheInv, MapSound
    <3> QED  BY <3>1, <3>2 DEF MapSound, PlaceOf
  <2>12. OrphansBehind'
    <3> SUFFICES ASSUME NEW j \in Places', NEW k \in Places', j < k,
                        entry'[lru_list_'[j]].page_id = entry'[lru_list_'[k]].page_id,
                        entry'[lru_list_'[k]].page_id \in DOMAIN cache_map_',
                        lru_list_'[k] = cache_map_'[entry'[lru_list_'[k]].page_id]
                 PROVE  FALSE
      BY DEF OrphansBehind, PlaceOf
    <3>1. lru_list_'[j] = lru_list_[old(j)] /\ lru_list_'[k] = lru_list_[old(k)]
          /\ old(j) \in Places /\ old(k) \in Places /\ old(j) < old(k)
      BY <2>5, <2>6
    <3>2. entry'[lru_list_'[j]] = entry[lru_list_[old(j)]]
          /\ entry'[lru_list_'[k]] = entry[lru_list_[old(k)]]
      BY <3>1, <2>8 DEF Live
    <3>3. PlaceOf(entry[lru_list_[old(k)]].page_id, old(k))
      BY <3>1, <3>2, <2>9 DEF PlaceOf
    <3> QED  BY <3>1, <3>2, <3>3 DEF CacheInv, OrphansBehind
  <2> QED  BY <2>10, <2>11, <2>12 DEF CacheInv
<1> QED  BY <1>1, <1>2

(* An insertion into a build whose freed nodes keep their contents: the     *)
(* places of a front part of the list stay, one further back, and every     *)
(* page with an entry behind them leaves the map.                           *)
LEMMA InsertPreserves ==
    ASSUME CacheInv, ~Clobber,
           NEW p \in Page, NEW n \in Node, NEW size \in Size, Insert(p, n, size)
    PROVE  CacheInv'
<1>1. n \notin Live
  BY DEF Insert
<1>0. PICK kept \in 0..Len(lru_list_) : \E lost \in SUBSET Behind(kept) :
         /\ EvictToFit(size, kept, lost)
         /\ lru_list_' = <<n>> \o SubSeq(lru_list_, 1, kept)
         /\ entry' = [m \in {lru_list_[i] : i \in 1..kept} \cup {n} |->
                        IF m = n THEN [page_id |-> p, size |-> size] ELSE entry[m]]
         /\ cache_map_' = [q \in (DOMAIN cache_map_ \ (Behind(kept) \ lost)) \cup {p} |->
                              IF q = p THEN n ELSE cache_map_[q]]
  BY DEF Insert
<1>2. PICK lost \in SUBSET Behind(kept) :
         /\ EvictToFit(size, kept, lost)
         /\ lru_list_' = <<n>> \o SubSeq(lru_list_, 1, kept)
         /\ entry' = [m \in {lru_list_[i] : i \in 1..kept} \cup {n} |->
                        IF m = n THEN [page_id |-> p, size |-> size] ELSE entry[m]]
         /\ cache_map_' = [q \in (DOMAIN cache_map_ \ (Behind(kept) \ lost)) \cup {p} |->
                              IF q = p THEN n ELSE cache_map_[q]]
  BY <1>0
<1>3. lost = {}
  BY <1>2 DEF EvictToFit
<1>4. /\ lru_list_ \in Seq(Node) /\ Len(lru_list_) \in Nat
      /\ kept \in Nat /\ kept <= Len(lru_list_)
  BY LenProperties DEF CacheInv, CacheTypeOK
<1> DEFINE front == SubSeq(lru_list_, 1, kept)
<1>5. /\ front \in Seq(Node) /\ Len(front) = kept
      /\ \A j \in 1..kept : front[j] = lru_list_[j]
  BY <1>4
<1> HIDE DEF front
<1>6. /\ lru_list_' \in Seq(Node) /\ Len(lru_list_') = kept + 1
      /\ lru_list_'[1] = n
      /\ \A j \in 1..kept : lru_list_'[j + 1] = lru_list_[j]
  <2>1. lru_list_' = <<n>> \o front
    BY <1>2 DEF front
  <2>2. /\ <<n>> \o front \in Seq(Node)
        /\ Len(<<n>> \o front) = Len(front) + 1
        /\ (<<n>> \o front)[1] = n
        /\ \A j \in 1..Len(front) : (<<n>> \o front)[j + 1] = front[j]
    BY <1>5, OneInFront
  <2> QED  BY <2>1, <2>2, <1>5
<1>7. /\ Places' = 1..kept + 1
      /\ \A j \in 1..kept : j \in Places
      /\ \A j \in Places' : j = 1 \/ (j - 1 \in 1..kept /\ (j - 1) + 1 = j)
  BY <1>4, <1>6 DEF Places
<1>8. \A j \in Places' : j # 1 => lru_list_'[j] = lru_list_[j - 1] /\ j - 1 \in 1..kept
  BY <1>6, <1>7
<1>9. Live' = {lru_list_[i] : i \in 1..kept} \cup {n}
  <2>1. ASSUME NEW m \in Live' PROVE m \in {lru_list_[i] : i \in 1..kept} \cup {n}
    <3>1. PICK j \in Places' : m = lru_list_'[j]
      BY DEF Live
    <3> QED  BY <3>1, <1>6, <1>8
  <2>2. n \in Live'
    BY <1>4, <1>6, <1>7 DEF Live
  <2>3. ASSUME NEW i \in 1..kept PROVE lru_list_[i] \in Live'
    <3>1. i + 1 \in Places'
      BY <1>4, <1>7
    <3> QED  BY <3>1, <1>6 DEF Live
  <2> QED  BY <2>1, <2>2, <2>3
<1>10. \A i \in 1..kept : lru_list_[i] \in Live /\ lru_list_[i] # n
  BY <1>1, <1>7 DEF Live
<1>11. /\ entry'[n] = [page_id |-> p, size |-> size]
       /\ \A i \in 1..kept : entry'[lru_list_[i]] = entry[lru_list_[i]]
  BY <1>2, <1>10
<1>12. /\ DOMAIN cache_map_' = (DOMAIN cache_map_ \ Behind(kept)) \cup {p}
       /\ cache_map_'[p] = n
       /\ \A q \in DOMAIN cache_map_' : q # p => cache_map_'[q] = cache_map_[q]
  BY <1>2, <1>3
<1>13. CacheTypeOK'
  <2>1. entry' \in [Live' -> CacheEntry]
    <3>1. \A i \in 1..kept : entry[lru_list_[i]] \in CacheEntry
      BY <1>10 DEF CacheInv, CacheTypeOK
    <3>2. DOMAIN entry' = Live'
      BY <1>2, <1>9
    <3>3. \A m \in Live' : entry'[m] \in CacheEntry
      BY <3>1, <1>9, <1>11 DEF CacheEntry
    <3>4. entry' = [m \in DOMAIN entry' |-> entry'[m]]
      BY <1>2
    <3> QED  BY <3>2, <3>3, <3>4
  <2>2. DOMAIN cache_map_' \subseteq Page
    BY <1>12 DEF CacheInv, CacheTypeOK
  <2>3. \A q \in DOMAIN cache_map_' : cache_map_'[q] \in Node
    BY <1>12 DEF CacheInv, CacheTypeOK
  <2> QED  BY <2>1, <2>2, <2>3, <1>6 DEF CacheTypeOK
<1>14. MapSound'
  <2>1. ASSUME NEW q \in DOMAIN cache_map_'
        PROVE  \E j \in Places' : /\ lru_list_'[j] = cache_map_'[q]
                                  /\ entry'[lru_list_'[j]].page_id = q
    <3>1. CASE q = p
      <4>1. 1 \in Places'
        BY <1>4, <1>7
      <4> QED  BY <3>1, <4>1, <1>6, <1>11, <1>12
    <3>2. CASE q # p
      <4>1. PICK k \in Places : lru_list_[k] = cache_map_[q]
                               /\ entry[lru_list_[k]].page_id = q
        BY <3>2, <1>12 DEF CacheInv, MapSound, PlaceOf
      <4>2. k \in 1..kept
        BY <4>1, <3>2, <1>4, <1>12 DEF Behind, Places
      <4>3. k + 1 \in Places' /\ lru_list_'[k + 1] = lru_list_[k]
        BY <4>2, <1>4, <1>6, <1>7
      <4> QED  BY <4>1, <4>2, <4>3, <3>2, <1>11, <1>12
    <3> QED  BY <3>1, <3>2
  <2>2. \A j, k \in Places' : lru_list_'[j] = lru_list_'[k] => j = k
    <3> SUFFICES ASSUME NEW j \in Places', NEW k \in Places',
                        lru_list_'[j] = lru_list_'[k]
                 PROVE  j = k
      OBVIOUS
    <3>1. CASE j = 1 \/ k = 1
      BY <3>1, <1>6, <1>8, <1>10
    <3>2. CASE j # 1 /\ k # 1
      <4>1. lru_list_[j - 1] = lru_list_[k - 1] /\ j - 1 \in Places /\ k - 1 \in Places
        BY <3>2, <1>7, <1>8
      <4>2. j - 1 = k - 1
        BY <4>1 DEF CacheInv, MapSound
      <4> QED  BY <4>2, <1>4, <1>7
    <3> QED  BY <3>1, <3>2
  <2> QED  BY <2>1, <2>2 DEF MapSound, PlaceOf
<1>15. OrphansBehind'
  <2> SUFFICES ASSUME NEW j \in Places', NEW k \in Places', j < k,
                      entry'[lru_list_'[j]].page_id = entry'[lru_list_'[k]].page_id,
                      entry'[lru_list_'[k]].page_id \in DOMAIN cache_map_',
                      lru_list_'[k] = cache_map_'[entry'[lru_list_'[k]].page_id]
               PROVE  FALSE
    BY DEF OrphansBehind, PlaceOf
  <2> DEFINE q == entry'[lru_list_'[k]].page_id
  <2>1. /\ k # 1 /\ lru_list_'[k] = lru_list_[k - 1]
        /\ k - 1 \in 1..kept /\ k - 1 \in Places
    BY <1>4, <1>7, <1>8
  <2>2. q # p /\ q = entry[lru_list_[k - 1]].page_id
    BY <2>1, <1>10, <1>11, <1>12
  <2>3. j # 1
    BY <2>2, <1>6, <1>11
  <2>4. /\ lru_list_'[j] = lru_list_[j - 1] /\ j - 1 \in 1..kept /\ j - 1 \in Places
        /\ j - 1 < k - 1
    BY <2>1, <2>3, <1>4, <1>7, <1>8
  <2>5. entry[lru_list_[j - 1]].page_id = q
    BY <2>4, <1>11
  <2>6. PlaceOf(q, k - 1)
    BY <2>1, <2>2, <1>12 DEF PlaceOf
  <2> QED  BY <2>1, <2>2, <2>4, <2>5, <2>6 DEF CacheInv, OrphansBehind
<1> QED  BY <1>13, <1>14, <1>15 DEF CacheInv

-----------------------------------------------------------------------------
(* The map never points to freed memory and never to another page's node,   *)
(* and a node it has forgotten lies behind the one it points to, however    *)
(* lookups, insertions (of resident pages too) and evictions follow one     *)
(* another.                                                                 *)
THEOREM CacheInvariant == ~Clobber => (CacheSpec => []CacheInv)
<1> SUFFICES ASSUME ~Clobber PROVE CacheSpec => []CacheInv
  OBVIOUS
<1>1. CacheInit => CacheInv
  BY InitEstablishes
<1>2. CacheInv /\ [CacheNext]_cacheVars => CacheInv'
  <2> SUFFICES ASSUME CacheInv, [CacheNext]_cacheVars PROVE CacheInv'
    OBVIOUS
  <2>1. ASSUME NEW p \in Page, Get(p) PROVE CacheInv'
    BY <2>1, GetPreserves
  <2>2. ASSUME NEW p \in Page, Evict(p) PROVE CacheInv'
    BY <2>2, EvictPreserves
  <2>3. ASSUME NEW p \in Page, NEW n \in Node, NEW size \in Size, Insert(p, n, size)
        PROVE  CacheInv'
    BY <2>3, InsertPreserves
  <2>4. CASE UNCHANGED cacheVars
    BY <2>4, NothingChanges DEF cacheVars
  <2> QED  BY <2>1, <2>2, <2>3, <2>4 DEF CacheNext
<1> QED  BY <1>1, <1>2, PTL DEF CacheSpec

THEOREM CacheTypeCorrect == ~Clobber => (CacheSpec => []CacheTypeOK)
BY CacheInvariant, PTL DEF CacheInv

(* "Returns pointer to resident memory" (paging_manager.h:48).              *)
THEOREM CacheMapSound == ~Clobber => (CacheSpec => []MapSound)
BY CacheInvariant, PTL DEF CacheInv

(* Evicting from the back never frees the node the map points to while an   *)
(* older copy of the page stays (paging_manager.cpp:36-39, 57-66).          *)
THEOREM CacheOrphansBehind == ~Clobber => (CacheSpec => []OrphansBehind)
BY CacheInvariant, PTL DEF CacheInv

-----------------------------------------------------------------------------
(* The byte count. *)

Sized == [n \in Node |-> entry[n].size]

\* What the list weighs at some places is what the nodes at these places weigh.
LEMMA WeightOfNodes ==
    ASSUME CacheInv, NEW places \in SUBSET Places, NEW nodes,
           \A i \in places : lru_list_[i] \in nodes,
           \A n \in nodes : \E i \in places : n = lru_list_[i]
    PROVE  /\ IsFiniteSet(nodes)
           /\ Weight(places) = SumFunctionOnSet(Sized, nodes)
<1> DEFINE f == [i \in Places |-> entry[lru_list_[i]].size]
<1>1. Len(lru_list_) \in Nat /\ \A i \in Places : lru_list_[i] \in Node
  BY LenProperties, ElementOfSeq DEF CacheInv, CacheTypeOK, Places
<1>2. IsFiniteSet(places)
  <2>1. IsFiniteSet(Places)
    BY <1>1, FS_Interval DEF Places
  <2> QED  BY <2>1, FS_Subset
<1>3. \A i \in Places : entry[lru_list_[i]].size \in Nat
  BY PageCacheAssumption DEF CacheInv, CacheTypeOK, Live, CacheEntry
<1>4. \A i \in places : f[i] \in Nat /\ Sized[lru_list_[i]] = f[i]
  BY <1>1, <1>3 DEF Sized
<1>5. \A i, j \in places : lru_list_[i] = lru_list_[j] => i = j
  BY DEF CacheInv, MapSound
<1> HIDE DEF f
<1>6. Moves(lru_list_, f, places, Sized, nodes)
  BY <1>4, <1>5 DEF Moves
<1>7. IsFiniteSet(nodes) /\ SumFunctionOnSet(Sized, nodes) = SumFunctionOnSet(f, places)
  BY <1>2, <1>6, SumMoved
<1> QED  BY <1>7 DEF f, Weight

CountsNodes ==
    /\ IsFiniteSet(Live)
    /\ Weight(Places) = SumFunctionOnSet(Sized, Live)
    /\ \A n \in Live : n \in Node /\ Sized[n] \in Nat

LEMMA CountOfNodes == CacheInv => CountsNodes
<1> SUFFICES ASSUME CacheInv PROVE CountsNodes
  OBVIOUS
<1>1. \A i \in Places : lru_list_[i] \in Node
  BY LenProperties, ElementOfSeq DEF CacheInv, CacheTypeOK, Places
<1>2. \A i \in Places : lru_list_[i] \in Live /\ entry[lru_list_[i]].size \in Nat
  BY PageCacheAssumption DEF CacheInv, CacheTypeOK, Live, CacheEntry
<1>3. \A n \in Live : \E i \in Places : n = lru_list_[i]
  BY DEF Live
<1>4. IsFiniteSet(Live) /\ Weight(Places) = SumFunctionOnSet(Sized, Live)
  BY <1>2, <1>3, WeightOfNodes
<1>5. ASSUME NEW n \in Live PROVE n \in Node /\ Sized[n] \in Nat
  BY <1>1, <1>2, <1>3 DEF Sized
<1> QED  BY <1>4, <1>5 DEF CountsNodes

\* What is behind the first places weighs what its nodes weigh.
LEMMA WeightBehind ==
    ASSUME CacheInv, NEW kept \in 0..Len(lru_list_)
    PROVE  LET nodes == {lru_list_[i] : i \in kept + 1 .. Len(lru_list_)} IN
           /\ IsFiniteSet(nodes) /\ nodes \subseteq Live
           /\ Weight(kept + 1 .. Len(lru_list_)) = SumFunctionOnSet(Sized, nodes)
<1> DEFINE behind == kept + 1 .. Len(lru_list_)
           nodes == {lru_list_[i] : i \in behind}
<1>1. Len(lru_list_) \in Nat /\ behind \in SUBSET Places
  BY LenProperties DEF CacheInv, CacheTypeOK, Places
<1>2. /\ \A i \in behind : lru_list_[i] \in nodes
      /\ \A n \in nodes : \E i \in behind : n = lru_list_[i]
      /\ nodes \subseteq Live
  BY <1>1 DEF Live
<1> HIDE DEF behind, nodes
<1>3. IsFiniteSet(nodes) /\ Weight(behind) = SumFunctionOnSet(Sized, nodes)
  BY <1>1, <1>2, WeightOfNodes
<1> QED  BY <1>2, <1>3 DEF behind, nodes

\* As long as every node keeps its size only the nodes matter.
LEMMA SizesKept ==
    ASSUME NEW S, IsFiniteSet(S), S \subseteq Node, \A n \in S : entry'[n] = entry[n]
    PROVE  SumFunctionOnSet(Sized', S) = SumFunctionOnSet(Sized, S)
<1>1. \A n \in S : Sized'[n] = Sized[n]
  BY DEF Sized
<1> QED  BY <1>1, SumSame

LEMMA GetBounded ==
    ASSUME CacheInv, CacheInv', CacheBounded, NEW p \in Page, Get(p)
    PROVE  CacheBounded'
<1>1. Live' = Live /\ Len(lru_list_') = Len(lru_list_)
  <2>1. CASE UNCHANGED lru_list_
    BY <2>1 DEF Live, Places
  <2>2. ASSUME NEW i \in Places, Touch(i)
        PROVE  Live' = Live /\ Len(lru_list_') = Len(lru_list_)
    <3>1. /\ Len(lru_list_') = Len(lru_list_)
          /\ \A j \in Places : lru_list_'[j] =
                IF j = 1 THEN lru_list_[i]
                ELSE IF j <= i THEN lru_list_[j - 1] ELSE lru_list_[j]
      BY <2>2, TouchPlaces DEF CacheInv
    <3>2. Len(lru_list_) \in Nat /\ Places' = Places
      BY <3>1, LenProperties DEF CacheInv, CacheTypeOK, Places
    <3>3. ASSUME NEW j \in Places PROVE lru_list_'[j] \in Live
      <4>1. j # 1 => j - 1 \in Places
        BY <3>2 DEF Places
      <4> QED  BY <3>1, <4>1 DEF Live
    <3>4. ASSUME NEW j \in Places PROVE \E k \in Places : lru_list_'[k] = lru_list_[j]
      <4>1. CASE j = i
        BY <3>1, <3>2, <4>1 DEF Places
      <4>2. CASE j < i
        <5>1. j + 1 \in Places /\ j + 1 # 1 /\ j + 1 <= i /\ (j + 1) - 1 = j
          BY <3>2, <4>2 DEF Places
        <5> QED  BY <3>1, <5>1
      <4>3. CASE j > i
        <5>1. j # 1 /\ ~(j <= i)
          BY <3>2, <4>3 DEF Places
        <5> QED  BY <3>1, <5>1
      <4> QED  BY <3>2, <4>1, <4>2, <4>3 DEF Places
    <3>5. Live' = {lru_list_'[j] : j \in Places}
      BY <3>2 DEF Live
    <3>6. Live' \subseteq Live
      BY <3>3, <3>5
    <3>7. Live \subseteq Live'
      BY <3>4, <3>5 DEF Live
    <3> QED  BY <3>1, <3>6, <3>7
  <2> QED  BY <2>1, <2>2 DEF Get
<1>2. UNCHANGED <<entry, current_cache_bytes_>>
  BY DEF Get
<1>3. CountsNodes
  BY CountOfNodes
<1>4. CountsNodes'
  BY CountOfNodes, PTL
<1>5. Sized' = Sized
  BY <1>2 DEF Sized
<1>6. Weight(Places)' = Weight(Places)
  BY <1>1, <1>3, <1>4, <1>5 DEF CountsNodes
<1> QED  BY <1>1, <1>2, <1>6 DEF CacheBounded

LEMMA EvictBounded ==
    ASSUME CacheInv, CacheInv', CacheBounded, NEW p \in Page, Evict(p)
    PROVE  CacheBounded'
<1>1. CASE p \notin DOMAIN cache_map_
  <2>1. UNCHANGED cacheVars
    BY <1>1 DEF Evict, PlaceOf
  <2> QED  BY <2>1 DEF cacheVars, CacheBounded, Weight, Places
<1>2. CASE p \in DOMAIN cache_map_
  <2>1. PICK i \in Places : RemoveNode(i)
    BY <1>2 DEF Evict
  <2> DEFINE n == lru_list_[i]
             rest == SumFunctionOnSet(Sized, Live \ {n})
  <2>2. /\ current_cache_bytes_' = current_cache_bytes_ - entry[n].size
        /\ Len(lru_list_') = Len(lru_list_) - 1 /\ Len(lru_list_) \in Nat
        /\ entry' = Restrict(entry, Live \ {n})
    BY <2>1, WithoutPlaces, LenProperties DEF RemoveNode, CacheInv, CacheTypeOK
  <2>3. Live' = Live \ {n} /\ \A m \in Live' : entry'[m] = entry[m]
    <3>1. DOMAIN entry' = Live'
      BY DEF CacheInv, CacheTypeOK
    <3> QED  BY <2>2, <3>1 DEF Restrict
  <2>4. CountsNodes /\ CountsNodes'
    BY CountOfNodes, PTL
  <2>5. n \in Live /\ Sized[n] = entry[n].size /\ Sized[n] \in Nat
    BY <2>4 DEF Live, Sized, CountsNodes
  <2>6. Weight(Places)' = rest
    BY <2>3, <2>4, SizesKept DEF CountsNodes
  <2>7. Weight(Places) = Sized[n] + rest
    BY <2>4, <2>5, SumElement DEF CountsNodes
  <2>8. rest \in Nat
    <3>1. IsFiniteSet(Live \ {n}) /\ \A m \in Live \ {n} : Sized[m] \in Nat
      BY <2>4, FS_RemoveElement DEF CountsNodes
    <3> QED  BY <3>1, SumInNat
  <2>9. ASSUME Len(lru_list_) = 1 PROVE rest = 0
    <3>1. Live \ {n} = {}
      BY <2>9 DEF Live, Places
    <3> QED  BY <3>1, SumEmpty
  <2> HIDE DEF n, rest
  <2>10. current_cache_bytes_' = rest
    BY <2>2, <2>5, <2>7, <2>8 DEF CacheBounded
  <2>11. rest <= MaxCacheBytes \/ Len(lru_list_) = 1
    BY <2>5, <2>7, <2>8, PageCacheAssumption DEF CacheBounded
  <2>12. current_cache_bytes_' <= MaxCacheBytes
    BY <2>9, <2>10, <2>11, PageCacheAssumption
  <2> QED  BY <2>6, <2>10, <2>12 DEF CacheBounded
<1> QED  BY <1>1, <1>2

LEMMA InsertBounded ==
    ASSUME CacheInv, CacheInv', CacheBounded,
           NEW p \in Page, NEW n \in Node, NEW size \in Size, Insert(p, n, size)
    PROVE  CacheBounded'
<1>1. PICK kept \in 0..Len(lru_list_) :
         /\ FitsWith(kept, size)
         /\ lru_list_' = <<n>> \o SubSeq(lru_list_, 1, kept)
         /\ entry' = [m \in {lru_list_[i] : i \in 1..kept} \cup {n} |->
                        IF m = n THEN [page_id |-> p, size |-> size] ELSE entry[m]]
         /\ current_cache_bytes_' =
               current_cache_bytes_ - Weight(kept + 1 .. Len(lru_list_)) + size
  BY DEF Insert, EvictToFit
<1> DEFINE front == {lru_list_[i] : i \in 1..kept}
           behind == {lru_list_[i] : i \in kept + 1 .. Len(lru_list_)}
           w == SumFunctionOnSet(Sized, front)
           v == SumFunctionOnSet(Sized, behind)
<1>2. Len(lru_list_) \in Nat /\ size \in Nat /\ n \notin Live
  BY LenProperties, PageCacheAssumption DEF CacheInv, CacheTypeOK, Insert
<1>3. CountsNodes /\ CountsNodes'
  BY CountOfNodes, PTL
<1>4. Live = front \cup behind /\ front \cap behind = {}
  <2>1. \A i, j \in Places : lru_list_[i] = lru_list_[j] => i = j
    BY DEF CacheInv, MapSound
  <2>2. /\ Places = 1..kept \cup (kept + 1 .. Len(lru_list_))
        /\ 1..kept \cap (kept + 1 .. Len(lru_list_)) = {}
    BY <1>2 DEF Places
  <2>3. Live = front \cup behind
    BY <2>2 DEF Live
  <2>4. front \cap behind = {}
    BY <2>1, <2>2
  <2> QED  BY <2>3, <2>4
<1>5. /\ IsFiniteSet(behind)
      /\ Weight(kept + 1 .. Len(lru_list_)) = v
  BY WeightBehind
<1>6. Live' = front \cup {n} /\ n \notin front
  <2>1. DOMAIN entry' = Live'
    BY DEF CacheInv, CacheTypeOK
  <2> QED  BY <1>1, <1>2, <1>4, <2>1
<1>7. Sized'[n] = size /\ \A m \in front : entry'[m] = entry[m]
  BY <1>1, <1>6 DEF Sized
<1> HIDE DEF front, behind
<1>8. /\ IsFiniteSet(front) /\ front \subseteq Node
      /\ \A m \in Live : Sized[m] \in Nat
  <2>1. IsFiniteSet(front)
    BY <1>3, <1>4, FS_Subset DEF CountsNodes
  <2> QED  BY <1>3, <1>4, <2>1 DEF CountsNodes
<1>9. Weight(Places) = w + v /\ w \in Nat /\ v \in Nat
  <2>1. Weight(Places) = SumFunctionOnSet(Sized, front \cup behind)
    BY <1>3, <1>4 DEF CountsNodes
  <2>2. SumFunctionOnSet(Sized, front \cup behind) = w + v
    BY <1>4, <1>5, <1>8, SumUnion
  <2>3. w \in Nat /\ v \in Nat
    BY <1>4, <1>5, <1>8, SumInNat
  <2> QED  BY <2>1, <2>2, <2>3
<1>10. Weight(Places)' = size + w
  <2>1. SumFunctionOnSet(Sized', front) = w
    BY <1>7, <1>8, SizesKept
  <2>2. \A m \in front \cup {n} : Sized'[m] \in Nat
    BY <1>3, <1>6 DEF CountsNodes
  <2>3. SumFunctionOnSet(Sized', front \cup {n}) = Sized'[n] + SumFunctionOnSet(Sized', front)
    BY <1>6, <1>8, <2>2, SumAdd
  <2> QED  BY <1>3, <1>6, <1>7, <2>1, <2>3 DEF CountsNodes
<1> HIDE DEF w, v
<1>11. current_cache_bytes_' = size + w
  BY <1>1, <1>2, <1>5, <1>9 DEF CacheBounded
<1>12. CASE kept = 0
  <2>1. Len(lru_list_') = 1
    <3>1. SubSeq(lru_list_, 1, 0) = <<>>
      BY DEF CacheInv, CacheTypeOK
    <3> QED  BY <1>1, <1>12, <3>1
  <2> QED  BY <1>10, <1>11, <2>1 DEF CacheBounded
<1>13. CASE kept # 0
  <2>1. w + size <= MaxCacheBytes
    BY <1>1, <1>2, <1>5, <1>9, <1>13 DEF FitsWith, CacheBounded
  <2> QED  BY <1>2, <1>9, <1>10, <1>11, <2>1 DEF CacheBounded
<1> QED  BY <1>12, <1>13

(* "until total cache size is below limit" (paging_manager.h:60): whatever  *)
(* is inserted, reloaded and evicted in whatever order, the byte count is   *)
(* what the list holds, and above the limit only for a single page.         *)
THEOREM CacheAlwaysBounded == ~Clobber => (CacheSpec => []CacheBounded)
<1> SUFFICES ASSUME ~Clobber PROVE CacheSpec => []CacheBounded
  OBVIOUS
<1>1. CacheInit => CacheBounded
  <2> SUFFICES ASSUME CacheInit PROVE CacheBounded
    OBVIOUS
  <2>1. Places = {} /\ current_cache_bytes_ = 0
    BY DEF CacheInit, Places
  <2>2. Weight(Places) = 0
    BY <2>1, SumEmpty DEF Weight
  <2> QED  BY <2>1, <2>2, PageCacheAssumption DEF CacheBounded
<1>2. CacheInv /\ CacheInv' /\ CacheBounded /\ [CacheNext]_cacheVars => CacheBounded'
  <2> SUFFICES ASSUME CacheInv, CacheInv', CacheBounded, [CacheNext]_cacheVars
               PROVE  CacheBounded'
    OBVIOUS
  <2>1. ASSUME NEW p \in Page, Get(p) PROVE CacheBounded'
    BY <2>1, GetBounded
  <2>2. ASSUME NEW p \in Page, Evict(p) PROVE CacheBounded'
    BY <2>2, EvictBounded
  <2>3. ASSUME NEW p \in Page, NEW n \in Node, NEW size \in Size, Insert(p, n, size)
        PROVE  CacheBounded'
    BY <2>3, InsertBounded
  <2>4. CASE UNCHANGED cacheVars
    BY <2>4 DEF cacheVars, CacheBounded, Weight, Places
  <2> QED  BY <2>1, <2>2, <2>3, <2>4 DEF CacheNext
<1> QED  BY <1>1, <1>2, CacheInvariant, PTL DEF CacheSpec

=============================================================================
