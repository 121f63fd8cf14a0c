----------------------------- MODULE PagingProofs -----------------------------
(***************************************************************************)
(* Proofs about PrefetchQueue, about SSDPagingManager, which composes it   *)
(* with the cache, and about ModelLoader, which calls the manager: for any *)
(* number of calling threads, any pages and requests and any bounds.  What *)
(* PageCacheProofs says of the cache holds in the compositions.            *)
(***************************************************************************)
EXTENDS ModelLoader, PageCacheProofs

-----------------------------------------------------------------------------
(* PrefetchQueue: the worker is never put to sleep over a request, and it  *)
(* is never joined over one it has taken.                                  *)

(* The inductive invariant: NoRequestSleeps needs that a caller cannot push *)
(* between the test and the suspension, which Push's guard gives.           *)
QueueInv == QueueTypeOK /\ NoRequestSleeps /\ NothingHalfServed

LEMMA QueueInitEstablishes == QueueInit => QueueInv
BY PrefetchQueueAssumption
   DEF QueueInit, QueueInv, QueueTypeOK, NoRequestSleeps, NothingHalfServed,
       Pending, WorkerPlaces, DestroyerPlaces

LEMMA NoQueueChange ==
    ASSUME QueueInv, UNCHANGED queueVars
    PROVE  QueueInv'
BY DEF QueueInv, QueueTypeOK, NoRequestSleeps, NothingHalfServed, Pending, queueVars

LEMMA PushPreserves ==
    ASSUME QueueInv, NEW r, Push(r)
    PROVE  QueueInv'
<1>0. prefetch_queue_' \in [Request -> 0..MaxQueued]
  <2>1. CASE r \in Request
    BY <2>1, PrefetchQueueAssumption DEF QueueInv, QueueTypeOK, Push
  <2>2. CASE r \notin Request
    BY <2>2 DEF QueueInv, QueueTypeOK, Push
  <2> QED  BY <2>1, <2>2
<1>1. QueueTypeOK'
  BY <1>0 DEF QueueInv, QueueTypeOK, Push, Woken, WorkerPlaces, DestroyerPlaces
<1>2. worker' \notin {"suspending", "asleep"}
  BY DEF Push, Woken
<1>3. NoRequestSleeps'
  BY <1>2 DEF NoRequestSleeps
<1>4. NothingHalfServed'
  BY DEF QueueInv, NothingHalfServed, Push, Woken
<1> QED  BY <1>1, <1>3, <1>4 DEF QueueInv

LEMMA WorkerPreserves ==
    ASSUME QueueInv, WorkerStep \/ WorkerServed \/ SpuriousWakeup
    PROVE  QueueInv'
<1>1. CASE WorkerLoop \/ WorkerFindsNothing \/ WorkerSuspends \/ WorkerStops
  <2>1. UNCHANGED <<prefetch_queue_, prefetch_running_, taken, destroyer>>
    BY <1>1 DEF WorkerLoop, WorkerFindsNothing, WorkerSuspends, WorkerStops
  <2>2. QueueTypeOK'
    BY <1>1, <2>1 DEF QueueInv, QueueTypeOK, WorkerPlaces, WorkerLoop,
                      WorkerFindsNothing, WorkerSuspends, WorkerStops
  <2>3. NoRequestSleeps'
    BY <1>1, <2>1 DEF QueueInv, NoRequestSleeps, Pending, WorkerLoop,
                      WorkerFindsNothing, WorkerSuspends, WorkerStops
  <2>4. NothingHalfServed'
    BY <1>1, <2>1 DEF QueueInv, NothingHalfServed, WorkerLoop,
                      WorkerFindsNothing, WorkerSuspends, WorkerStops
  <2> QED  BY <2>2, <2>3, <2>4 DEF QueueInv
<1>2. ASSUME NEW r \in Request, WorkerTakes(r) PROVE QueueInv'
  <2>1. QueueTypeOK'
    BY <1>2, PrefetchQueueAssumption
       DEF QueueInv, QueueTypeOK, WorkerTakes, WorkerPlaces, Pending
  <2>2. NoRequestSleeps' /\ NothingHalfServed'
    BY <1>2 DEF QueueInv, NoRequestSleeps, NothingHalfServed, WorkerTakes
  <2> QED  BY <2>1, <2>2 DEF QueueInv
<1>3. CASE WorkerServed
  BY <1>3 DEF QueueInv, QueueTypeOK, NoRequestSleeps, NothingHalfServed,
              WorkerServed, WorkerPlaces
<1>4. CASE SpuriousWakeup
  BY <1>4 DEF QueueInv, QueueTypeOK, NoRequestSleeps, NothingHalfServed,
              SpuriousWakeup, WorkerPlaces
<1> QED  BY <1>1, <1>2, <1>3, <1>4 DEF WorkerStep

LEMMA DestructorPreserves ==
    ASSUME QueueInv, ClearRunning \/ NotifyAll \/ Join
    PROVE  QueueInv'
<1>1. CASE ClearRunning
  BY <1>1 DEF QueueInv, QueueTypeOK, NoRequestSleeps, NothingHalfServed,
              ClearRunning, DestroyerPlaces
<1>2. CASE NotifyAll
  BY <1>2 DEF QueueInv, QueueTypeOK, NoRequestSleeps, NothingHalfServed, Pending,
              NotifyAll, Woken, WorkerPlaces, DestroyerPlaces
<1>3. CASE Join
  BY <1>3 DEF QueueInv, QueueTypeOK, NoRequestSleeps, NothingHalfServed, Pending,
              Join, DestroyerPlaces
<1> QED  BY <1>1, <1>2, <1>3

-----------------------------------------------------------------------------
(* No request is left to a sleeping worker, none is half served when the    *)
(* worker has been joined (paging_manager.cpp:103-108, 311-316, 404-417).   *)
THEOREM QueueInvariant == QueueSpec => []QueueInv
<1>1. QueueInit => QueueInv
  BY QueueInitEstablishes
<1>2. QueueInv /\ [QueueNext]_queueVars => QueueInv'
  <2> SUFFICES ASSUME QueueInv, [QueueNext]_queueVars PROVE QueueInv'
    OBVIOUS
  <2>1. ASSUME NEW r \in Request, Push(r) PROVE QueueInv'
    BY <2>1, PushPreserves
  <2>2. CASE WorkerStep \/ WorkerServed \/ SpuriousWakeup
    BY <2>2, WorkerPreserves
  <2>3. CASE ClearRunning \/ NotifyAll \/ Join
    BY <2>3, DestructorPreserves
  <2>4. CASE UNCHANGED queueVars
    BY <2>4, NoQueueChange
  <2> QED  BY <2>1, <2>2, <2>3, <2>4 DEF QueueNext
<1> QED  BY <1>1, <1>2, PTL DEF QueueSpec

THEOREM QueueTypeCorrect == QueueSpec => []QueueTypeOK
BY QueueInvariant, PTL DEF QueueInv

(* A caller's request never falls between the worker's test and its sleep.  *)
THEOREM QueueNoRequestSleeps == QueueSpec => []NoRequestSleeps
BY QueueInvariant, PTL DEF QueueInv

(* The destructor's join returns only when no request is half served.       *)
THEOREM QueueNothingHalfServed == QueueSpec => []NothingHalfServed
BY QueueInvariant, PTL DEF QueueInv


-----------------------------------------------------------------------------
(* What an operation of the cache does to the nodes of its list. *)

LEMMA TouchLive ==
    ASSUME CacheTypeOK, NEW i \in Places, Touch(i)
    PROVE  Live' \subseteq Live
  <1>1. /\ Len(lru_list_') = Len(lru_list_)
        /\ \A j \in Places : lru_list_'[j] =
              IF j = 1 THEN lru_list_[i]
              ELSE IF j <= i THEN lru_list_[j - 1] ELSE lru_list_[j]
    BY TouchPlaces
  <1>2. Len(lru_list_) \in Nat
    BY LenProperties DEF CacheTypeOK
  <1>3. ASSUME NEW j \in Places PROVE lru_list_'[j] \in Live
    <2>1. CASE j = 1
      BY <1>1, <2>1 DEF Live
    <2>2. CASE j # 1 /\ j <= i
      <3>1. j - 1 \in Places
        BY <1>2, <2>2 DEF Places
      <3> QED BY <1>1, <2>2, <3>1 DEF Live
    <2>3. CASE j # 1 /\ ~(j <= i)
      BY <1>1, <2>3 DEF Live
    <2> QED BY <2>1, <2>2, <2>3
  <1>4. Places' = Places
    BY <1>1 DEF Places
  <1>5. Live' = {lru_list_'[j] : j \in Places}
    BY <1>4 DEF Live
  <1> QED BY <1>3, <1>5

LEMMA GetLive ==
    ASSUME CacheTypeOK, NEW p, Get(p)
    PROVE  Live' \subseteq Live
  <1>1. CASE UNCHANGED lru_list_
    BY <1>1 DEF Live, Places
  <1> QED BY <1>1, TouchLive DEF Get

LEMMA EvictLive ==
    ASSUME CacheTypeOK, NEW p, Evict(p)
    PROVE  Live' \subseteq Live
  <1>1. CASE UNCHANGED lru_list_
    BY <1>1 DEF Live, Places
  <1>2. ASSUME NEW i \in Places, RemoveNode(i) PROVE Live' \subseteq Live
    <2>1. lru_list_' = Without(i)
      BY <1>2 DEF RemoveNode
    <2>2. /\ Len(lru_list_') = Len(lru_list_) - 1
          /\ \A j \in 1..Len(lru_list_) - 1 :
                lru_list_'[j] = IF j < i THEN lru_list_[j] ELSE lru_list_[j + 1]
      BY <2>1, WithoutPlaces
    <2>3. Len(lru_list_) \in Nat
      BY LenProperties DEF CacheTypeOK
    <2>4. ASSUME NEW j \in 1..Len(lru_list_) - 1 PROVE lru_list_'[j] \in Live
      <3>1. j \in Places /\ j + 1 \in Places
        BY <2>3 DEF Places
      <3> QED BY <2>2, <3>1 DEF Live
    <2>5. Live' = {lru_list_'[j] : j \in 1..Len(lru_list_) - 1}
      BY <2>2 DEF Live, Places
    <2> QED BY <2>4, <2>5
  <1> QED BY <1>1, <1>2 DEF Evict, cacheVars

LEMMA InsertLive ==
    ASSUME CacheTypeOK, NEW p, NEW n \in Node, NEW size, Insert(p, n, size)
    PROVE  Live' \subseteq Live \cup {n}
  <1>1. PICK kept \in 0..Len(lru_list_) :
            lru_list_' = <<n>> \o SubSeq(lru_list_, 1, kept)
    BY DEF Insert
  <1> DEFINE rest == SubSeq(lru_list_, 1, kept)
  <1>2. Len(lru_list_) \in Nat /\ lru_list_ \in Seq(Node)
    BY LenProperties DEF CacheTypeOK
  <1>3. rest \in Seq(Node) /\ Len(rest) = kept /\ \A j \in 1..kept : rest[j] = lru_list_[j]
    BY <1>2
  <1> HIDE DEF rest
  <1>4. /\ Len(<<n>> \o rest) = kept + 1
        /\ (<<n>> \o rest)[1] = n
        /\ \A j \in 1..kept : (<<n>> \o rest)[j + 1] = rest[j]
    BY <1>3, OneInFront
  <1>5. lru_list_' = <<n>> \o rest
    BY <1>1 DEF rest
  <1>6. ASSUME NEW j \in 1..kept + 1 PROVE lru_list_'[j] \in Live \cup {n}
    <2>1. CASE j = 1
      BY <1>4, <1>5, <2>1
    <2>2. CASE j # 1
      <3>1. j - 1 \in 1..kept /\ j - 1 \in Places /\ (j - 1) + 1 = j
        BY <1>2, <2>2 DEF Places
      <3> QED BY <1>3, <1>4, <1>5, <3>1 DEF Live
    <2> QED BY <2>1, <2>2
  <1>7. Live' = {lru_list_'[j] : j \in 1..kept + 1}
    BY <1>4, <1>5 DEF Live, Places
  <1> QED BY <1>6, <1>7

-----------------------------------------------------------------------------
(* The threads. *)

\* Where a call is about one page.
OnePage == {"get", "find", "map", "copy", "read", "reading", "insert", "mark", "fetch",
            "probe", "push"}

FrameOK(f) ==
    /\ f \in [at : CallPlaces, page : SUBSET Page, buffer : SUBSET Node,
              base : 0..MaxOpens, fast : BOOLEAN, plan : {f.plan},
              trim : SUBSET (0..NLayers - 1), todo : SUBSET Page,
              held : SUBSET Node, priority : Int]
    /\ f.at \in OnePage => \E p \in Page : f.page = {p}

FramesInv ==
    /\ frame = [t \in Thread |-> frame[t]]
    /\ \A t \in Thread : FrameOK(frame[t])
    /\ BuffersPrivate

MembersInv ==
    /\ DOMAIN page_descriptors_ \subseteq Page
    /\ \A p \in DOMAIN page_descriptors_ : page_descriptors_[p] \in BOOLEAN
    /\ descriptor_mutex_ \in Caller \cup {Nobody}
    /\ file_handle_ \in Model \cup {NoModel}
    /\ mapped_base_ \in 0..MaxOpens
    /\ mapped_size_ \in {0, FileSize}
    /\ view_end \in {0, ChunkSize, FileSize}
    /\ mappings \in 0..MaxOpens
    /\ bytes \in [Node -> {"none", "zeros", "own", "foreign"}]

PagingInv == CacheInv /\ QueueInv /\ MembersInv /\ FramesInv

LEMMA PagingInit == Init => PagingInv
  <1> SUFFICES ASSUME Init PROVE PagingInv
    OBVIOUS
  <1> USE DEF Init, StartWith
  <1>1. CacheInv /\ QueueInv
    BY InitEstablishes, QueueInitEstablishes
  <1>2. MembersInv
    BY PagingAssumption DEF MembersInv
  <1>3. \A t \in Thread : frame[t] = Idle
    OBVIOUS
  <1>4. FrameOK(Idle) /\ Idle.buffer = {}
    BY PagingAssumption DEF FrameOK, Idle, CallPlaces, OnePage
  <1>5. FramesInv
    BY <1>3, <1>4 DEF FramesInv, BuffersPrivate
  <1> QED BY <1>1, <1>2, <1>5 DEF PagingInv

\* The page t's call is about.
LEMMA PageOf ==
    ASSUME FramesInv, NEW t \in Thread, frame[t].at \in OnePage
    PROVE  Of(t) \in Page /\ frame[t].page = {Of(t)}
  <1>1. PICK p \in Page : frame[t].page = {p}
    BY DEF FramesInv, FrameOK
  <1> QED BY <1>1 DEF Of

\* One thread's frame changes; nobody else's buffer gets into the list.
LEMMA OneFrame ==
    ASSUME FramesInv, NEW t \in Thread, NEW f,
           frame' = [frame EXCEPT ![t] = f],
           FrameOK(f),
           f.buffer \cap Live' = {},
           \A u \in Thread \ {t} : /\ f.buffer \cap frame[u].buffer = {}
                                 /\ Live' \cap frame[u].buffer = {}
    PROVE  FramesInv'
  <1>1. frame' = [u \in Thread |-> IF u = t THEN f ELSE frame[u]]
    BY DEF FramesInv
  <1>2. \A u \in Thread : frame'[u] = IF u = t THEN f ELSE frame[u]
    BY <1>1
  <1>3. \A u \in Thread : FrameOK(frame'[u])
    BY <1>2 DEF FramesInv
  <1>4. BuffersPrivate'
    BY <1>2 DEF FramesInv, BuffersPrivate
  <1>5. frame' = [u \in Thread |-> frame'[u]]
    BY <1>1
  <1> QED BY <1>3, <1>4, <1>5 DEF FramesInv, FrameOK

\* The usual case: t keeps its buffer or gives it up, the list gains nothing.
LEMMA QuietFrame ==
    ASSUME FramesInv, NEW t \in Thread, NEW f,
           frame' = [frame EXCEPT ![t] = f],
           FrameOK(f),
           f.buffer \subseteq frame[t].buffer,
           Live' \subseteq Live
    PROVE  FramesInv'
  <1>1. f.buffer \cap Live' = {}
    BY DEF FramesInv, BuffersPrivate
  <1>2. ASSUME NEW u \in Thread \ {t}
        PROVE  f.buffer \cap frame[u].buffer = {} /\ Live' \cap frame[u].buffer = {}
    BY DEF FramesInv, BuffersPrivate
  <1> QED BY <1>1, <1>2, OneFrame

LEMMA SameFrames ==
    ASSUME FramesInv, UNCHANGED frame, Live' \subseteq Live
    PROVE  FramesInv'
  BY DEF FramesInv, BuffersPrivate, FrameOK

LEMMA SameCache ==
    ASSUME CacheInv, UNCHANGED cacheVars
    PROVE  CacheInv' /\ Live' = Live
  BY NothingChanges DEF cacheVars, Live, Places

LEMMA SameMembers ==
    ASSUME MembersInv, UNCHANGED <<mappingVars, descriptorVars, bytes>>
    PROVE  MembersInv'
  BY DEF MembersInv, mappingVars, descriptorVars

\* A step that leaves the cache alone and moves one thread.
LEMMA QuietStep ==
    ASSUME PagingInv, NEW t \in Thread, NEW f,
           frame' = [frame EXCEPT ![t] = f],
           FrameOK(f), f.buffer \subseteq frame[t].buffer,
           UNCHANGED cacheVars, QueueInv', MembersInv'
    PROVE  PagingInv'
  BY QuietFrame, SameCache DEF PagingInv

\* A thread goes to another place of its call.
LEMMA GotoOK ==
    ASSUME NEW f, FrameOK(f), NEW place \in CallPlaces,
           place \in OnePage => f.at \in OnePage
    PROVE  /\ FrameOK([f EXCEPT !.at = place])
           /\ [f EXCEPT !.at = place].buffer = f.buffer
  BY DEF FrameOK

\* A thread turns to a page, with a priority for its request.
LEMMA ProbeOK ==
    ASSUME NEW f, FrameOK(f), NEW p \in Page, NEW k \in Int
    PROVE  LET g == [f EXCEPT !.at = "probe", !.page = {p}, !.priority = k]
           IN  FrameOK(g) /\ g.buffer = f.buffer
  <1> DEFINE g == [f EXCEPT !.at = "probe", !.page = {p}, !.priority = k]
  <1>1. "probe" \in CallPlaces /\ {p} \in SUBSET Page
    BY DEF CallPlaces
  <1>2. g.at = "probe" /\ g.page = {p} /\ g.buffer = f.buffer /\ g.plan = f.plan
    BY DEF FrameOK
  <1>3. g \in [at : CallPlaces, page : SUBSET Page, buffer : SUBSET Node,
               base : 0..MaxOpens, fast : BOOLEAN, plan : {f.plan},
               trim : SUBSET (0..NLayers - 1), todo : SUBSET Page,
               held : SUBSET Node, priority : Int]
    BY <1>1 DEF FrameOK
  <1> HIDE DEF g
  <1>4. FrameOK(g)
    BY <1>1, <1>2, <1>3 DEF FrameOK, OnePage
  <1> QED BY <1>2, <1>4 DEF g

\* A thread leaves a page of a layer.
LEMMA LeaveOK ==
    ASSUME NEW f, FrameOK(f), NEW k \in Int
    PROVE  LET g == [f EXCEPT !.at = "layer", !.page = {}, !.priority = k]
           IN  FrameOK(g) /\ g.buffer = f.buffer
  <1> DEFINE g == [f EXCEPT !.at = "layer", !.page = {}, !.priority = k]
  <1>1. "layer" \in CallPlaces /\ {} \in SUBSET Page
    BY DEF CallPlaces
  <1>2. g.at = "layer" /\ g.page = {} /\ g.buffer = f.buffer /\ g.plan = f.plan
    BY DEF FrameOK
  <1>3. g \in [at : CallPlaces, page : SUBSET Page, buffer : SUBSET Node,
               base : 0..MaxOpens, fast : BOOLEAN, plan : {f.plan},
               trim : SUBSET (0..NLayers - 1), todo : SUBSET Page,
               held : SUBSET Node, priority : Int]
    BY <1>1 DEF FrameOK
  <1> HIDE DEF g
  <1>4. FrameOK(g)
    BY <1>1, <1>2, <1>3 DEF FrameOK, OnePage
  <1> QED BY <1>2, <1>4 DEF g

\* A thread takes the next page of a layer from those it has left.
LEMMA TakeOK ==
    ASSUME NEW f, FrameOK(f), NEW p \in f.todo, NEW k \in Int
    PROVE  LET g == [f EXCEPT !.at = "probe", !.page = {p},
                              !.todo = f.todo \ {p}, !.priority = k]
           IN  FrameOK(g) /\ g.buffer = f.buffer
  <1> DEFINE left == f.todo \ {p}
             g == [f EXCEPT !.at = "probe", !.page = {p}, !.todo = left, !.priority = k]
  <1>1. p \in Page /\ left \in SUBSET Page
    BY DEF FrameOK
  <1>2. "probe" \in CallPlaces
    BY DEF CallPlaces
  <1> HIDE DEF left
  <1>3. /\ g.at = "probe" /\ g.page = {p} /\ g.buffer = f.buffer
        /\ g.plan = f.plan
    BY DEF FrameOK
  <1>4. g \in [at : CallPlaces, page : SUBSET Page, buffer : SUBSET Node,
               base : 0..MaxOpens, fast : BOOLEAN, plan : {f.plan},
               trim : SUBSET (0..NLayers - 1), todo : SUBSET Page,
               held : SUBSET Node, priority : Int]
    BY <1>1, <1>2 DEF FrameOK
  <1> HIDE DEF g
  <1>5. FrameOK(g)
    BY <1>1, <1>3, <1>4 DEF FrameOK
  <1> QED BY <1>3, <1>5 DEF g, left

LEMMA IdleOK == FrameOK(Idle) /\ Idle.buffer = {}
  BY PagingAssumption DEF FrameOK, Idle, CallPlaces, OnePage

\* Return, for a caller and for the worker.
LEMMA ReturnStep ==
    ASSUME PagingInv, NEW t \in Thread, NEW pointer \in SUBSET Node,
           NEW otherwise \in {"using", "refused", "lost", "idle"},
           Return(t, pointer, otherwise), Live' \subseteq Live
    PROVE  QueueInv' /\ FramesInv'
  <1>1. QueueInv'
    BY WorkerPreserves, NoQueueChange DEF Return, PagingInv
  <1>2. CASE t = Worker
    <2>1. frame' = [frame EXCEPT ![t] = Idle]
      BY <1>2 DEF Return
    <2>2. Idle.buffer \subseteq frame[t].buffer
      BY IdleOK
    <2> QED BY <1>1, <2>1, <2>2, IdleOK, QuietFrame DEF PagingInv
  <1>3. CASE t # Worker
    <2> DEFINE place == IF pointer = {} THEN otherwise ELSE "using"
               f == [Idle EXCEPT !.at = place, !.page = frame[t].page, !.held = pointer]
    <2>1. frame' = [frame EXCEPT ![t] = f]
      BY <1>3 DEF Return
    <2>2. frame[t].page \in SUBSET Page
      BY DEF PagingInv, FramesInv, FrameOK
    <2>3. place \in CallPlaces /\ place \notin OnePage
      BY DEF CallPlaces, OnePage
    <2> HIDE DEF place
    <2>4. FrameOK(f) /\ f.buffer = {}
      BY <2>2, <2>3, IdleOK DEF FrameOK
    <2> HIDE DEF f
    <2> QED BY <1>1, <2>1, <2>4, QuietFrame DEF PagingInv
  <1> QED BY <1>1, <1>2, <1>3

\* A thread takes fresh memory for its buffer.
LEMMA FillStep ==
    ASSUME PagingInv, NEW t \in Thread, NEW n \in Node, Fresh(n), NEW f,
           frame' = [frame EXCEPT ![t] = f],
           FrameOK(f), f.buffer = {n},
           UNCHANGED cacheVars, QueueInv', MembersInv'
    PROVE  PagingInv'
  <1>1. CacheInv' /\ Live' = Live
    BY SameCache DEF PagingInv
  <1>2. f.buffer \cap Live' = {}
    BY <1>1 DEF Fresh
  <1>3. ASSUME NEW u \in Thread \ {t}
        PROVE  f.buffer \cap frame[u].buffer = {} /\ Live' \cap frame[u].buffer = {}
    BY <1>1 DEF Fresh, PagingInv, FramesInv, BuffersPrivate
  <1>4. FramesInv'
    BY <1>2, <1>3, OneFrame DEF PagingInv
  <1> QED BY <1>1, <1>4 DEF PagingInv

-----------------------------------------------------------------------------
(* resolve_tensor *)

LEMMA ResolveNext ==
    ASSUME PagingInv, ~Clobber, NEW t \in Thread, ResolveStep(t)
    PROVE  PagingInv'
  <1> DEFINE f0 == frame[t]
  <1>0. /\ CacheInv /\ CacheTypeOK /\ QueueInv /\ MembersInv /\ FramesInv
        /\ FrameOK(f0)
    BY DEF PagingInv, FramesInv, CacheInv
  <1>of. f0.at \in OnePage => Of(t) \in Page /\ f0.page = {Of(t)}
    BY <1>0, PageOf
  <1> USE DEF At, Goto
  <1>1. CASE ResolveGet(t)
    <2>1. Get(Of(t)) /\ Of(t) \in Page
      BY <1>1, <1>of DEF ResolveGet, OnePage
    <2>2. CacheInv' /\ Live' \subseteq Live
      BY <2>1, <1>0, GetPreserves, GetLive
    <2>3. MembersInv'
      BY <1>1, <1>0, SameMembers DEF ResolveGet
    <2>4. CASE Return(t, Lookup(Of(t)), "using")
      <3>1. Lookup(Of(t)) \in SUBSET Node
        BY <1>0 DEF Lookup, CacheTypeOK
      <3> QED BY <2>2, <2>3, <2>4, <3>1, ReturnStep DEF PagingInv
    <2>5. CASE Goto(t, "find") /\ UNCHANGED queueVars
      <3>1. frame' = [frame EXCEPT ![t] = [f0 EXCEPT !.at = "find"]]
        BY <2>5
      <3>2. /\ FrameOK([f0 EXCEPT !.at = "find"])
            /\ [f0 EXCEPT !.at = "find"].buffer = f0.buffer
        BY <1>0, <1>1, GotoOK DEF ResolveGet, CallPlaces, OnePage
      <3> QED BY <1>0, <2>2, <2>3, <2>5, <3>1, <3>2, QuietFrame, NoQueueChange DEF PagingInv
    <2> QED BY <1>1, <2>4, <2>5 DEF ResolveGet
  <1>2. CASE ResolveFind(t)
    <2>1. UNCHANGED cacheVars /\ MembersInv'
      BY <1>2, <1>0 DEF ResolveFind, Unlocked, MembersInv, mappingVars
    <2>2. CASE Goto(t, "map") /\ UNCHANGED queueVars
      <3>1. frame' = [frame EXCEPT ![t] = [f0 EXCEPT !.at = "map"]]
        BY <2>2
      <3>2. /\ FrameOK([f0 EXCEPT !.at = "map"])
            /\ [f0 EXCEPT !.at = "map"].buffer = f0.buffer
        BY <1>0, <1>2, GotoOK DEF ResolveFind, CallPlaces, OnePage
      <3> QED BY <1>0, <2>1, <2>2, <3>1, <3>2, QuietStep, NoQueueChange
    <2>3. CASE Return(t, {}, "refused")
      BY <1>0, <2>1, <2>3, ReturnStep, SameCache DEF PagingInv
    <2> QED BY <1>2, <2>2, <2>3 DEF ResolveFind
  <1>3. CASE ResolveMap(t)
    <2>1. UNCHANGED cacheVars /\ MembersInv' /\ QueueInv'
      BY <1>3, <1>0, SameMembers, NoQueueChange DEF ResolveMap
    <2>2. ASSUME NEW place \in {"crashed", "read"}, Goto(t, place) PROVE PagingInv'
      <3>1. frame' = [frame EXCEPT ![t] = [f0 EXCEPT !.at = place]]
        BY <2>2
      <3>2. /\ FrameOK([f0 EXCEPT !.at = place])
            /\ [f0 EXCEPT !.at = place].buffer = f0.buffer
        BY <1>0, <1>3, GotoOK DEF ResolveMap, CallPlaces, OnePage
      <3> QED BY <2>1, <3>1, <3>2, QuietStep
    <2>3. CASE frame' = [frame EXCEPT ![t].at = "copy", ![t].base = mapped_base_,
                                      ![t].fast = TRUE]
      <3> DEFINE f == [f0 EXCEPT !.at = "copy", !.base = mapped_base_, !.fast = TRUE]
      <3>1. frame' = [frame EXCEPT ![t] = f]
        BY <2>3
      <3>2. FrameOK(f) /\ f.buffer = f0.buffer
        BY <1>0, <1>3, <1>of DEF ResolveMap, FrameOK, MembersInv, CallPlaces, OnePage
      <3> QED BY <2>1, <3>1, <3>2, QuietStep
    <2> QED BY <1>3, <2>2, <2>3 DEF ResolveMap, Crash
  <1>4. CASE ReadFails(t)
    <2>1. UNCHANGED cacheVars /\ MembersInv'
      BY <1>4, <1>0, SameMembers DEF ReadFails
    <2> QED BY <1>0, <1>4, <2>1, ReturnStep, SameCache DEF PagingInv, ReadFails
  <1>5. CASE ReadSucceeds(t)
    <2>1. UNCHANGED cacheVars /\ QueueInv'
      BY <1>5, <1>0, NoQueueChange DEF ReadSucceeds
    <2>2. MembersInv'
      BY <1>5, <1>0 DEF ReadSucceeds, MembersInv, mappingVars, descriptorVars, Source
    <2>3. frame' = [frame EXCEPT ![t] = [f0 EXCEPT !.at = "insert"]]
      BY <1>5 DEF ReadSucceeds
    <2>4. /\ FrameOK([f0 EXCEPT !.at = "insert"])
          /\ [f0 EXCEPT !.at = "insert"].buffer = f0.buffer
      BY <1>0, <1>5, GotoOK DEF ReadSucceeds, CallPlaces, OnePage
    <2> QED BY <2>1, <2>2, <2>3, <2>4, QuietStep
  <1>6. ASSUME NEW n \in Node, ResolveCopy(t, n) PROVE PagingInv'
    <2>1. UNCHANGED cacheVars /\ QueueInv' /\ f0.at = "copy"
      BY <1>6, <1>0, NoQueueChange DEF ResolveCopy
    <2>2. MembersInv'
      BY <1>6, <1>0 DEF ResolveCopy, MembersInv, mappingVars, descriptorVars, Source
    <2>3. CASE frame' = [frame EXCEPT ![t].at = "insert", ![t].buffer = {n}]
      <3> DEFINE f == [f0 EXCEPT !.at = "insert", !.buffer = {n}]
      <3>1. frame' = [frame EXCEPT ![t] = f]
        BY <2>3
      <3>2. FrameOK(f) /\ f.buffer = {n}
        BY <1>0, <2>1, <1>of DEF FrameOK, CallPlaces, OnePage
      <3> QED BY <1>0, <1>6, <2>1, <2>2, <3>1, <3>2, FillStep DEF ResolveCopy
    <2>4. CASE Crash(t)
      <3>1. frame' = [frame EXCEPT ![t] = [f0 EXCEPT !.at = "crashed"]]
        BY <2>4 DEF Crash
      <3>2. /\ FrameOK([f0 EXCEPT !.at = "crashed"])
            /\ [f0 EXCEPT !.at = "crashed"].buffer = f0.buffer
        BY <1>0, GotoOK DEF CallPlaces, OnePage
      <3> QED BY <2>1, <2>2, <3>1, <3>2, QuietStep
    <2> QED BY <1>6, <2>3, <2>4 DEF ResolveCopy
  <1>7. ASSUME NEW n \in Node, ReadStart(t, n) PROVE PagingInv'
    <2>1. UNCHANGED cacheVars /\ f0.at = "read"
      BY <1>7 DEF ReadStart
    <2>2. MembersInv'
      BY <1>7, <1>0 DEF ReadStart, Unlocked, MembersInv, mappingVars
    <2>3. CASE Return(t, {}, "refused")
      BY <1>0, <2>1, <2>2, <2>3, ReturnStep, SameCache DEF PagingInv
    <2>4. CASE UNCHANGED queueVars /\ Crash(t)
      <3>1. frame' = [frame EXCEPT ![t] = [f0 EXCEPT !.at = "crashed"]]
        BY <2>4 DEF Crash
      <3>2. /\ FrameOK([f0 EXCEPT !.at = "crashed"])
            /\ [f0 EXCEPT !.at = "crashed"].buffer = f0.buffer
        BY <1>0, GotoOK DEF CallPlaces, OnePage
      <3> QED BY <1>0, <2>1, <2>2, <2>4, <3>1, <3>2, QuietStep, NoQueueChange
    <2>5. CASE /\ UNCHANGED queueVars
               /\ frame' = [frame EXCEPT ![t].at = "copy", ![t].base = mapped_base_]
      <3> DEFINE f == [f0 EXCEPT !.at = "copy", !.base = mapped_base_]
      <3>1. frame' = [frame EXCEPT ![t] = f]
        BY <2>5
      <3>2. FrameOK(f) /\ f.buffer = f0.buffer
        BY <1>0, <2>1, <1>of DEF FrameOK, MembersInv, CallPlaces, OnePage
      <3> QED BY <1>0, <2>1, <2>2, <2>5, <3>1, <3>2, QuietStep, NoQueueChange
    <2>6. CASE /\ UNCHANGED queueVars
               /\ frame' = [frame EXCEPT ![t].at = "reading", ![t].buffer = {n}]
      <3> DEFINE f == [f0 EXCEPT !.at = "reading", !.buffer = {n}]
      <3>1. frame' = [frame EXCEPT ![t] = f]
        BY <2>6
      <3>2. FrameOK(f) /\ f.buffer = {n}
        BY <1>0, <2>1, <1>of DEF FrameOK, CallPlaces, OnePage
      <3>3. QueueInv' /\ Fresh(n)
        BY <1>0, <1>7, <2>6, NoQueueChange DEF ReadStart
      <3> QED BY <1>0, <2>1, <2>2, <3>1, <3>2, <3>3, FillStep
    <2> QED BY <1>7, <2>3, <2>4, <2>5, <2>6 DEF ReadStart
  <1>8. CASE ResolveInsert(t)
    <2>1. PICK n \in f0.buffer : Insert(Of(t), n, SizeOf(Of(t)))
      BY <1>8 DEF ResolveInsert
    <2>2. n \in Node /\ Of(t) \in Page /\ SizeOf(Of(t)) \in Size
      BY <1>0, <1>8, <1>of, <2>1, PagingAssumption DEF ResolveInsert, FrameOK, OnePage
    <2>3. CacheInv' /\ Live' \subseteq Live \cup {n}
      BY <1>0, <2>1, <2>2, InsertPreserves, InsertLive
    <2>4. QueueInv' /\ MembersInv'
      BY <1>0, <1>8, NoQueueChange, SameMembers DEF ResolveInsert
    <2> DEFINE f == [f0 EXCEPT !.at = IF f0.fast THEN "mark" ELSE "fetch", !.buffer = {}]
    <2>5. frame' = [frame EXCEPT ![t] = f]
      BY <1>8 DEF ResolveInsert
    <2>6. FrameOK(f) /\ f.buffer = {}
      BY <1>0, <1>8, <1>of DEF ResolveInsert, FrameOK, CallPlaces, OnePage
    <2>7. \A u \in Thread \ {t} : Live' \cap frame[u].buffer = {}
      BY <1>0, <2>1, <2>3 DEF FramesInv, BuffersPrivate
    <2>8. FramesInv'
      BY <1>0, <2>5, <2>6, <2>7, OneFrame
    <2> QED BY <2>3, <2>4, <2>8 DEF PagingInv
  <1>9. CASE ResolveMark(t)
    <2>1. UNCHANGED cacheVars /\ QueueInv' /\ f0.at = "mark"
      BY <1>9, <1>0, NoQueueChange DEF ResolveMark
    <2>2. MembersInv'
      BY <1>9, <1>0 DEF ResolveMark, Unlocked, MembersInv, mappingVars
    <2>3. frame' = [frame EXCEPT ![t] = [f0 EXCEPT !.at = "fetch"]]
      BY <1>9 DEF ResolveMark
    <2>4. /\ FrameOK([f0 EXCEPT !.at = "fetch"])
          /\ [f0 EXCEPT !.at = "fetch"].buffer = f0.buffer
      BY <1>0, <2>1, GotoOK DEF CallPlaces, OnePage
    <2> QED BY <2>1, <2>2, <2>3, <2>4, QuietStep
  <1>10. CASE ResolveFetch(t)
    <2>1. Get(Of(t)) /\ Of(t) \in Page
      BY <1>10, <1>of DEF ResolveFetch, OnePage
    <2>2. CacheInv' /\ Live' \subseteq Live
      BY <2>1, <1>0, GetPreserves, GetLive
    <2>3. MembersInv'
      BY <1>10, <1>0, SameMembers DEF ResolveFetch
    <2>4. Lookup(Of(t)) \in SUBSET Node
      BY <1>0 DEF Lookup, CacheTypeOK
    <2> QED BY <1>10, <2>2, <2>3, <2>4, ReturnStep DEF ResolveFetch, PagingInv
  <1> QED BY <1>1, <1>2, <1>3, <1>4, <1>5, <1>6, <1>7, <1>8, <1>9, <1>10 DEF ResolveStep

-----------------------------------------------------------------------------
(* The other operations. *)

LEMMA BeginNext ==
    ASSUME PagingInv, NEW t \in Caller, Begin(t)
    PROVE  PagingInv'
  <1> DEFINE f0 == frame[t]
  <1>0. /\ CacheInv /\ QueueInv /\ MembersInv /\ FramesInv /\ FrameOK(f0)
        /\ t \in Thread
    BY DEF PagingInv, FramesInv, Thread
  <1> USE DEF At, Goto, Begins
  <1>1. ASSUME NEW p \in Page, BeginResolve(t, p) PROVE PagingInv'
    <2> DEFINE f == [f0 EXCEPT !.at = "get", !.page = {p}]
    <2>1. frame' = [frame EXCEPT ![t] = f]
      BY <1>1 DEF BeginResolve
    <2>2. FrameOK(f) /\ f.buffer = f0.buffer
      BY <1>0 DEF FrameOK, CallPlaces
    <2>3. UNCHANGED cacheVars /\ QueueInv' /\ MembersInv'
      BY <1>0, <1>1, NoQueueChange, SameMembers DEF BeginResolve
    <2> QED BY <1>0, <2>1, <2>2, <2>3, QuietStep
  <1>2. ASSUME NEW p \in Page, BeginPrefetch(t, p, 0) PROVE PagingInv'
    <2>k. PICK k \in Int : k = 0
      OBVIOUS
    <2> DEFINE f == [f0 EXCEPT !.at = "probe", !.page = {p}, !.priority = k]
    <2>1. frame' = [frame EXCEPT ![t] = f]
      BY <1>2, <2>k DEF BeginPrefetch
    <2>2. FrameOK(f) /\ f.buffer = f0.buffer
      BY <1>0, ProbeOK
    <2>3. UNCHANGED cacheVars /\ QueueInv' /\ MembersInv'
      BY <1>0, <1>2, NoQueueChange, SameMembers DEF BeginPrefetch
    <2> QED BY <1>0, <2>1, <2>2, <2>3, QuietStep
  <1>3. ASSUME NEW p \in Page, RegisterTensor(t, p) PROVE PagingInv'
    <2>1. UNCHANGED <<cacheVars, queueVars, mappingVars, bytes, frame>>
      BY <1>3 DEF RegisterTensor
    <2>2. MembersInv'
      BY <1>0, <1>3 DEF RegisterTensor, Unlocked, MembersInv, mappingVars
    <2> QED BY <1>0, <2>1, <2>2, SameCache, SameFrames, NoQueueChange DEF PagingInv
  <1>4. ASSUME NEW l \in 0..NLayers - 1, BeginSetActive(t, l) PROVE PagingInv'
    <2> DEFINE f == [f0 EXCEPT !.at = "plan", !.plan = NextLayers(l),
                               !.trim = IF l > 2 THEN {l} ELSE {}]
    <2>1. frame' = [frame EXCEPT ![t] = f]
      BY <1>4 DEF BeginSetActive
    <2>2. FrameOK(f) /\ f.buffer = f0.buffer
      BY <1>0 DEF FrameOK, CallPlaces, OnePage
    <2>3. UNCHANGED cacheVars /\ QueueInv' /\ MembersInv'
      BY <1>0, <1>4, NoQueueChange, SameMembers DEF BeginSetActive
    <2> QED BY <1>0, <2>1, <2>2, <2>3, QuietStep
  <1>5. ASSUME NEW l \in 0..NLayers - 1, BeginEvict(t, l) PROVE PagingInv'
    <2> DEFINE f == [f0 EXCEPT !.at = "plan", !.trim = {l}]
    <2>1. frame' = [frame EXCEPT ![t] = f]
      BY <1>5 DEF BeginEvict
    <2>2. FrameOK(f) /\ f.buffer = f0.buffer
      BY <1>0 DEF FrameOK, CallPlaces, OnePage
    <2>3. UNCHANGED cacheVars /\ QueueInv' /\ MembersInv'
      BY <1>0, <1>5, NoQueueChange, SameMembers DEF BeginEvict
    <2> QED BY <1>0, <2>1, <2>2, <2>3, QuietStep
  <1>6. CASE Close(t)
    <2>1. UNCHANGED <<cacheVars, queueVars, frame>>
      BY <1>6 DEF Close
    <2>2. MembersInv'
      BY <1>0, <1>6, PagingAssumption DEF Close, CloseMapping, MembersInv, descriptorVars
    <2> QED BY <1>0, <2>1, <2>2, SameCache, SameFrames, NoQueueChange DEF PagingInv
  <1>7. CASE BeginOpen(t)
    <2>1. UNCHANGED <<cacheVars, queueVars>>
      BY <1>7 DEF BeginOpen
    <2>2. MembersInv'
      BY <1>0, <1>7, PagingAssumption DEF BeginOpen, CloseMapping, MembersInv, descriptorVars
    <2>3. frame' = [frame EXCEPT ![t] = [f0 EXCEPT !.at = "open"]]
      BY <1>7 DEF BeginOpen
    <2>4. /\ FrameOK([f0 EXCEPT !.at = "open"])
          /\ [f0 EXCEPT !.at = "open"].buffer = f0.buffer
      BY <1>0, GotoOK DEF CallPlaces, OnePage
    <2> QED BY <1>0, <2>1, <2>2, <2>3, <2>4, NoQueueChange, QuietStep
  <1> QED BY <1>1, <1>2, <1>3, <1>4, <1>5, <1>6, <1>7 DEF Begin

\* A call of t ends, and t gives up what it had.
LEMMA EndStep ==
    ASSUME PagingInv, NEW t \in Thread, frame' = [frame EXCEPT ![t] = Idle],
           UNCHANGED cacheVars, QueueInv', MembersInv'
    PROVE  PagingInv'
  BY IdleOK, QuietStep

\* After a page t is between two pages of a layer, or its call is over.
LEMMA AfterPageOK ==
    ASSUME FramesInv, NEW t \in Thread
    PROVE  FrameOK(AfterPage(t)) /\ AfterPage(t).buffer \subseteq frame[t].buffer
  <1>k. PICK k \in Int : k = 0
    OBVIOUS
  <1> DEFINE f == [frame[t] EXCEPT !.at = "layer", !.page = {}, !.priority = k]
  <1>1. FrameOK(frame[t])
    BY DEF FramesInv
  <1>2. FrameOK(f) /\ f.buffer = frame[t].buffer
    BY <1>1, LeaveOK
  <1>3. AfterPage(t) = f \/ AfterPage(t) = Idle
    BY <1>k DEF AfterPage
  <1> HIDE DEF f
  <1> QED BY <1>2, <1>3, IdleOK

LEMMA PlanNext ==
    ASSUME PagingInv, NEW t \in Caller, PlanStep(t)
    PROVE  PagingInv'
  <1> DEFINE f0 == frame[t]
  <1>0. /\ CacheInv /\ CacheTypeOK /\ QueueInv /\ MembersInv /\ FramesInv
        /\ FrameOK(f0) /\ t \in Thread
    BY DEF PagingInv, FramesInv, Thread, CacheInv
  <1> USE DEF At, Goto
  <1>1. CASE Probe(t)
    <2>1. UNCHANGED cacheVars /\ QueueInv' /\ MembersInv'
      BY <1>0, <1>1, NoQueueChange, SameMembers DEF Probe
    <2>2. CASE frame' = [frame EXCEPT ![t] = AfterPage(t)]
      BY <1>0, <2>1, <2>2, AfterPageOK, QuietStep
    <2>3. CASE frame' = [frame EXCEPT ![t] = [f0 EXCEPT !.at = "push"]]
      <3>1. /\ FrameOK([f0 EXCEPT !.at = "push"])
            /\ [f0 EXCEPT !.at = "push"].buffer = f0.buffer
        BY <1>0, <1>1, GotoOK DEF Probe, CallPlaces, OnePage
      <3> QED BY <1>0, <2>1, <2>3, <3>1, QuietStep
    <2> QED BY <1>1, <2>2, <2>3 DEF Probe
  <1>2. CASE Enqueue(t)
    <2>1. UNCHANGED cacheVars /\ QueueInv' /\ MembersInv'
      BY <1>0, <1>2, PushPreserves, SameMembers DEF Enqueue
    <2> QED BY <1>0, <1>2, <2>1, AfterPageOK, QuietStep DEF Enqueue
  <1>3. CASE BeginLayer(t)
    <2> DEFINE pages == {p \in DOMAIN page_descriptors_ : LayerOf(p) = Head(f0.plan)}
               f == [f0 EXCEPT !.at = "layer", !.plan = Tail(f0.plan), !.todo = pages]
    <2>1. frame' = [frame EXCEPT ![t] = f]
      BY <1>3 DEF BeginLayer
    <2>2. pages \in SUBSET Page
      BY <1>0 DEF MembersInv
    <2> HIDE DEF pages
    <2>3. FrameOK(f) /\ f.buffer = f0.buffer
      BY <1>0, <2>2 DEF FrameOK, CallPlaces, OnePage
    <2>4. UNCHANGED cacheVars /\ QueueInv'
      BY <1>0, <1>3, NoQueueChange DEF BeginLayer
    <2>5. MembersInv'
      BY <1>0, <1>3 DEF BeginLayer, Lock, MembersInv, mappingVars
    <2> QED BY <1>0, <2>1, <2>3, <2>4, <2>5, QuietStep
  <1>4. CASE NextInLayer(t)
    <2>1. PICK p \in f0.todo :
              frame' = [frame EXCEPT ![t] =
                 [f0 EXCEPT !.at = "probe", !.page = {p}, !.todo = f0.todo \ {p},
                            !.priority = 10]]
      BY <1>4 DEF NextInLayer
    <2> DEFINE f == [f0 EXCEPT !.at = "probe", !.page = {p}, !.todo = f0.todo \ {p},
                               !.priority = 10]
    <2>t. 10 \in Int
      OBVIOUS
    <2>2. FrameOK(f) /\ f.buffer = f0.buffer
      BY <1>0, <2>t, TakeOK
    <2>3. UNCHANGED cacheVars /\ QueueInv' /\ MembersInv'
      BY <1>0, <1>4, NoQueueChange, SameMembers DEF NextInLayer
    <2> QED BY <1>0, <2>1, <2>2, <2>3, QuietStep
  <1>5. CASE EndLayer(t)
    <2>1. frame' = [frame EXCEPT ![t] = [f0 EXCEPT !.at = "plan"]]
      BY <1>5 DEF EndLayer
    <2>2. /\ FrameOK([f0 EXCEPT !.at = "plan"])
          /\ [f0 EXCEPT !.at = "plan"].buffer = f0.buffer
      BY <1>0, GotoOK DEF CallPlaces, OnePage
    <2>3. UNCHANGED cacheVars /\ QueueInv'
      BY <1>0, <1>5, NoQueueChange DEF EndLayer
    <2>4. MembersInv'
      BY <1>0, <1>5 DEF EndLayer, Unlock, MembersInv, mappingVars
    <2> QED BY <1>0, <2>1, <2>2, <2>3, <2>4, QuietStep
  <1>6. CASE BeginTrim(t)
    <2>1. PICK current \in f0.trim :
              frame' = [frame EXCEPT ![t] = [f0 EXCEPT !.at = "trim",
                 !.todo = {p \in DOMAIN page_descriptors_ : Distant(p, current)}]]
      BY <1>6 DEF BeginTrim
    <2> DEFINE pages == {p \in DOMAIN page_descriptors_ : Distant(p, current)}
               f == [f0 EXCEPT !.at = "trim", !.todo = pages]
    <2>2. pages \in SUBSET Page
      BY <1>0 DEF MembersInv
    <2>3. frame' = [frame EXCEPT ![t] = f]
      BY <2>1
    <2> HIDE DEF pages
    <2>4. FrameOK(f) /\ f.buffer = f0.buffer
      BY <1>0, <2>2 DEF FrameOK, CallPlaces, OnePage
    <2>5. UNCHANGED cacheVars /\ QueueInv'
      BY <1>0, <1>6, NoQueueChange DEF BeginTrim
    <2>6. MembersInv'
      BY <1>0, <1>6 DEF BeginTrim, Lock, MembersInv, mappingVars
    <2> QED BY <1>0, <2>3, <2>4, <2>5, <2>6, QuietStep
  <1>7. ASSUME NEW p \in Page, Trim(t, p) PROVE PagingInv'
    <2> DEFINE f == [f0 EXCEPT !.todo = f0.todo \ {p}]
    <2>1. frame' = [frame EXCEPT ![t] = f]
      BY <1>7 DEF Trim
    <2>2. FrameOK(f) /\ f.buffer = f0.buffer
      BY <1>0 DEF FrameOK
    <2>3. QueueInv'
      BY <1>0, <1>7, NoQueueChange DEF Trim
    <2>4. MembersInv'
      BY <1>0, <1>7 DEF Trim, MembersInv, mappingVars
    <2>5. CacheInv' /\ Live' \subseteq Live
      <3>1. CASE Evict(p)
        BY <1>0, <3>1, EvictPreserves, EvictLive
      <3>2. CASE UNCHANGED cacheVars
        BY <1>0, <3>2, SameCache
      <3> QED BY <1>7, <3>1, <3>2 DEF Trim
    <2>6. FramesInv'
      BY <1>0, <2>1, <2>2, <2>5, QuietFrame
    <2> QED BY <2>3, <2>4, <2>5, <2>6 DEF PagingInv
  <1>8. CASE EndTrim(t)
    <2>1. UNCHANGED cacheVars /\ QueueInv'
      BY <1>0, <1>8, NoQueueChange DEF EndTrim
    <2>2. MembersInv'
      BY <1>0, <1>8 DEF EndTrim, Unlock, MembersInv, mappingVars
    <2> QED BY <1>0, <1>8, <2>1, <2>2, EndStep DEF EndTrim
  <1>9. CASE EndSetActive(t)
    <2>1. UNCHANGED cacheVars /\ QueueInv' /\ MembersInv'
      BY <1>0, <1>9, NoQueueChange, SameMembers DEF EndSetActive
    <2> QED BY <1>0, <1>9, <2>1, EndStep DEF EndSetActive
  <1> QED BY <1>1, <1>2, <1>3, <1>4, <1>5, <1>6, <1>7, <1>8, <1>9 DEF PlanStep

LEMMA CallerNext ==
    ASSUME PagingInv, ~Clobber, NEW t \in Caller, CallerStep(t)
    PROVE  PagingInv'
  <1>0. QueueInv /\ MembersInv /\ t \in Thread
    BY DEF PagingInv, Thread
  <1>1. CASE Release(t)
    <2>1. UNCHANGED cacheVars /\ QueueInv' /\ MembersInv'
      BY <1>0, <1>1, NoQueueChange, SameMembers DEF Release
    <2> QED BY <1>0, <1>1, <2>1, EndStep DEF Release
  <1>2. CASE OpenFails(t)
    <2>1. UNCHANGED cacheVars /\ QueueInv'
      BY <1>0, <1>2, NoQueueChange DEF OpenFails
    <2>2. MembersInv'
      BY <1>0, <1>2 DEF OpenFails, MembersInv, descriptorVars
    <2> QED BY <1>0, <1>2, <2>1, <2>2, EndStep DEF OpenFails
  <1>3. ASSUME NEW m \in Model, OpenSucceeds(t, m) PROVE PagingInv'
    <2>1. UNCHANGED cacheVars /\ QueueInv'
      BY <1>0, <1>3, NoQueueChange DEF OpenSucceeds
    <2>2. MembersInv'
      BY <1>0, <1>3, PagingAssumption DEF OpenSucceeds, MembersInv, descriptorVars
    <2> QED BY <1>0, <1>3, <2>1, <2>2, EndStep DEF OpenSucceeds
  <1> QED BY <1>0, <1>1, <1>2, <1>3, ResolveNext, PlanNext DEF CallerStep

LEMMA WorkerNext ==
    ASSUME PagingInv, ~Clobber, WorkerThreadStep \/ WorkerWakes
    PROVE  PagingInv'
  <1> DEFINE f0 == frame[Worker]
  <1>0. /\ CacheInv /\ QueueInv /\ MembersInv /\ FramesInv
        /\ FrameOK(f0) /\ Worker \in Thread
    BY DEF PagingInv, FramesInv, Thread
  <1> USE DEF At, Goto
  <1>1. CASE WorkerWaits \/ WorkerWakes
    <2>1. QueueInv'
      BY <1>0, <1>1, WorkerPreserves DEF WorkerWaits, WorkerWakes, WorkerStep
    <2>2. UNCHANGED <<cacheVars, mappingVars, descriptorVars, bytes, frame>>
      BY <1>1 DEF WorkerWaits, WorkerWakes
    <2> QED BY <1>0, <2>1, <2>2, SameCache, SameFrames, SameMembers DEF PagingInv
  <1>2. CASE WorkerTakesPage
    <2>1. PICK r \in Request :
              /\ WorkerTakes(r)
              /\ frame' = [frame EXCEPT ![Worker] = [f0 EXCEPT !.at = "probe",
                                                             !.page = {r.page_id}]]
      BY <1>2 DEF WorkerTakesPage
    <2> DEFINE f == [f0 EXCEPT !.at = "probe", !.page = {r.page_id}]
    <2>2. r.page_id \in Page
      BY PagingAssumption
    <2>3. FrameOK(f) /\ f.buffer = f0.buffer
      BY <1>0, <2>2 DEF FrameOK, CallPlaces
    <2>4. UNCHANGED cacheVars /\ MembersInv'
      BY <1>0, <1>2, SameMembers DEF WorkerTakesPage
    <2>5. QueueInv'
      BY <1>0, <2>1, WorkerPreserves DEF WorkerStep
    <2> QED BY <1>0, <2>1, <2>3, <2>4, <2>5, QuietStep
  <1>3. CASE WorkerProbe
    <2>1. UNCHANGED cacheVars /\ MembersInv'
      BY <1>0, <1>3, SameMembers DEF WorkerProbe
    <2>2. CASE Return(Worker, {}, "idle")
      BY <1>0, <2>1, <2>2, ReturnStep, SameCache DEF PagingInv
    <2>3. CASE Goto(Worker, "get") /\ UNCHANGED queueVars
      <3>1. frame' = [frame EXCEPT ![Worker] = [f0 EXCEPT !.at = "get"]]
        BY <2>3
      <3>2. /\ FrameOK([f0 EXCEPT !.at = "get"])
            /\ [f0 EXCEPT !.at = "get"].buffer = f0.buffer
        BY <1>0, <1>3, GotoOK DEF WorkerProbe, CallPlaces, OnePage
      <3> QED BY <1>0, <2>1, <2>3, <3>1, <3>2, QuietStep, NoQueueChange
    <2> QED BY <1>3, <2>2, <2>3 DEF WorkerProbe
  <1> QED BY <1>0, <1>1, <1>2, <1>3, ResolveNext DEF WorkerThreadStep

LEMMA DestroyNext ==
    ASSUME PagingInv, BeginDestroy \/ DestroyStep
    PROVE  PagingInv'
  <1>0. CacheInv /\ QueueInv /\ MembersInv /\ FramesInv
    BY DEF PagingInv
  <1>1. UNCHANGED <<cacheVars, descriptorVars, bytes, frame>>
    BY DEF BeginDestroy, DestroyStep
  <1>2. QueueInv'
    BY <1>0, DestructorPreserves DEF BeginDestroy, DestroyStep
  <1>3. MembersInv'
    BY <1>0, <1>1, PagingAssumption
       DEF BeginDestroy, DestroyStep, CloseMapping, MembersInv, mappingVars, descriptorVars
  <1> QED BY <1>0, <1>1, <1>2, <1>3, SameCache, SameFrames DEF PagingInv

LEMMA PagingNext ==
    ASSUME PagingInv, ~Clobber, [Next]_vars
    PROVE  PagingInv'
  <1>1. CASE UNCHANGED vars
    BY <1>1, SameCache, SameFrames, SameMembers, NoQueueChange DEF vars, PagingInv
  <1> QED BY <1>1, BeginNext, CallerNext, WorkerNext, DestroyNext DEF Next

-----------------------------------------------------------------------------
LEMMA PagingInvariant == ~Clobber => (Spec => []PagingInv)
  <1> SUFFICES ASSUME ~Clobber PROVE Spec => []PagingInv
    OBVIOUS
  <1>1. PagingInv /\ [Next]_vars => PagingInv'
    BY PagingNext
  <1> QED BY <1>1, PagingInit, PTL DEF Spec

(* Every member of the manager and every thread's locals stay well formed,  *)
(* whatever callers open, close, resolve, prefetch and evict meanwhile.     *)
THEOREM PagingTypeCorrect == ~Clobber => (Spec => []TypeOK)
  <1>1. PagingInv => TypeOK
    BY DEF PagingInv, CacheInv, QueueInv, MembersInv, FramesInv, FrameOK, TypeOK
  <1> QED BY <1>1, PagingInvariant, PTL

(* Two threads may load one page at a time (paging_manager.cpp:275, 295):   *)
(* the buffer each of them fills is in no other hands and not in the cache. *)
THEOREM PagingBuffersPrivate == ~Clobber => (Spec => []BuffersPrivate)
  <1>1. PagingInv => BuffersPrivate
    BY DEF PagingInv, FramesInv
  <1> QED BY <1>1, PagingInvariant, PTL

(* What resolve_tensor's get returns (paging_manager.cpp:252, 291) is a live *)
(* node of that page, with any number of callers and the worker at work.    *)
THEOREM PagingMapSound == ~Clobber => (Spec => []MapSound)
  <1>1. PagingInv => MapSound
    BY DEF PagingInv, CacheInv
  <1> QED BY <1>1, PagingInvariant, PTL

(* No request sleeps in the manager as a whole, where requests come from    *)
(* prefetch_tensor and prefetch_layer and serving one is a resolve of many  *)
(* steps (paging_manager.cpp:311-316, 404-432).                             *)
THEOREM PagingNoRequestSleeps == ~Clobber => (Spec => []NoRequestSleeps)
  <1>1. PagingInv => NoRequestSleeps
    BY DEF PagingInv, QueueInv
  <1> QED BY <1>1, PagingInvariant, PTL

-----------------------------------------------------------------------------
(* A manager whose model stays open and wholly mapped. *)

\* What callers do, and where the pages are.
StaysOpen(m) ==
    /\ m \in Model
    /\ ~Clobber
    /\ Operations \cap {"open", "close", "destroy"} = {}
    /\ \A p \in Page : ModelOf(p) = m /\ EndOf(p) <= FileSize

\* OpenedSpec of MCSSDPagingManager.
OpenedWith(m) == StartWith(m, 1, FileSize, FileSize) /\ [][Next]_vars

\* Where a call has nothing of a page that matters here.
Elsewhere == CallPlaces \ {"open", "map", "copy", "read", "reading", "insert", "mark"}

\* A load takes the fast path, of a registered page, and fills its buffer with
\* the page's bytes before it inserts it.
ServesFrame(f) ==
    /\ f.at \notin {"open", "read", "reading"}
    /\ f.at \in {"map", "copy", "insert", "mark"} => f.page \subseteq DOMAIN page_descriptors_
    /\ f.at = "copy" => f.base = mapped_base_
    /\ f.at \in {"copy", "insert"} => f.fast
    /\ f.at = "insert" => \A n \in f.buffer : bytes[n] = "own"

Mapping(m) ==
    /\ file_handle_ = m /\ mapped_base_ = 1
    /\ mapped_size_ = FileSize /\ view_end = FileSize
    /\ destroyer = "alive"

Marked(p) == page_descriptors_[p] \/ \E t \in Thread : At(t, "mark") /\ frame[t].page = {p}

\* What the cache holds of a page is registered, marked and its own.
Shows ==
    /\ \A n \in Live : bytes[n] = "own"
    /\ \A p \in DOMAIN cache_map_ : p \in DOMAIN page_descriptors_ /\ Marked(p)

ServesInv(m) == Mapping(m) /\ Shows /\ \A t \in Thread : ServesFrame(frame[t])

LEMMA OpenedTyped ==
    ASSUME NEW m \in Model, StartWith(m, 1, FileSize, FileSize)
    PROVE  PagingInv
  <1> USE DEF StartWith
  <1>1. CacheInv /\ QueueInv
    BY InitEstablishes, QueueInitEstablishes
  <1>2. MembersInv
    BY PagingAssumption DEF MembersInv
  <1>3. \A t \in Thread : frame[t] = Idle
    OBVIOUS
  <1>4. FrameOK(Idle) /\ Idle.buffer = {}
    BY IdleOK DEF Idle
  <1>5. FramesInv
    BY <1>3, <1>4 DEF FramesInv, BuffersPrivate
  <1> QED BY <1>1, <1>2, <1>5 DEF PagingInv

LEMMA ServesInit ==
    ASSUME NEW m, StaysOpen(m), StartWith(m, 1, FileSize, FileSize)
    PROVE  ServesInv(m) /\ PagingInv
  <1>1. PagingInv
    BY OpenedTyped DEF StaysOpen
  <1> USE DEF StartWith
  <1>2. \A t \in Thread : frame[t] = Idle
    OBVIOUS
  <1>3. Idle.at = "idle"
    BY DEF Idle
  <1>4. Mapping(m)
    BY DEF Mapping, QueueInit
  <1>5. Shows
    BY DEF Shows, CacheInit, Live, Places
  <1>6. \A t \in Thread : ServesFrame(frame[t])
    BY <1>2, <1>3 DEF ServesFrame
  <1> QED BY <1>1, <1>4, <1>5, <1>6 DEF ServesInv

\* Only t moves.
Moves1(t) == \A u \in Thread \ {t} : frame'[u] = frame[u]

LEMMA MovesOne ==
    ASSUME FramesInv, NEW t \in Thread, NEW f, frame' = [frame EXCEPT ![t] = f]
    PROVE  Moves1(t) /\ frame'[t] = f
  BY DEF FramesInv, Moves1

\* A step that neither fills a buffer nor inserts one, nor marks a page.
LEMMA ServesOn ==
    ASSUME NEW m, ServesInv(m), NEW t \in Thread, Moves1(t),
           ServesFrame(frame'[t]), frame[t].at # "mark",
           UNCHANGED <<mappingVars, page_descriptors_, bytes, destroyer>>,
           DOMAIN cache_map_' \subseteq DOMAIN cache_map_, Live' \subseteq Live
    PROVE  ServesInv(m)'
  <1>1. Mapping(m)'
    BY DEF ServesInv, Mapping, mappingVars
  <1>2. ASSUME NEW u \in Thread PROVE ServesFrame(frame[u])'
    <2>1. ServesFrame(frame'[u])
      BY DEF ServesInv, Moves1
    <2> QED BY <2>1 DEF ServesFrame, mappingVars
  <1>3. ASSUME NEW p \in DOMAIN cache_map_' PROVE Marked(p)'
    <2>1. Marked(p)
      BY DEF ServesInv, Shows
    <2> QED BY <2>1 DEF Marked, Moves1, At
  <1>4. Shows'
    BY <1>3 DEF ServesInv, Shows
  <1> QED BY <1>1, <1>2, <1>4 DEF ServesInv

LEMMA ServesElsewhere ==
    ASSUME NEW m, ServesInv(m), NEW t \in Thread, Moves1(t),
           frame'[t].at \in Elsewhere, frame[t].at # "mark",
           UNCHANGED <<mappingVars, page_descriptors_, bytes, destroyer>>,
           DOMAIN cache_map_' \subseteq DOMAIN cache_map_, Live' \subseteq Live
    PROVE  ServesInv(m)'
  <1>1. ServesFrame(frame'[t])
    BY DEF ServesFrame, Elsewhere
  <1> QED BY <1>1, ServesOn

\* The end of a resolve.
LEMMA ReturnMoves ==
    ASSUME PagingInv, NEW t \in Thread, NEW pointer,
           NEW otherwise \in {"using", "refused", "lost", "idle"},
           Return(t, pointer, otherwise)
    PROVE  Moves1(t) /\ frame'[t].at \in Elsewhere /\ UNCHANGED destroyer
  <1> DEFINE f == [Idle EXCEPT !.at = IF pointer = {} THEN otherwise ELSE "using",
                               !.page = frame[t].page, !.held = pointer]
  <1>1. frame' = [frame EXCEPT ![t] = Idle] \/ frame' = [frame EXCEPT ![t] = f]
    BY DEF Return
  <1>2. Idle.at \in Elsewhere /\ f.at \in Elsewhere
    BY DEF Idle, Elsewhere, CallPlaces
  <1>3. UNCHANGED destroyer
    BY DEF Return, WorkerServed, queueVars
  <1> HIDE DEF f
  <1>4. FramesInv
    BY DEF PagingInv
  <1> QED BY <1>1, <1>2, <1>3, <1>4, MovesOne

LEMMA ServesResolve ==
    ASSUME NEW m, StaysOpen(m), PagingInv, ServesInv(m),
           NEW t \in Thread, ResolveStep(t)
    PROVE  ServesInv(m)'
  <1> DEFINE f0 == frame[t]
  <1>0. /\ CacheTypeOK /\ FramesInv /\ Mapping(m) /\ Shows /\ ServesFrame(f0)
        /\ FrameOK(f0)
    BY DEF PagingInv, FramesInv, CacheInv, ServesInv
  <1>of. f0.at \in OnePage => Of(t) \in Page /\ f0.page = {Of(t)}
    BY <1>0, PageOf
  <1> USE DEF At, Goto
  <1>1. CASE ResolveGet(t)
    <2>1. f0.at = "get" /\ UNCHANGED <<mappingVars, page_descriptors_, bytes, cache_map_>>
      BY <1>1 DEF ResolveGet, Get, descriptorVars
    <2>2. Live' \subseteq Live
      BY <1>0, <1>1, GetLive DEF ResolveGet
    <2>3. Moves1(t) /\ frame'[t].at \in Elsewhere /\ UNCHANGED destroyer
      <3>1. CASE Return(t, Lookup(Of(t)), "using")
        BY <3>1, ReturnMoves
      <3>2. CASE Goto(t, "find") /\ UNCHANGED queueVars
        <4>1. [f0 EXCEPT !.at = "find"].at = "find"
          BY <1>0 DEF FrameOK
        <4>2. Moves1(t) /\ frame'[t] = [f0 EXCEPT !.at = "find"]
          BY <1>0, <3>2, MovesOne
        <4> QED BY <3>2, <4>1, <4>2 DEF Elsewhere, CallPlaces, queueVars
      <3> QED BY <1>1, <3>1, <3>2 DEF ResolveGet
    <2> QED BY <2>1, <2>2, <2>3, ServesElsewhere
  <1>2. CASE ResolveFind(t)
    <2>1. /\ f0.at = "find"
          /\ UNCHANGED <<mappingVars, page_descriptors_, bytes, cacheVars>>
      BY <1>2 DEF ResolveFind
    <2>2. Live' = Live /\ UNCHANGED cache_map_
      BY <2>1 DEF cacheVars, Live, Places
    <2>3. CASE Return(t, {}, "refused")
      BY <2>1, <2>2, <2>3, ReturnMoves, ServesElsewhere
    <2>4. CASE Of(t) \in DOMAIN page_descriptors_ /\ Goto(t, "map") /\ UNCHANGED queueVars
      <3>1. [f0 EXCEPT !.at = "map"].at = "map" /\ [f0 EXCEPT !.at = "map"].page = f0.page
        BY <1>0 DEF FrameOK
      <3>2. Moves1(t) /\ frame'[t] = [f0 EXCEPT !.at = "map"]
        BY <1>0, <2>4, MovesOne
      <3>3. f0.page = {Of(t)}
        BY <1>of, <2>1 DEF OnePage
      <3>4. ServesFrame(frame'[t])
        BY <2>4, <3>1, <3>2, <3>3 DEF ServesFrame
      <3> QED BY <2>1, <2>2, <2>4, <3>2, <3>4, ServesOn DEF queueVars
    <2> QED BY <1>2, <2>3, <2>4 DEF ResolveFind
  <1>3. CASE ResolveMap(t)
    <2> DEFINE f == [f0 EXCEPT !.at = "copy", !.base = mapped_base_, !.fast = TRUE]
    <2>1. /\ f0.at = "map"
          /\ UNCHANGED <<mappingVars, page_descriptors_, bytes, cacheVars, queueVars>>
      BY <1>3 DEF ResolveMap, descriptorVars
    <2>2. Live' = Live /\ UNCHANGED <<cache_map_, destroyer>>
      BY <2>1 DEF cacheVars, queueVars, Live, Places
    <2>3. Of(t) \in Page /\ EndOf(Of(t)) <= FileSize
      BY <1>of, <2>1 DEF OnePage, StaysOpen
    <2>4. EndOf(Of(t)) \in Nat /\ FileSize \in Nat
      BY <2>3, PagingAssumption
    <2>5. Mapped(Of(t)) /\ ~(EndOf(Of(t)) > view_end)
      BY <1>0, <2>3, <2>4 DEF Mapped, Mapping
    <2>6. frame' = [frame EXCEPT ![t] = f]
      BY <1>3, <2>5 DEF ResolveMap
    <2>7. f.at = "copy" /\ f.page = f0.page /\ f.base = mapped_base_ /\ f.fast
      BY <1>0 DEF FrameOK
    <2> HIDE DEF f
    <2>8. Moves1(t) /\ frame'[t] = f
      BY <1>0, <2>6, MovesOne
    <2>9. mapped_base_ = mapped_base_'
      BY <2>1 DEF mappingVars
    <2>10. ServesFrame(f)
      BY <1>0, <2>1, <2>7, <2>9 DEF ServesFrame
    <2> QED BY <2>1, <2>2, <2>8, <2>10, ServesOn
  <1>4. CASE ReadFails(t) \/ ReadSucceeds(t) \/ \E n \in Node : ReadStart(t, n)
    BY <1>0, <1>4 DEF ReadFails, ReadSucceeds, ReadStart, ServesFrame
  <1>5. ASSUME NEW n \in Node, ResolveCopy(t, n) PROVE ServesInv(m)'
    <2> DEFINE f == [f0 EXCEPT !.at = "insert", !.buffer = {n}]
    <2>1. /\ f0.at = "copy" /\ Fresh(n)
          /\ UNCHANGED <<mappingVars, page_descriptors_, cacheVars, queueVars>>
      BY <1>5 DEF ResolveCopy, descriptorVars
    <2>2. Live' = Live /\ UNCHANGED <<cache_map_, destroyer>>
      BY <2>1 DEF cacheVars, queueVars, Live, Places
    <2>3. f0.base = mapped_base_ /\ f0.fast /\ f0.page \subseteq DOMAIN page_descriptors_
      BY <1>0, <2>1 DEF ServesFrame
    <2>4. Of(t) \in Page /\ Source(Of(t)) = "own"
      BY <1>0, <1>of, <2>1 DEF OnePage, StaysOpen, Source, Mapping
    <2>5. /\ frame' = [frame EXCEPT ![t] = f]
          /\ bytes' = [bytes EXCEPT ![n] = "own"]
      BY <1>5, <2>3, <2>4 DEF ResolveCopy
    <2>6. bytes \in [Node -> {"none", "zeros", "own", "foreign"}]
      BY DEF PagingInv, MembersInv
    <2>7. bytes'[n] = "own" /\ \A k \in Node : bytes[k] = "own" => bytes'[k] = "own"
      BY <2>5, <2>6
    <2>8. f.at = "insert" /\ f.page = f0.page /\ f.fast = f0.fast /\ f.buffer = {n}
      BY <1>0 DEF FrameOK
    <2> HIDE DEF f
    <2>9. Moves1(t) /\ frame'[t] = f
      BY <1>0, <2>5, MovesOne
    <2>10. ServesFrame(frame[t])'
      BY <2>1, <2>3, <2>7, <2>8, <2>9 DEF ServesFrame
    <2>11. ASSUME NEW u \in Thread \ {t} PROVE ServesFrame(frame[u])'
      <3>1. ServesFrame(frame[u]) /\ FrameOK(frame[u]) /\ frame'[u] = frame[u]
        BY <1>0, <2>9 DEF ServesInv, FramesInv, Moves1
      <3>2. frame[u].buffer \subseteq Node
        BY <3>1 DEF FrameOK
      <3> QED BY <2>1, <2>7, <3>1, <3>2 DEF ServesFrame, mappingVars
    <2>12. ASSUME NEW p \in DOMAIN cache_map_' PROVE Marked(p)'
      BY <1>0, <2>1, <2>2, <2>9 DEF Shows, Marked, Moves1
    <2>13. Live \subseteq Node
      BY <1>0, LenProperties, ElementOfSeq DEF CacheTypeOK, Live, Places
    <2>14. Shows'
      BY <1>0, <2>1, <2>2, <2>7, <2>12, <2>13 DEF Shows
    <2>15. Mapping(m)'
      BY <1>0, <2>1, <2>2 DEF Mapping, mappingVars
    <2>16. \A u \in Thread : ServesFrame(frame[u])'
      BY <2>10, <2>11
    <2> QED BY <2>14, <2>15, <2>16 DEF ServesInv
  <1>6. CASE ResolveInsert(t)
    <2> DEFINE f == [f0 EXCEPT !.at = IF f0.fast THEN "mark" ELSE "fetch", !.buffer = {}]
    <2>1. PICK n \in f0.buffer : Insert(Of(t), n, SizeOf(Of(t)))
      BY <1>6 DEF ResolveInsert
    <2>2. /\ f0.at = "insert" /\ f0.fast /\ f0.page = {Of(t)} /\ Of(t) \in Page
          /\ f0.page \subseteq DOMAIN page_descriptors_
          /\ n \in Node /\ bytes[n] = "own"
      BY <1>0, <1>6, <1>of, <2>1 DEF ResolveInsert, OnePage, ServesFrame, FrameOK
    <2>3. UNCHANGED <<queueVars, mappingVars, page_descriptors_, bytes>>
      BY <1>6 DEF ResolveInsert, descriptorVars
    <2>4. Live' \subseteq Live \cup {n}
      BY <1>0, <2>1, <2>2, InsertLive
    <2>5. DOMAIN cache_map_' \subseteq DOMAIN cache_map_ \cup {Of(t)}
      BY <2>1 DEF Insert
    <2>6. frame' = [frame EXCEPT ![t] = f]
      BY <1>6 DEF ResolveInsert
    <2>7. f.at = "mark" /\ f.page = f0.page
      BY <1>0, <2>2 DEF FrameOK
    <2> HIDE DEF f
    <2>8. Moves1(t) /\ frame'[t] = f
      BY <1>0, <2>6, MovesOne
    <2>9. ServesFrame(frame[t])'
      BY <2>2, <2>3, <2>7, <2>8 DEF ServesFrame
    <2>10. ASSUME NEW u \in Thread PROVE ServesFrame(frame[u])'
      <3>1. CASE u = t
        BY <2>9, <3>1
      <3>2. CASE u # t
        BY <2>3, <2>8, <3>2 DEF ServesFrame, ServesInv, Moves1, mappingVars
      <3> QED BY <3>1, <3>2
    <2>11. Mapping(m)'
      BY <1>0, <2>3 DEF Mapping, mappingVars, queueVars
    <2>12. ASSUME NEW p \in DOMAIN cache_map_' PROVE Marked(p)'
      <3>1. CASE p = Of(t)
        BY <2>2, <2>7, <2>8, <3>1 DEF Marked
      <3>2. CASE p # Of(t)
        <4>1. Marked(p)
          BY <1>0, <2>5, <3>2 DEF Shows
        <4> QED BY <2>2, <2>3, <2>8, <4>1 DEF Marked, Moves1
      <3> QED BY <3>1, <3>2
    <2>13. Shows'
      BY <1>0, <2>2, <2>3, <2>4, <2>5, <2>12 DEF Shows
    <2> QED BY <2>10, <2>11, <2>13 DEF ServesInv
  <1>7. CASE ResolveMark(t)
    <2> DEFINE f == [f0 EXCEPT !.at = "fetch"]
    <2>1. /\ f0.at = "mark" /\ f0.page = {Of(t)}
          /\ UNCHANGED <<queueVars, mappingVars, bytes, cacheVars>>
          /\ page_descriptors_' = [page_descriptors_ EXCEPT ![Of(t)] = TRUE]
      BY <1>7, <1>of DEF ResolveMark, OnePage
    <2>2. Of(t) \in DOMAIN page_descriptors_
      BY <1>0, <2>1 DEF ServesFrame
    <2>3. /\ DOMAIN page_descriptors_' = DOMAIN page_descriptors_
          /\ page_descriptors_'[Of(t)]
          /\ \A p \in DOMAIN page_descriptors_ :
                p # Of(t) => page_descriptors_'[p] = page_descriptors_[p]
      BY <2>1, <2>2
    <2>4. Live' = Live /\ UNCHANGED <<cache_map_, destroyer>>
      BY <2>1 DEF cacheVars, queueVars, Live, Places
    <2>5. frame' = [frame EXCEPT ![t] = f]
      BY <1>7 DEF ResolveMark
    <2>6. f.at = "fetch"
      BY <1>0 DEF FrameOK
    <2> HIDE DEF f
    <2>7. Moves1(t) /\ frame'[t] = f
      BY <1>0, <2>5, MovesOne
    <2>8. ASSUME NEW u \in Thread PROVE ServesFrame(frame[u])'
      BY <2>1, <2>3, <2>6, <2>7 DEF ServesFrame, ServesInv, Moves1, mappingVars
    <2>9. ASSUME NEW p \in DOMAIN cache_map_' PROVE Marked(p)'
      <3>1. CASE p = Of(t)
        BY <2>3, <3>1 DEF Marked
      <3>2. CASE p # Of(t)
        <4>1. Marked(p) /\ p \in DOMAIN page_descriptors_
          BY <1>0, <2>4 DEF Shows
        <4> QED BY <2>1, <2>3, <2>7, <3>2, <4>1 DEF Marked, Moves1
      <3> QED BY <3>1, <3>2
    <2>10. Mapping(m)'
      BY <1>0, <2>1, <2>4 DEF Mapping, mappingVars
    <2>11. Shows'
      BY <1>0, <2>1, <2>3, <2>4, <2>9 DEF Shows
    <2> QED BY <2>8, <2>10, <2>11 DEF ServesInv
  <1>8. CASE ResolveFetch(t)
    <2>1. f0.at = "fetch" /\ UNCHANGED <<mappingVars, page_descriptors_, bytes, cache_map_>>
      BY <1>8 DEF ResolveFetch, Get, descriptorVars
    <2>2. Live' \subseteq Live
      BY <1>0, <1>8, GetLive DEF ResolveFetch
    <2> QED BY <1>8, <2>1, <2>2, ReturnMoves, ServesElsewhere DEF ResolveFetch
  <1> QED BY <1>1, <1>2, <1>3, <1>4, <1>5, <1>6, <1>7, <1>8 DEF ResolveStep

\* A step that leaves the cache alone too.
LEMMA ServesAside ==
    ASSUME NEW m, ServesInv(m), FramesInv, NEW t \in Thread, NEW f,
           frame' = [frame EXCEPT ![t] = f],
           f.at \in Elsewhere, frame[t].at # "mark",
           UNCHANGED <<mappingVars, page_descriptors_, bytes, cacheVars, destroyer>>
    PROVE  ServesInv(m)'
  <1>1. Moves1(t) /\ frame'[t] = f
    BY MovesOne
  <1>2. Live' = Live /\ UNCHANGED cache_map_
    BY DEF cacheVars, Live, Places
  <1> QED BY <1>1, <1>2, ServesElsewhere

\* A step of no caller's or loader's locals.
LEMMA ServesStill ==
    ASSUME NEW m, ServesInv(m), UNCHANGED <<mappingVars, page_descriptors_, bytes,
                                            cacheVars, frame, destroyer>>
    PROVE  ServesInv(m)'
  <1>1. Live' = Live /\ UNCHANGED cache_map_
    BY DEF cacheVars, Live, Places
  <1>2. Shows' /\ Mapping(m)'
    BY <1>1 DEF ServesInv, Shows, Marked, Mapping, mappingVars, At
  <1>3. ASSUME NEW u \in Thread PROVE ServesFrame(frame[u])'
    BY DEF ServesInv, ServesFrame, mappingVars
  <1> QED BY <1>2, <1>3 DEF ServesInv

LEMMA ServesBegin ==
    ASSUME NEW m, StaysOpen(m), PagingInv, ServesInv(m), NEW t \in Caller, Begin(t)
    PROVE  ServesInv(m)'
  <1> DEFINE f0 == frame[t]
  <1>0. FramesInv /\ FrameOK(f0) /\ t \in Thread /\ f0.at = "idle"
    BY DEF PagingInv, FramesInv, Thread, Begin, BeginResolve, BeginPrefetch,
           RegisterTensor, BeginSetActive, BeginEvict, Close, BeginOpen, Begins, At
  <1> USE DEF Goto
  <1>1. ASSUME NEW p \in Page, BeginResolve(t, p) PROVE ServesInv(m)'
    <2> DEFINE f == [f0 EXCEPT !.at = "get", !.page = {p}]
    <2>1. /\ frame' = [frame EXCEPT ![t] = f]
          /\ UNCHANGED <<mappingVars, page_descriptors_, bytes, cacheVars, destroyer>>
      BY <1>1 DEF BeginResolve, descriptorVars, queueVars
    <2>2. f.at \in Elsewhere
      BY <1>0 DEF FrameOK, Elsewhere, CallPlaces
    <2> QED BY <1>0, <2>1, <2>2, ServesAside
  <1>2. ASSUME NEW p \in Page, BeginPrefetch(t, p, 0) PROVE ServesInv(m)'
    <2>k. PICK k \in Int : k = 0
      OBVIOUS
    <2> DEFINE f == [f0 EXCEPT !.at = "probe", !.page = {p}, !.priority = k]
    <2>1. /\ frame' = [frame EXCEPT ![t] = f]
          /\ UNCHANGED <<mappingVars, page_descriptors_, bytes, cacheVars, destroyer>>
      BY <1>2, <2>k DEF BeginPrefetch, descriptorVars, queueVars
    <2>2. f.at \in Elsewhere
      BY <1>0 DEF FrameOK, Elsewhere, CallPlaces
    <2> QED BY <1>0, <2>1, <2>2, ServesAside
  <1>3. ASSUME NEW p \in Page, RegisterTensor(t, p) PROVE ServesInv(m)'
    <2>1. /\ UNCHANGED <<mappingVars, bytes, cacheVars, frame, destroyer>>
          /\ p \notin DOMAIN page_descriptors_
          /\ page_descriptors_' = [q \in DOMAIN page_descriptors_ \cup {p} |->
                                      q # p /\ page_descriptors_[q]]
      BY <1>3 DEF RegisterTensor, queueVars
    <2>2. /\ DOMAIN page_descriptors_ \subseteq DOMAIN page_descriptors_'
          /\ \A q \in DOMAIN page_descriptors_ :
                page_descriptors_[q] => page_descriptors_'[q]
      BY <2>1
    <2>3. Live' = Live /\ UNCHANGED cache_map_
      BY <2>1 DEF cacheVars, Live, Places
    <2>4. ASSUME NEW q \in DOMAIN cache_map_' PROVE Marked(q)'
      BY <2>1, <2>2, <2>3 DEF ServesInv, Shows, Marked, At
    <2>5. Shows' /\ Mapping(m)'
      BY <2>1, <2>2, <2>3, <2>4 DEF ServesInv, Shows, Mapping, mappingVars
    <2>6. ASSUME NEW u \in Thread PROVE ServesFrame(frame[u])'
      BY <2>1, <2>2 DEF ServesInv, ServesFrame, mappingVars
    <2> QED BY <2>5, <2>6 DEF ServesInv
  <1>4. ASSUME NEW l \in 0..NLayers - 1, BeginSetActive(t, l) PROVE ServesInv(m)'
    <2> DEFINE f == [f0 EXCEPT !.at = "plan", !.plan = NextLayers(l),
                               !.trim = IF l > 2 THEN {l} ELSE {}]
    <2>1. /\ frame' = [frame EXCEPT ![t] = f]
          /\ UNCHANGED <<mappingVars, page_descriptors_, bytes, cacheVars, destroyer>>
      BY <1>4 DEF BeginSetActive, descriptorVars, queueVars
    <2>2. f.at \in Elsewhere
      BY <1>0 DEF FrameOK, Elsewhere, CallPlaces
    <2> QED BY <1>0, <2>1, <2>2, ServesAside
  <1>5. ASSUME NEW l \in 0..NLayers - 1, BeginEvict(t, l) PROVE ServesInv(m)'
    <2> DEFINE f == [f0 EXCEPT !.at = "plan", !.trim = {l}]
    <2>1. /\ frame' = [frame EXCEPT ![t] = f]
          /\ UNCHANGED <<mappingVars, page_descriptors_, bytes, cacheVars, destroyer>>
      BY <1>5 DEF BeginEvict, descriptorVars, queueVars
    <2>2. f.at \in Elsewhere
      BY <1>0 DEF FrameOK, Elsewhere, CallPlaces
    <2> QED BY <1>0, <2>1, <2>2, ServesAside
  <1>6. CASE Close(t) \/ BeginOpen(t)
    BY <1>6 DEF Close, BeginOpen, Begins, StaysOpen
  <1> QED BY <1>1, <1>2, <1>3, <1>4, <1>5, <1>6 DEF Begin

LEMMA AfterPageElsewhere ==
    ASSUME FramesInv, NEW t \in Thread
    PROVE  AfterPage(t).at \in Elsewhere
  <1>k. PICK k \in Int : k = 0
    OBVIOUS
  <1> DEFINE f == [frame[t] EXCEPT !.at = "layer", !.page = {}, !.priority = k]
  <1>1. f.at = "layer"
    BY DEF FramesInv, FrameOK
  <1>2. AfterPage(t) = f \/ AfterPage(t) = Idle
    BY <1>k DEF AfterPage
  <1>3. Idle.at = "idle"
    BY DEF Idle
  <1> HIDE DEF f
  <1> QED BY <1>1, <1>2, <1>3 DEF Elsewhere, CallPlaces

\* What the eviction of a page takes out of the map.
LEMMA EvictDomain ==
    ASSUME NEW p, Evict(p)
    PROVE  DOMAIN cache_map_' = DOMAIN cache_map_ \ {p}
  BY DEF Evict, cacheVars, Restrict

-----------------------------------------------------------------------------
(* Who moves in a step, and whether the worker is at rest. *)

AtRest == worker # "serving" => frame[Worker].at = "idle"

LEMMA ResolveMoves ==
    ASSUME FramesInv, NEW t \in Thread, ResolveStep(t)
    PROVE  /\ Moves1(t) /\ frame[t].at # "idle"
           /\ \/ UNCHANGED queueVars
              \/ t = Worker /\ WorkerServed /\ frame'[t] = Idle
  <1> USE DEF FramesInv, Moves1, Goto, At, Crash
  <1>1. ASSUME NEW pointer, NEW otherwise, Return(t, pointer, otherwise)
        PROVE  /\ Moves1(t)
               /\ \/ UNCHANGED queueVars
                  \/ t = Worker /\ WorkerServed /\ frame'[t] = Idle
    BY <1>1 DEF Return
  <1>2. CASE ResolveGet(t) \/ ResolveFind(t) \/ ResolveFetch(t) \/ ReadFails(t)
    BY <1>1, <1>2 DEF ResolveGet, ResolveFind, ResolveFetch, ReadFails
  <1>3. CASE ResolveMap(t) \/ ReadSucceeds(t) \/ ResolveInsert(t) \/ ResolveMark(t)
    BY <1>3 DEF ResolveMap, ReadSucceeds, ResolveInsert, ResolveMark
  <1>4. ASSUME NEW n \in Node, ResolveCopy(t, n) \/ ReadStart(t, n)
        PROVE  /\ Moves1(t) /\ frame[t].at # "idle"
               /\ \/ UNCHANGED queueVars
                  \/ t = Worker /\ WorkerServed /\ frame'[t] = Idle
    BY <1>1, <1>4 DEF ResolveCopy, ReadStart
  <1> QED BY <1>2, <1>3, <1>4 DEF ResolveStep

LEMMA CallerMoves ==
    ASSUME FramesInv, NEW t \in Caller, Begin(t) \/ CallerStep(t)
    PROVE  Moves1(t) /\ (UNCHANGED queueVars \/ \E r : Push(r))
  <1>0. t \in Thread /\ t # Worker
    BY PagingAssumption DEF Thread
  <1> USE DEF FramesInv, Moves1, Goto
  <1>1. CASE Begin(t)
    BY <1>0, <1>1 DEF Begin, BeginResolve, BeginPrefetch, RegisterTensor, BeginSetActive,
                      BeginEvict, Close, BeginOpen
  <1>2. CASE ResolveStep(t)
    BY <1>0, <1>2, ResolveMoves
  <1>3. CASE PlanStep(t)
    BY <1>0, <1>3 DEF PlanStep, Probe, Enqueue, BeginLayer, NextInLayer, EndLayer,
                      BeginTrim, Trim, EndTrim, EndSetActive
  <1>4. CASE Release(t) \/ OpenFails(t) \/ \E m \in Model : OpenSucceeds(t, m)
    BY <1>0, <1>4 DEF Release, OpenFails, OpenSucceeds
  <1> QED BY <1>1, <1>2, <1>3, <1>4 DEF CallerStep

LEMMA AtRestNext ==
    ASSUME FramesInv, AtRest, [Next]_vars
    PROVE  AtRest'
  <1>1. ASSUME NEW t \in Caller, Begin(t) \/ CallerStep(t) PROVE AtRest'
    <2>1. Worker \in Thread \ {t}
      BY PagingAssumption DEF Thread
    <2>2. frame'[Worker] = frame[Worker]
      BY <1>1, <2>1, CallerMoves DEF Moves1
    <2>3. worker' # "serving" => worker # "serving"
      BY <1>1, CallerMoves DEF queueVars, Push, Woken
    <2> QED BY <2>2, <2>3 DEF AtRest
  <1>2. CASE ResolveStep(Worker)
    <2>1. Worker \in Thread
      BY DEF Thread
    <2>2. frame[Worker].at # "idle" /\ worker = "serving"
      BY <1>2, <2>1, ResolveMoves DEF AtRest
    <2> QED BY <1>2, <2>1, <2>2, ResolveMoves DEF AtRest, queueVars, Idle
  <1>3. CASE WorkerWaits \/ WorkerWakes
    <2>1. UNCHANGED frame /\ worker # "serving"
      BY <1>3 DEF WorkerWaits, WorkerWakes, WorkerLoop, WorkerFindsNothing, WorkerSuspends,
                  WorkerStops, SpuriousWakeup
    <2> QED BY <2>1 DEF AtRest
  <1>4. CASE WorkerTakesPage
    BY <1>4 DEF AtRest, WorkerTakesPage, WorkerTakes
  <1>5. CASE WorkerProbe
    <2>1. Worker \in Thread /\ frame[Worker].at # "idle" /\ worker = "serving"
      BY <1>5 DEF Thread, WorkerProbe, At, AtRest
    <2>2. CASE Return(Worker, {}, "idle")
      BY <2>1, <2>2 DEF FramesInv, Return, Idle, AtRest
    <2>3. CASE UNCHANGED queueVars
      BY <2>1, <2>3 DEF queueVars, AtRest
    <2> QED BY <1>5, <2>2, <2>3 DEF WorkerProbe
  <1>6. CASE BeginDestroy \/ DestroyStep
    BY <1>6 DEF BeginDestroy, DestroyStep, ClearRunning, NotifyAll, Join, Woken, AtRest
  <1>7. CASE UNCHANGED vars
    BY <1>7 DEF vars, queueVars, AtRest
  <1> QED BY <1>1, <1>2, <1>3, <1>4, <1>5, <1>6, <1>7 DEF Next, WorkerThreadStep

LEMMA ServesPlan ==
    ASSUME NEW m, StaysOpen(m), PagingInv, ServesInv(m), NEW t \in Caller, PlanStep(t)
    PROVE  ServesInv(m)'
  <1> DEFINE f0 == frame[t]
  <1>0. CacheTypeOK /\ FramesInv /\ FrameOK(f0) /\ t \in Thread
    BY DEF PagingInv, FramesInv, CacheInv, Thread
  <1>e. AfterPage(t).at \in Elsewhere /\ Idle.at \in Elsewhere
    BY <1>0, AfterPageElsewhere DEF Idle, Elsewhere, CallPlaces
  <1> USE DEF Goto, At
  <1>1. CASE Probe(t)
    <2>1. /\ f0.at = "probe"
          /\ UNCHANGED <<mappingVars, page_descriptors_, bytes, cacheVars, destroyer>>
      BY <1>1 DEF Probe, descriptorVars, queueVars
    <2>2. CASE frame' = [frame EXCEPT ![t] = AfterPage(t)]
      BY <1>0, <1>e, <2>1, <2>2, ServesAside
    <2>3. CASE frame' = [frame EXCEPT ![t] = [f0 EXCEPT !.at = "push"]]
      <3>1. [f0 EXCEPT !.at = "push"].at \in Elsewhere
        BY <1>0 DEF FrameOK, Elsewhere, CallPlaces
      <3> QED BY <1>0, <2>1, <2>3, <3>1, ServesAside
    <2> QED BY <1>1, <2>2, <2>3 DEF Probe
  <1>2. CASE Enqueue(t)
    <2>1. /\ f0.at = "push" /\ frame' = [frame EXCEPT ![t] = AfterPage(t)]
          /\ UNCHANGED <<mappingVars, page_descriptors_, bytes, cacheVars, destroyer>>
      BY <1>2 DEF Enqueue, Push, descriptorVars
    <2> QED BY <1>0, <1>e, <2>1, ServesAside
  <1>3. CASE BeginLayer(t)
    <2> DEFINE f == [f0 EXCEPT !.at = "layer", !.plan = Tail(f0.plan),
                  !.todo = {p \in DOMAIN page_descriptors_ : LayerOf(p) = Head(f0.plan)}]
    <2>1. /\ f0.at = "plan" /\ frame' = [frame EXCEPT ![t] = f]
          /\ UNCHANGED <<mappingVars, page_descriptors_, bytes, cacheVars, destroyer>>
      BY <1>3 DEF BeginLayer, queueVars
    <2>2. f.at \in Elsewhere
      BY <1>0 DEF FrameOK, Elsewhere, CallPlaces
    <2> QED BY <1>0, <2>1, <2>2, ServesAside
  <1>4. CASE NextInLayer(t)
    <2>k. PICK k \in Int : k = 10
      OBVIOUS
    <2>1. PICK p \in f0.todo : frame' = [frame EXCEPT ![t] =
             [f0 EXCEPT !.at = "probe", !.page = {p}, !.todo = f0.todo \ {p},
                        !.priority = k]]
      BY <1>4, <2>k DEF NextInLayer
    <2> DEFINE f == [f0 EXCEPT !.at = "probe", !.page = {p}, !.todo = f0.todo \ {p},
                               !.priority = k]
    <2>2. /\ f0.at = "layer"
          /\ UNCHANGED <<mappingVars, page_descriptors_, bytes, cacheVars, destroyer>>
      BY <1>4 DEF NextInLayer, queueVars, descriptorVars
    <2>3. f.at \in Elsewhere
      BY <1>0 DEF FrameOK, Elsewhere, CallPlaces
    <2> QED BY <1>0, <2>1, <2>2, <2>3, ServesAside
  <1>5. CASE EndLayer(t)
    <2>1. /\ f0.at = "layer" /\ frame' = [frame EXCEPT ![t] = [f0 EXCEPT !.at = "plan"]]
          /\ UNCHANGED <<mappingVars, page_descriptors_, bytes, cacheVars, destroyer>>
      BY <1>5 DEF EndLayer, queueVars
    <2>2. [f0 EXCEPT !.at = "plan"].at \in Elsewhere
      BY <1>0 DEF FrameOK, Elsewhere, CallPlaces
    <2> QED BY <1>0, <2>1, <2>2, ServesAside
  <1>6. CASE BeginTrim(t)
    <2>1. PICK current \in f0.trim :
              frame' = [frame EXCEPT ![t] = [f0 EXCEPT !.at = "trim",
                 !.todo = {p \in DOMAIN page_descriptors_ : Distant(p, current)}]]
      BY <1>6 DEF BeginTrim
    <2> DEFINE f == [f0 EXCEPT !.at = "trim",
                        !.todo = {p \in DOMAIN page_descriptors_ : Distant(p, current)}]
    <2>2. /\ f0.at = "plan"
          /\ UNCHANGED <<mappingVars, page_descriptors_, bytes, cacheVars, destroyer>>
      BY <1>6 DEF BeginTrim, queueVars
    <2>3. f.at \in Elsewhere
      BY <1>0 DEF FrameOK, Elsewhere, CallPlaces
    <2> QED BY <1>0, <2>1, <2>2, <2>3, ServesAside
  <1>7. ASSUME NEW p \in Page, Trim(t, p) PROVE ServesInv(m)'
    <2> DEFINE f == [f0 EXCEPT !.todo = f0.todo \ {p}]
    <2>1. /\ f0.at = "trim" /\ frame' = [frame EXCEPT ![t] = f]
          /\ UNCHANGED <<mappingVars, bytes, destroyer>>
      BY <1>7 DEF Trim, queueVars
    <2>2. f.at = f0.at
      BY <1>0 DEF FrameOK
    <2> HIDE DEF f
    <2>3. Moves1(t) /\ frame'[t] = f
      BY <1>0, <2>1, MovesOne
    <2>4. Live' \subseteq Live /\ DOMAIN cache_map_' \subseteq DOMAIN cache_map_
      <3>1. CASE Evict(p)
        BY <1>0, <3>1, EvictLive, EvictDomain
      <3>2. CASE UNCHANGED cacheVars
        BY <3>2 DEF cacheVars, Live, Places
      <3> QED BY <1>7, <3>1, <3>2 DEF Trim
    <2>5. /\ DOMAIN page_descriptors_' = DOMAIN page_descriptors_
          /\ \A q \in DOMAIN cache_map_' :
                q \in DOMAIN page_descriptors_ => page_descriptors_'[q] = page_descriptors_[q]
      <3>1. CASE Evict(p) /\ page_descriptors_' = [page_descriptors_ EXCEPT ![p] = FALSE]
        BY <3>1, EvictDomain
      <3>2. CASE UNCHANGED <<cacheVars, page_descriptors_>>
        BY <3>2
      <3> QED BY <1>7, <3>1, <3>2 DEF Trim
    <2>6. ASSUME NEW q \in DOMAIN cache_map_' PROVE Marked(q)'
      <3>1. Marked(q) /\ q \in DOMAIN page_descriptors_
        BY <2>4 DEF ServesInv, Shows
      <3>2. page_descriptors_'[q] = page_descriptors_[q]
        BY <2>5, <3>1
      <3> QED BY <2>1, <2>3, <3>1, <3>2 DEF Marked, Moves1
    <2>7. Shows' /\ Mapping(m)'
      BY <2>1, <2>4, <2>5, <2>6 DEF ServesInv, Shows, Mapping, mappingVars
    <2>8. ASSUME NEW u \in Thread PROVE ServesFrame(frame[u])'
      BY <2>1, <2>2, <2>3, <2>5 DEF ServesInv, ServesFrame, mappingVars, Moves1
    <2> QED BY <2>7, <2>8 DEF ServesInv
  <1>8. CASE EndTrim(t) \/ EndSetActive(t)
    <2>1. /\ f0.at \in {"trim", "plan"} /\ frame' = [frame EXCEPT ![t] = Idle]
          /\ UNCHANGED <<mappingVars, page_descriptors_, bytes, cacheVars, destroyer>>
      BY <1>8 DEF EndTrim, EndSetActive, queueVars, descriptorVars
    <2> QED BY <1>0, <1>e, <2>1, ServesAside
  <1> QED BY <1>1, <1>2, <1>3, <1>4, <1>5, <1>6, <1>7, <1>8 DEF PlanStep

LEMMA ServesWorker ==
    ASSUME NEW m, StaysOpen(m), PagingInv, ServesInv(m), AtRest,
           WorkerThreadStep \/ WorkerWakes
    PROVE  ServesInv(m)'
  <1> DEFINE f0 == frame[Worker]
  <1>0. FramesInv /\ FrameOK(f0) /\ Worker \in Thread
    BY DEF PagingInv, FramesInv, Thread
  <1> USE DEF Goto, At
  <1>1. CASE WorkerWaits \/ WorkerWakes
    <2>1. UNCHANGED <<mappingVars, page_descriptors_, bytes, cacheVars, frame, destroyer>>
      BY <1>1 DEF WorkerWaits, WorkerWakes, WorkerLoop, WorkerFindsNothing, WorkerSuspends,
                  WorkerStops, SpuriousWakeup, descriptorVars
    <2> QED BY <2>1, ServesStill
  <1>2. CASE WorkerTakesPage
    <2>1. PICK r \in Request :
              /\ WorkerTakes(r)
              /\ frame' = [frame EXCEPT ![Worker] = [f0 EXCEPT !.at = "probe",
                                                             !.page = {r.page_id}]]
      BY <1>2 DEF WorkerTakesPage
    <2> DEFINE f == [f0 EXCEPT !.at = "probe", !.page = {r.page_id}]
    <2>2. UNCHANGED <<mappingVars, page_descriptors_, bytes, cacheVars, destroyer>>
      BY <1>2, <2>1 DEF WorkerTakesPage, WorkerTakes, descriptorVars
    <2>3. f.at \in Elsewhere
      BY <1>0 DEF FrameOK, Elsewhere, CallPlaces
    <2>4. f0.at # "mark"
      BY <2>1 DEF AtRest, WorkerTakes
    <2> QED BY <1>0, <2>1, <2>2, <2>3, <2>4, ServesAside
  <1>3. CASE WorkerProbe
    <2>1. /\ f0.at = "probe"
          /\ UNCHANGED <<mappingVars, page_descriptors_, bytes, cacheVars>>
      BY <1>3 DEF WorkerProbe, descriptorVars
    <2>2. Live' = Live /\ UNCHANGED cache_map_
      BY <2>1 DEF cacheVars, Live, Places
    <2>3. CASE Return(Worker, {}, "idle")
      BY <1>0, <2>1, <2>2, <2>3, ReturnMoves, ServesElsewhere
    <2>4. CASE Goto(Worker, "get") /\ UNCHANGED queueVars
      <3>1. [f0 EXCEPT !.at = "get"].at \in Elsewhere
        BY <1>0 DEF FrameOK, Elsewhere, CallPlaces
      <3> QED BY <1>0, <2>1, <2>4, <3>1, ServesAside DEF queueVars
    <2> QED BY <1>3, <2>3, <2>4 DEF WorkerProbe
  <1> QED BY <1>0, <1>1, <1>2, <1>3, ServesResolve DEF WorkerThreadStep

OpenInv(m) == PagingInv /\ AtRest /\ ServesInv(m)

LEMMA OpenInvInit ==
    ASSUME NEW m, StaysOpen(m), StartWith(m, 1, FileSize, FileSize)
    PROVE  OpenInv(m)
  <1>1. AtRest
    BY DEF StartWith, AtRest, Idle, Thread
  <1> QED BY <1>1, ServesInit DEF OpenInv

LEMMA OpenInvNext ==
    ASSUME NEW m, StaysOpen(m), OpenInv(m), [Next]_vars
    PROVE  OpenInv(m)'
  <1>0. PagingInv /\ FramesInv /\ AtRest /\ ServesInv(m) /\ ~Clobber
    BY DEF OpenInv, PagingInv, StaysOpen
  <1>1. PagingInv' /\ AtRest'
    BY <1>0, PagingNext, AtRestNext
  <1>2. ServesInv(m)'
    <2>1. ASSUME NEW t \in Caller, Begin(t) \/ ResolveStep(t) \/ PlanStep(t)
          PROVE  ServesInv(m)'
      BY <1>0, <2>1, ServesBegin, ServesResolve, ServesPlan DEF Thread
    <2>2. ASSUME NEW t \in Caller, Release(t) PROVE ServesInv(m)'
      <3>1. /\ frame[t].at # "mark" /\ frame' = [frame EXCEPT ![t] = Idle]
            /\ UNCHANGED <<mappingVars, page_descriptors_, bytes, cacheVars, destroyer>>
        BY <2>2 DEF Release, descriptorVars, queueVars
      <3>2. Idle.at \in Elsewhere /\ t \in Thread
        BY DEF Idle, Elsewhere, CallPlaces, Thread
      <3> QED BY <1>0, <3>1, <3>2, ServesAside
    <2>3. ASSUME NEW t \in Caller, OpenFails(t) \/ \E k \in Model : OpenSucceeds(t, k)
          PROVE  ServesInv(m)'
      BY <1>0, <2>3 DEF OpenFails, OpenSucceeds, At, ServesInv, ServesFrame, Thread
    <2>4. CASE WorkerThreadStep \/ WorkerWakes
      BY <1>0, <2>4, ServesWorker
    <2>5. CASE BeginDestroy \/ DestroyStep
      BY <1>0, <2>5 DEF BeginDestroy, DestroyStep, NotifyAll, Join, StaysOpen,
                        ServesInv, Mapping
    <2>6. CASE UNCHANGED vars
      BY <1>0, <2>6, ServesStill DEF vars, descriptorVars, queueVars
    <2> QED BY <2>1, <2>2, <2>3, <2>4, <2>5, <2>6 DEF Next, CallerStep
  <1> QED BY <1>1, <1>2 DEF OpenInv

LEMMA OpenInvariant == ASSUME NEW m, StaysOpen(m) PROVE OpenedWith(m) => []OpenInv(m)
  <1>1. StartWith(m, 1, FileSize, FileSize) => OpenInv(m)
    BY OpenInvInit
  <1>2. OpenInv(m) /\ [Next]_vars => OpenInv(m)'
    BY OpenInvNext
  <1> QED BY <1>1, <1>2, PTL DEF OpenedWith

(* "Maps logical tensor to file region" (paging_manager.h:127): as long as  *)
(* one model stays open and its mapping covers its pages, what the cache    *)
(* shows for a page is that page's bytes, with any number of threads        *)
(* loading, prefetching and evicting (paging_manager.cpp:265-291).          *)
THEOREM PagingShowsItsBytes ==
    ASSUME NEW m, StaysOpen(m) PROVE OpenedWith(m) => []PageShowsItsBytes
  <1>1. OpenInv(m) => PageShowsItsBytes
    <2> SUFFICES ASSUME OpenInv(m), NEW p \in DOMAIN cache_map_
                 PROVE  bytes[cache_map_[p]] = "own"
      BY DEF PageShowsItsBytes
    <2>1. cache_map_[p] \in Live
      BY DEF OpenInv, PagingInv, CacheInv, MapSound, PlaceOf, Live
    <2> QED BY <2>1 DEF OpenInv, ServesInv, Shows
  <1> QED BY <1>1, OpenInvariant, PTL

(* evict_distant_layers skips what is not is_active                         *)
(* (paging_manager.cpp:358-361), so a resident page that nobody marks would *)
(* stay for good: every resident page is marked, or its loader has yet to   *)
(* take descriptor_mutex_ to mark it (paging_manager.cpp:277-289).          *)
THEOREM PagingResidentIsActive ==
    ASSUME NEW m, StaysOpen(m) PROVE OpenedWith(m) => []ResidentIsActive
  <1>1. OpenInv(m) => ResidentIsActive
    <2> SUFFICES ASSUME OpenInv(m),
                        NEW p \in DOMAIN cache_map_ \cap DOMAIN page_descriptors_,
                        ~page_descriptors_[p]
                 PROVE  \E t \in Thread : At(t, "mark") /\ Of(t) = p
      BY DEF ResidentIsActive
    <2>1. PICK t \in Thread : At(t, "mark") /\ frame[t].page = {p}
      BY DEF OpenInv, ServesInv, Shows, Marked
    <2>2. frame[t].page = {Of(t)}
      BY <2>1, PageOf DEF OpenInv, PagingInv, At, OnePage
    <2> QED BY <2>1, <2>2
  <1> QED BY <1>1, OpenInvariant, PTL


-----------------------------------------------------------------------------
(* set_active_layer's eviction. *)

\* What a call that evicts has collected lies outside its window.
WindowFrame(f) ==
    /\ f.trim = {} \/ \E l \in 3..NLayers - 1 : f.trim = {l}
    /\ f.at = "trim" => \A l \in f.trim, p \in f.todo : Distant(p, l)

WindowInv == \A t \in Caller : WindowFrame(frame[t])

\* No uint32_t sum or difference wraps around for a layer from 3 on.
LEMMA DistantIsFar ==
    ASSUME NLayers + 3 < UInt, NEW l \in 3..NLayers - 1, NEW p \in Page, Distant(p, l)
    PROVE  LayerOf(p) < l - 2 \/ LayerOf(p) > l + 4
  <1>1. UInt \in Nat /\ NLayers \in Nat
    BY PagingAssumption
  <1>2. \A k \in 0..UInt - 1 : k % UInt = k
    BY <1>1, SMT
  <1>3. l - 2 \in 0..UInt - 1 /\ l + 2 \in 0..UInt - 1 /\ (l + 2) + 2 \in 0..UInt - 1
    BY <1>1
  <1>4. (l - 2) % UInt = l - 2 /\ (l + 2) % UInt = l + 2 /\ ((l + 2) + 2) % UInt = (l + 2) + 2
    BY <1>2, <1>3
  <1>5. Minus(l, 2) = l - 2 /\ Plus(Plus(l, 2), 2) = l + 4
    BY <1>1, <1>4 DEF Minus, Plus
  <1> QED BY <1>5 DEF Distant

LEMMA WindowOfCall ==
    ASSUME "evict" \notin Operations, FramesInv, NEW t \in Caller,
           WindowFrame(frame[t]), Begin(t) \/ CallerStep(t)
    PROVE  WindowFrame(frame'[t])
  <1> DEFINE f0 == frame[t]
  <1>0. t \in Thread /\ FrameOK(f0) /\ FramesInv
    BY DEF Thread, FramesInv
  <1>1. WindowFrame(Idle)
    BY DEF WindowFrame, Idle
  <1>2. ASSUME NEW f, frame' = [frame EXCEPT ![t] = f], f.trim = f0.trim, f.at # "trim"
        PROVE  WindowFrame(frame'[t])
    BY <1>0, <1>2, MovesOne DEF WindowFrame
  <1>3. ASSUME frame' = [frame EXCEPT ![t] = Idle] \/ UNCHANGED frame
        PROVE  WindowFrame(frame'[t])
    BY <1>0, <1>1, <1>3, MovesOne
  <1> USE DEF Goto, At, Begins
  <1>4. CASE Begin(t)
    <2>1. ASSUME NEW p \in Page,
                 BeginResolve(t, p) \/ BeginPrefetch(t, p, 0) \/ RegisterTensor(t, p)
          PROVE  WindowFrame(frame'[t])
      BY <1>0, <2>1 DEF BeginResolve, BeginPrefetch, RegisterTensor, FramesInv, FrameOK,
                        WindowFrame
    <2>2. ASSUME NEW l \in 0..NLayers - 1, BeginSetActive(t, l) PROVE WindowFrame(frame'[t])
      <3> DEFINE trims == IF l > 2 THEN {l} ELSE {}
                 f == [f0 EXCEPT !.at = "plan", !.plan = NextLayers(l), !.trim = trims]
      <3>1. frame' = [frame EXCEPT ![t] = f]
        BY <2>2 DEF BeginSetActive
      <3>2. trims = {} \/ \E k \in 3..NLayers - 1 : trims = {k}
        BY PagingAssumption
      <3> HIDE DEF trims
      <3>3. f.at = "plan" /\ f.trim = trims
        BY <1>0 DEF FrameOK
      <3> HIDE DEF f
      <3> QED BY <1>0, <3>1, <3>2, <3>3, MovesOne DEF WindowFrame
    <2>3. ASSUME NEW l, BeginEvict(t, l) PROVE FALSE
      BY <2>3 DEF BeginEvict
    <2>4. CASE Close(t) \/ BeginOpen(t)
      BY <1>0, <2>4 DEF Close, BeginOpen, FramesInv, FrameOK, WindowFrame
    <2> QED BY <1>4, <2>1, <2>2, <2>3, <2>4 DEF Begin
  <1>5. CASE ResolveStep(t)
    <2>1. ASSUME NEW pointer, NEW otherwise \in {"using", "refused", "lost", "idle"},
                 Return(t, pointer, otherwise)
          PROVE  WindowFrame(frame'[t])
      <3> DEFINE place == IF pointer = {} THEN otherwise ELSE "using"
                 f == [Idle EXCEPT !.at = place, !.page = f0.page, !.held = pointer]
      <3>1. frame' = [frame EXCEPT ![t] = Idle] \/ frame' = [frame EXCEPT ![t] = f]
        BY <2>1 DEF Return
      <3>2. f.at # "trim" /\ f.trim = {}
        BY DEF Idle
      <3> HIDE DEF f
      <3>3. CASE frame' = [frame EXCEPT ![t] = f]
        BY <1>0, <3>2, <3>3, MovesOne DEF WindowFrame
      <3> QED BY <1>3, <3>1, <3>3
    <2>2. CASE ResolveGet(t) \/ ResolveFind(t) \/ ResolveFetch(t) \/ ReadFails(t)
      BY <1>0, <2>1, <2>2 DEF ResolveGet, ResolveFind, ResolveFetch, ReadFails, FramesInv,
                              FrameOK, WindowFrame
    <2>3. CASE ResolveMap(t) \/ ReadSucceeds(t) \/ ResolveInsert(t) \/ ResolveMark(t)
      BY <1>0, <2>3 DEF ResolveMap, ReadSucceeds, ResolveInsert, ResolveMark, Crash,
                        FramesInv, FrameOK, WindowFrame
    <2>4. ASSUME NEW n \in Node, ResolveCopy(t, n) \/ ReadStart(t, n)
          PROVE  WindowFrame(frame'[t])
      BY <1>0, <2>1, <2>4 DEF ResolveCopy, ReadStart, Crash, FramesInv, FrameOK, WindowFrame
    <2> QED BY <1>5, <2>2, <2>3, <2>4 DEF ResolveStep
  <1>6. CASE PlanStep(t)
    <2>1. AfterPage(t).at # "trim" /\ WindowFrame(AfterPage(t))
      BY <1>0, <1>1 DEF AfterPage, WindowFrame, FrameOK, Idle
    <2>2. CASE Probe(t) \/ Enqueue(t)
      BY <1>0, <2>1, <2>2 DEF Probe, Enqueue, FramesInv, FrameOK, WindowFrame
    <2>3. CASE BeginLayer(t) \/ NextInLayer(t) \/ EndLayer(t)
      <3>1. CASE BeginLayer(t)
        BY <1>0, <3>1 DEF BeginLayer, FramesInv, FrameOK, WindowFrame
      <3>2. CASE NextInLayer(t)
        <4>1. PICK p \in f0.todo : frame' = [frame EXCEPT ![t] =
                 [f0 EXCEPT !.at = "probe", !.page = {p}, !.todo = f0.todo \ {p},
                            !.priority = 10]]
          BY <3>2 DEF NextInLayer
        <4> DEFINE f == [f0 EXCEPT !.at = "probe", !.page = {p}, !.todo = f0.todo \ {p},
                                   !.priority = 10]
        <4>2. f.at = "probe" /\ f.trim = f0.trim
          BY <1>0 DEF FrameOK
        <4>3. frame' = [frame EXCEPT ![t] = f]
          BY <4>1
        <4> HIDE DEF f
        <4> QED BY <1>2, <4>2, <4>3
      <3>3. CASE EndLayer(t)
        BY <1>0, <3>3 DEF EndLayer, FramesInv, FrameOK, WindowFrame
      <3> QED BY <2>3, <3>1, <3>2, <3>3
    <2>4. CASE BeginTrim(t)
      <3>1. PICK current \in f0.trim :
                frame' = [frame EXCEPT ![t] = [f0 EXCEPT !.at = "trim",
                   !.todo = {p \in DOMAIN page_descriptors_ : Distant(p, current)}]]
        BY <2>4 DEF BeginTrim
      <3> DEFINE pages == {p \in DOMAIN page_descriptors_ : Distant(p, current)}
                 f == [f0 EXCEPT !.at = "trim", !.todo = pages]
      <3>2. f.trim = f0.trim /\ f.todo = pages
        BY <1>0 DEF FrameOK
      <3>3. \A l \in f.trim, p \in f.todo : Distant(p, l)
        BY <3>2 DEF WindowFrame
      <3>4. frame' = [frame EXCEPT ![t] = f]
        BY <3>1
      <3> HIDE DEF f
      <3> QED BY <1>0, <3>2, <3>3, <3>4, MovesOne DEF WindowFrame
    <2>5. ASSUME NEW p \in Page, Trim(t, p) PROVE WindowFrame(frame'[t])
      <3> DEFINE f == [f0 EXCEPT !.todo = f0.todo \ {p}]
      <3>1. frame' = [frame EXCEPT ![t] = f]
        BY <2>5 DEF Trim
      <3>2. f.at = f0.at /\ f.trim = f0.trim /\ f.todo \subseteq f0.todo
        BY <1>0 DEF FrameOK
      <3> HIDE DEF f
      <3> QED BY <1>0, <3>1, <3>2, MovesOne DEF WindowFrame
    <2>6. CASE EndTrim(t) \/ EndSetActive(t)
      BY <1>3, <2>6 DEF EndTrim, EndSetActive
    <2> QED BY <1>6, <2>2, <2>3, <2>4, <2>5, <2>6 DEF PlanStep
  <1>7. CASE Release(t) \/ OpenFails(t) \/ \E m \in Model : OpenSucceeds(t, m)
    BY <1>3, <1>7 DEF Release, OpenFails, OpenSucceeds
  <1> QED BY <1>4, <1>5, <1>6, <1>7 DEF CallerStep

LEMMA WindowNext ==
    ASSUME "evict" \notin Operations, FramesInv, WindowInv, [Next]_vars
    PROVE  WindowInv'
  <1>1. ASSUME NEW t \in Caller, Begin(t) \/ CallerStep(t) PROVE WindowInv'
    <2>1. ASSUME NEW u \in Caller PROVE WindowFrame(frame'[u])
      <3>1. CASE u = t
        BY <1>1, <3>1, WindowOfCall DEF WindowInv
      <3>2. CASE u # t
        BY <1>1, <3>2, CallerMoves DEF WindowInv, Moves1, Thread
      <3> QED BY <3>1, <3>2
    <2> QED BY <2>1 DEF WindowInv, WindowFrame
  <1>2. ASSUME Moves1(Worker) PROVE WindowInv'
    BY <1>2, PagingAssumption DEF WindowInv, WindowFrame, Moves1, Thread
  <1>3. CASE WorkerThreadStep \/ WorkerWakes
    <2>1. CASE ResolveStep(Worker)
      BY <1>2, <2>1, ResolveMoves DEF Thread
    <2>2. CASE WorkerWaits \/ WorkerWakes \/ WorkerTakesPage \/ WorkerProbe
      <3>1. Moves1(Worker)
        BY <2>2 DEF WorkerWaits, WorkerWakes, WorkerTakesPage, WorkerProbe, Return, Goto,
                    FramesInv, Moves1
      <3> QED BY <1>2, <3>1
    <2> QED BY <1>3, <2>1, <2>2 DEF WorkerThreadStep
  <1>4. CASE BeginDestroy \/ DestroyStep \/ UNCHANGED vars
    BY <1>4 DEF BeginDestroy, DestroyStep, vars, WindowInv, WindowFrame
  <1> QED BY <1>1, <1>3, <1>4 DEF Next

(* set_active_layer fetches the next two layers and drops distant ones      *)
(* (paging_manager.cpp:341-351): with every uint32_t sum below its limit    *)
(* the eviction takes no page of the active layer or of the next two,       *)
(* whatever other threads do between the collection of the pages and their  *)
(* eviction.  evict_distant_layers called directly for layer 0 or 1 is left *)
(* out: current - radius wraps there.  Whether a model is open at the start *)
(* does not matter.                                                         *)
THEOREM PagingKeepsWindow ==
    (~Clobber /\ "evict" \notin Operations /\ NLayers + 3 < UInt)
        => /\ Spec => KeepsWindow
           /\ \A m \in Model : OpenedWith(m) => KeepsWindow
  <1> SUFFICES ASSUME ~Clobber, "evict" \notin Operations, NLayers + 3 < UInt
               PROVE  /\ Spec => KeepsWindow
                      /\ \A m \in Model : OpenedWith(m) => KeepsWindow
    OBVIOUS
  <1>1. Init => PagingInv /\ WindowInv
    BY PagingInit DEF Init, StartWith, WindowInv, WindowFrame, Idle, Thread
  <1>2. PagingInv /\ WindowInv /\ [Next]_vars => WindowInv'
    BY WindowNext DEF PagingInv
  <1>3. PagingInv /\ WindowInv /\ [Next]_vars => [\A t \in Caller : ~DropsWindow(t)]_vars
    <2> SUFFICES ASSUME PagingInv, WindowInv, NEW t \in Caller, DropsWindow(t)
                 PROVE  FALSE
      OBVIOUS
    <2>1. PICK p \in Page, l \in frame[t].trim :
              /\ LayerOf(p) \in {l, l + 1, l + 2}
              /\ At(t, "trim") /\ p \in frame[t].todo
      BY DEF DropsWindow
    <2>2. l \in 3..NLayers - 1 /\ Distant(p, l)
      BY <2>1 DEF WindowInv, WindowFrame, At
    <2>3. LayerOf(p) < l - 2 \/ LayerOf(p) > l + 4
      BY <2>2, DistantIsFar
    <2> QED BY <2>1, <2>2, <2>3, PagingAssumption
  <1>4. PagingInv /\ [Next]_vars => PagingInv'
    BY PagingNext
  <1>5. Spec => KeepsWindow
    BY <1>1, <1>2, <1>3, <1>4, PTL DEF Spec, KeepsWindow
  <1>6. ASSUME NEW m \in Model PROVE OpenedWith(m) => KeepsWindow
    <2>1. StartWith(m, 1, FileSize, FileSize) => PagingInv /\ WindowInv
      <3> SUFFICES ASSUME StartWith(m, 1, FileSize, FileSize) PROVE PagingInv /\ WindowInv
        OBVIOUS
      <3>1. WindowInv
        BY DEF StartWith, WindowInv, WindowFrame, Idle, Thread
      <3> QED BY <3>1, OpenedTyped
    <2> QED BY <2>1, <1>2, <1>3, <1>4, PTL DEF OpenedWith, KeepsWindow
  <1> QED BY <1>5, <1>6

-----------------------------------------------------------------------------
(* ModelLoader. *)

LoadPlaces == {"idle", "reader", "config", "opening", "enumerate", "register",
               "embeddings", "norms"}

LoadingOK ==
    /\ loading \in [at : LoadPlaces, model : Model \cup {NoModel},
                    metadata : {loading.metadata}, next : {loading.next},
                    asks : SUBSET Page, failed : BOOLEAN]
    /\ loads \in Nat /\ uses \in Nat /\ loads + uses <= MaxCalls

\* What is open and what the tables hold in each part of a load.
Phases ==
    /\ file_handle_ = NoModel => mapped_base_ = 0
    /\ At(Loader, "open") => loading.at = "opening"
    /\ loading.at # "idle" => destroyer = "alive" /\ loads > 0 /\ loading.model \in Model
    /\ loading.at \in {"reader", "config"} => file_handle_ = NoModel
    /\ loading.at \in {"reader", "config", "opening"} =>
          ~loaded_ /\ tensor_pages_ = <<>> /\ layer_tensors_ = <<>>
    /\ loading.at = "opening" =>
          config_ = loading.model /\ file_handle_ \in {NoModel, loading.model}
    /\ loading.at \in {"enumerate", "register", "embeddings", "norms"} =>
          config_ = loading.model /\ file_handle_ = loading.model
    /\ destroyer # "alive" => tensor_pages_ = <<>>
    /\ loading.failed => loading.at = "idle"

\* A field's page has a name that stands for the field.
FieldsNamed ==
    \A l \in DOMAIN layer_tensors_ : \A f \in DOMAIN layer_tensors_[l] :
        f \in Fields(KeyOf(TensorOf(layer_tensors_[l][f]))[2])

LoaderInv ==
    /\ PagingInv /\ LoadingOK /\ Phases
    /\ FieldsNamed /\ RegistriesAgree /\ PagesOfOpenModel /\ FailedLoadLeavesNothing

\* A step that leaves the cache and the queue and at most crashes a thread.
LEMMA LoaderQuiet ==
    ASSUME PagingInv, NEW t \in Thread,
           UNCHANGED <<cacheVars, queueVars>>, MembersInv', UNCHANGED frame \/ Crash(t)
    PROVE  PagingInv'
  <1> DEFINE f == [frame[t] EXCEPT !.at = "crashed"]
  <1>0. FramesInv /\ FrameOK(frame[t]) /\ QueueInv /\ CacheInv
    BY DEF PagingInv, FramesInv
  <1>1. QueueInv'
    BY <1>0, NoQueueChange
  <1>2. CASE UNCHANGED frame
    BY <1>0, <1>1, <1>2, SameCache, SameFrames DEF PagingInv
  <1>3. CASE Crash(t)
    <2>1. frame' = [frame EXCEPT ![t] = f]
      BY <1>3 DEF Crash, Goto
    <2>2. FrameOK(f) /\ f.buffer = frame[t].buffer
      BY <1>0, GotoOK DEF CallPlaces, OnePage
    <2> HIDE DEF f
    <2> QED BY <1>1, <2>1, <2>2, QuietStep
  <1> QED BY <1>2, <1>3

LEMMA LoaderPaging ==
    ASSUME LoaderInv, ~Clobber, [LoaderNext]_allVars
    PROVE  PagingInv'
  <1>0. /\ PagingInv /\ MembersInv /\ QueueInv /\ FramesInv /\ FrameOK(frame[Loader])
        /\ LoadingOK /\ Phases /\ Loader \in Caller /\ Loader \in Thread
    BY LoaderAssumption DEF LoaderInv, PagingInv, FramesInv, Thread
  <1>1. CASE (\E m \in Model : Load(m)) \/ UnloadOnly
    <2>1. CloseMapping /\ UNCHANGED <<cacheVars, queueVars, descriptorVars, bytes, frame>>
      BY <1>1 DEF Load, UnloadOnly, Unload
    <2>2. MembersInv'
      BY <1>0, <2>1, PagingAssumption DEF CloseMapping, MembersInv, descriptorVars
    <2> QED BY <1>0, <2>1, <2>2, LoaderQuiet
  <1>2. CASE ReadHeader \/ ConfigThrows \/ EnumerateTensors
    <2>1. /\ UNCHANGED <<cacheVars, queueVars, mappingVars, descriptorVars, bytes>>
          /\ UNCHANGED frame \/ Crash(Loader)
      BY <1>2 DEF ReadHeader, ConfigThrows, EnumerateTensors, LoseTheWay
    <2> QED BY <1>0, <2>1, SameMembers, LoaderQuiet
  <1>3. CASE OpenModel
    BY <1>0, <1>3, BeginNext DEF OpenModel, Begin
  <1>4. CASE RegisterNext
    <2> DEFINE p == [load |-> loads, model |-> loading.model, at |-> loading.next]
    <2>1. RegisterTensor(Loader, p) /\ loading.next \in DOMAIN TensorsOf(loading.model)
      BY <1>4 DEF RegisterNext
    <2>2. loads \in 1..MaxCalls /\ loading.model \in Model
      BY <1>0, <1>4, LoaderAssumption DEF RegisterNext, AtLoad, Phases, LoadingOK
    <2>3. p \in Page
      BY <2>1, <2>2, LoaderAssumption
    <2> HIDE DEF p
    <2> QED BY <1>0, <2>1, <2>3, BeginNext DEF Begin
  <1>5. ASSUME NEW k \in Int, NEW from, Ask(from, k) PROVE PagingInv'
    <2>1. PICK p \in loading.asks : BeginPrefetch(Loader, p, k)
      BY <1>5 DEF Ask
    <2> DEFINE f == [frame[Loader] EXCEPT !.at = "probe", !.page = {p}, !.priority = k]
    <2>2. p \in Page
      BY <1>0 DEF LoadingOK
    <2>3. frame' = [frame EXCEPT ![Loader] = f]
      BY <2>1 DEF BeginPrefetch
    <2>4. FrameOK(f) /\ f.buffer = frame[Loader].buffer
      BY <1>0, <2>2, ProbeOK
    <2>5. UNCHANGED cacheVars /\ QueueInv' /\ MembersInv'
      BY <1>0, <2>1, NoQueueChange, SameMembers DEF BeginPrefetch
    <2> HIDE DEF f
    <2> QED BY <1>0, <2>3, <2>4, <2>5, QuietStep
  <1>6. CASE Opened \/ TensorsRegistered \/ EmbeddingsAsked \/ Loaded \/ UNCHANGED vars
    <2>1. UNCHANGED vars
      BY <1>6 DEF Opened, TensorsRegistered, EmbeddingsAsked, Loaded
    <2> QED BY <1>0, <2>1, PagingNext
  <1>7. CASE ManagerStep
    <2>1. OpenSucceeds(Loader, loading.model) => loading.model \in Model
      BY <1>0 DEF OpenSucceeds, Phases
    <2> QED BY <1>0, <1>7, <2>1, CallerNext DEF ManagerStep, CallerStep
  <1>8. CASE Use
    BY <1>0, <1>8, BeginNext DEF Use, Begin
  <1>9. CASE Destroy \/ Others
    BY <1>0, <1>9, WorkerNext, DestroyNext DEF Destroy, Others
  <1>10. 20 \in Int /\ 15 \in Int
    OBVIOUS
  <1>11. CASE UNCHANGED allVars
    BY <1>6, <1>11 DEF allVars
  <1>12. CASE LoadStep
    <2>1. Ask("embeddings", 20) => PagingInv'
      BY <1>5, <1>10
    <2>2. Ask("norms", 15) => PagingInv'
      BY <1>5, <1>10
    <2> QED BY <1>2, <1>3, <1>4, <1>6, <1>7, <1>12, <2>1, <2>2 DEF LoadStep
  <1> QED BY <1>1, <1>8, <1>9, <1>11, <1>12 DEF LoaderNext

\* What the loader sees of the manager's own steps.
LEMMA ManagerKeeps ==
    ASSUME PagingInv, Phases, ManagerStep
    PROVE  /\ frame'[Loader].at # "open"
           /\ DOMAIN page_descriptors_' = DOMAIN page_descriptors_
           /\ UNCHANGED <<destroyer, loaderVars>>
           /\ \/ UNCHANGED <<file_handle_, mapped_base_>>
              \/ loading.at = "opening" /\ file_handle_' = loading.model
  <1>0. FramesInv /\ FrameOK(frame[Loader]) /\ Loader \in Caller /\ Loader \in Thread
    BY LoaderAssumption DEF PagingInv, FramesInv, Thread
  <1>i. Idle.at = "idle"
    BY DEF Idle
  <1>1. CASE PlanStep(Loader)
    <2> USE DEF Goto
    <2>1. UNCHANGED mappingVars
      BY <1>1 DEF PlanStep, Probe, Enqueue, BeginLayer, NextInLayer, EndLayer, BeginTrim,
                  Trim, EndTrim, EndSetActive
    <2>2. UNCHANGED destroyer
      BY <1>1 DEF PlanStep, Probe, Enqueue, Push, BeginLayer, NextInLayer, EndLayer,
                  BeginTrim, Trim, EndTrim, EndSetActive, queueVars
    <2>3. DOMAIN page_descriptors_' = DOMAIN page_descriptors_
      BY <1>1 DEF PlanStep, Probe, Enqueue, BeginLayer, NextInLayer, EndLayer, BeginTrim,
                  Trim, EndTrim, EndSetActive, descriptorVars
    <2>4. AfterPage(Loader).at # "open"
      BY <1>0, AfterPageElsewhere DEF Elsewhere
    <2>5. frame'[Loader].at # "open"
      <3>1. CASE Probe(Loader) \/ Enqueue(Loader)
        BY <1>0, <2>4, <3>1 DEF Probe, Enqueue, FramesInv, FrameOK
      <3>2. CASE BeginLayer(Loader) \/ EndLayer(Loader)
        BY <1>0, <3>2 DEF BeginLayer, EndLayer, FramesInv, FrameOK
      <3>3. CASE NextInLayer(Loader)
        <4>1. PICK p \in frame[Loader].todo :
                 frame' = [frame EXCEPT ![Loader] = [frame[Loader] EXCEPT
                    !.at = "probe", !.page = {p}, !.todo = frame[Loader].todo \ {p},
                    !.priority = 10]]
          BY <3>3 DEF NextInLayer
        <4> DEFINE f == [frame[Loader] EXCEPT
                    !.at = "probe", !.page = {p}, !.todo = frame[Loader].todo \ {p},
                    !.priority = 10]
        <4>2. f.at = "probe"
          BY <1>0 DEF FrameOK
        <4>3. frame' = [frame EXCEPT ![Loader] = f]
          BY <4>1
        <4> HIDE DEF f
        <4> QED BY <1>0, <4>2, <4>3, MovesOne
      <3>4. CASE BeginTrim(Loader) \/ EndTrim(Loader) \/ EndSetActive(Loader)
        <4>1. CASE BeginTrim(Loader)
          <5>1. PICK pages : frame' = [frame EXCEPT ![Loader] =
                   [frame[Loader] EXCEPT !.at = "trim", !.todo = pages]]
            BY <4>1 DEF BeginTrim
          <5> QED BY <1>0, <5>1 DEF FramesInv, FrameOK
        <4>2. CASE EndTrim(Loader) \/ EndSetActive(Loader)
          BY <1>0, <1>i, <4>2, MovesOne DEF EndTrim, EndSetActive
        <4> QED BY <3>4, <4>1, <4>2
      <3>5. ASSUME NEW p \in Page, Trim(Loader, p) PROVE frame'[Loader].at # "open"
        BY <1>0, <3>5 DEF Trim, At, FramesInv, FrameOK
      <3> QED BY <1>1, <3>1, <3>2, <3>3, <3>4, <3>5 DEF PlanStep
    <2>6. UNCHANGED loaderVars
      BY DEF ManagerStep
    <2> QED BY <2>1, <2>2, <2>3, <2>5, <2>6 DEF mappingVars
  <1>2. CASE OpenFails(Loader) \/ OpenSucceeds(Loader, loading.model)
    <2>1. At(Loader, "open") /\ frame' = [frame EXCEPT ![Loader] = Idle]
      BY <1>2 DEF OpenFails, OpenSucceeds
    <2>2. frame'[Loader] = Idle
      BY <1>0, <2>1, MovesOne
    <2>3. loading.at = "opening"
      BY <2>1 DEF Phases
    <2>4. UNCHANGED <<destroyer, loaderVars, page_descriptors_>>
      BY <1>2 DEF ManagerStep, OpenFails, OpenSucceeds, queueVars, descriptorVars
    <2> QED BY <1>2, <1>i, <2>2, <2>3, <2>4 DEF OpenFails, OpenSucceeds
  <1> QED BY <1>1, <1>2 DEF ManagerStep

LEMMA OthersKeep ==
    ASSUME PagingInv, Others
    PROVE  /\ frame'[Loader] = frame[Loader]
           /\ DOMAIN page_descriptors_' = DOMAIN page_descriptors_
           /\ UNCHANGED loaderVars
           /\ \/ UNCHANGED <<file_handle_, mapped_base_, destroyer>>
              \/ /\ destroyer # "alive" /\ destroyer' # "alive"
                 /\ \/ UNCHANGED <<file_handle_, mapped_base_>>
                    \/ file_handle_' = NoModel /\ mapped_base_' = 0
  <1>0. FramesInv /\ Worker \in Thread /\ Loader \in Thread \ {Worker}
    BY LoaderAssumption, PagingAssumption DEF PagingInv, Thread
  <1>1. UNCHANGED loaderVars
    BY DEF Others
  <1>2. CASE ResolveStep(Worker)
    <2>1. UNCHANGED mappingVars
      BY <1>2 DEF ResolveStep, ResolveGet, ResolveFind, ResolveMap, ReadFails, ReadSucceeds,
                  ResolveCopy, ReadStart, ResolveInsert, ResolveMark, ResolveFetch
    <2>2. DOMAIN page_descriptors_' = DOMAIN page_descriptors_
      BY <1>2 DEF ResolveStep, ResolveGet, ResolveFind, ResolveMap, ReadFails, ReadSucceeds,
                  ResolveCopy, ReadStart, ResolveInsert, ResolveMark, ResolveFetch,
                  descriptorVars
    <2>3. Moves1(Worker) /\ UNCHANGED destroyer
      BY <1>0, <1>2, ResolveMoves DEF queueVars, WorkerServed
    <2> QED BY <1>0, <1>1, <2>1, <2>2, <2>3 DEF mappingVars, Moves1
  <1>3. CASE WorkerWaits \/ WorkerWakes \/ WorkerTakesPage \/ WorkerProbe
    <2>1. UNCHANGED <<mappingVars, page_descriptors_, destroyer>>
      BY <1>3 DEF WorkerWaits, WorkerLoop, WorkerFindsNothing, WorkerSuspends, WorkerStops,
                  WorkerWakes, SpuriousWakeup, WorkerTakesPage, WorkerTakes, WorkerProbe,
                  Return, WorkerServed, descriptorVars, queueVars
    <2>2. Moves1(Worker)
      BY <1>3 DEF WorkerWaits, WorkerWakes, WorkerTakesPage, WorkerProbe, Return, Goto,
                  PagingInv, FramesInv, Moves1
    <2> QED BY <1>0, <1>1, <2>1, <2>2 DEF mappingVars, Moves1
  <1>4. CASE DestroyStep
    BY <1>1, <1>4 DEF DestroyStep, NotifyAll, Join, CloseMapping, mappingVars, descriptorVars
  <1> QED BY <1>2, <1>3, <1>4 DEF Others, WorkerThreadStep

LEMMA NormsNamed ==
    ASSUME PagingInv, PagesOfOpenModel
    PROVE  Embeddings \subseteq Page /\ Norms \subseteq Page
  <1>1. \A k \in DOMAIN tensor_pages_ : tensor_pages_[k] \in Page
    BY DEF PagesOfOpenModel, Range, PagingInv, MembersInv
  <1> QED BY <1>1 DEF Embeddings, Norms, NamedPages

LEMMA LoadingOKNext ==
    ASSUME LoaderInv, [LoaderNext]_allVars
    PROVE  LoadingOK'
  <1>0. /\ LoadingOK /\ PagingInv /\ PagesOfOpenModel
        /\ MaxCalls \in Nat /\ loads \in Nat /\ uses \in Nat
    BY LoaderAssumption DEF LoaderInv, LoadingOK
  <1>e. Embeddings \subseteq Page /\ Norms \subseteq Page
    BY <1>0, NormsNamed
  <1>n. /\ NotLoading \in [at : LoadPlaces, model : Model \cup {NoModel},
                           metadata : {NotLoading.metadata}, next : {NotLoading.next},
                           asks : SUBSET Page, failed : BOOLEAN]
    BY DEF NotLoading, LoadPlaces
  <1>1. ASSUME NEW m \in Model, Load(m) PROVE LoadingOK'
    <2>1. loads' = loads + 1 /\ UNCHANGED uses /\ loads + uses < MaxCalls
      BY <1>1 DEF Load
    <2>2. loading' = [NotLoading EXCEPT !.at = "reader", !.model = m]
      BY <1>1 DEF Load
    <2>3. loads' \in Nat /\ uses' \in Nat /\ loads' + uses' <= MaxCalls
      BY <1>0, <2>1
    <2>4. loading' \in [at : LoadPlaces, model : Model \cup {NoModel},
                        metadata : {NotLoading.metadata}, next : {NotLoading.next},
                        asks : SUBSET Page, failed : BOOLEAN]
      BY <2>2, PagingAssumption DEF NotLoading, LoadPlaces
    <2> QED BY <2>3, <2>4 DEF LoadingOK
  <1>2. CASE UnloadOnly \/ Loaded
    <2>1. loading' = NotLoading /\ UNCHANGED <<loads, uses>>
      BY <1>2 DEF UnloadOnly, Loaded
    <2> QED BY <1>0, <1>n, <2>1 DEF LoadingOK
  <1>3. ASSUME LoadFails, UNCHANGED <<loads, uses>> PROVE LoadingOK'
    BY <1>0, <1>n, <1>3 DEF LoadFails, LoadingOK
  <1>4. ASSUME UNCHANGED <<loading, loads, uses>> PROVE LoadingOK'
    BY <1>0, <1>4 DEF LoadingOK
  <1>5. CASE ReadHeader
    <2>1. ASSUME NEW metadata,
                 loading' = [loading EXCEPT !.at = "config", !.metadata = metadata]
          PROVE  LoadingOK'
      BY <1>0, <1>5, <2>1 DEF ReadHeader, LoadingOK, LoadPlaces
    <2> QED BY <1>3, <1>4, <1>5, <2>1 DEF ReadHeader, LoseTheWay
  <1>6. CASE OpenModel
    BY <1>0, <1>6 DEF OpenModel, LoadingOK, LoadPlaces
  <1>7. CASE Opened
    <2>1. CASE loading' = [loading EXCEPT !.at = "enumerate"]
      BY <1>0, <1>7, <2>1 DEF Opened, LoadingOK, LoadPlaces
    <2> QED BY <1>3, <1>7, <2>1 DEF Opened
  <1>8. CASE EnumerateTensors
    <2>1. ASSUME NEW k, loading' = [loading EXCEPT !.at = "register", !.next = k,
                                                   !.metadata = <<>>]
          PROVE  LoadingOK'
      BY <1>0, <1>8, <2>1 DEF EnumerateTensors, LoadingOK, LoadPlaces
    <2> QED BY <1>4, <1>8, <2>1 DEF EnumerateTensors, LoseTheWay
  <1>9. CASE RegisterNext
    <2>1. UNCHANGED <<loads, uses>> /\ \E k : loading' = [loading EXCEPT !.next = k]
      BY <1>9 DEF RegisterNext
    <2> QED BY <1>0, <2>1 DEF LoadingOK
  <1>10. CASE TensorsRegistered \/ EmbeddingsAsked
    <2>1. PICK asks \in SUBSET Page : \E place \in LoadPlaces :
             loading' = [loading EXCEPT !.at = place, !.asks = asks]
      BY <1>e, <1>10 DEF TensorsRegistered, EmbeddingsAsked, LoadPlaces
    <2> QED BY <1>0, <1>10, <2>1 DEF LoadingOK, TensorsRegistered, EmbeddingsAsked
  <1>11. ASSUME NEW from, NEW k, Ask(from, k) PROVE LoadingOK'
    <2>1. PICK p : loading' = [loading EXCEPT !.asks = loading.asks \ {p}]
      BY <1>11 DEF Ask
    <2> QED BY <1>0, <1>11, <2>1 DEF LoadingOK, Ask
  <1>12. CASE ConfigThrows \/ ManagerStep \/ Destroy \/ Others \/ UNCHANGED allVars
    BY <1>4, <1>12 DEF ConfigThrows, LoseTheWay, ManagerStep, Destroy, Others, allVars,
                       loaderVars
  <1>13. CASE Use
    <2>1. UNCHANGED <<loading, loads>> /\ uses' = uses + 1 /\ loads + uses < MaxCalls
      BY <1>13 DEF Use
    <2> QED BY <1>0, <2>1 DEF LoadingOK
  <1>14. Ask("embeddings", 20) \/ Ask("norms", 15) => LoadingOK'
    BY <1>11
  <1>15. LoadStep => LoadingOK'
    BY <1>2, <1>5, <1>6, <1>7, <1>8, <1>9, <1>10, <1>12, <1>14 DEF LoadStep
  <1> QED BY <1>1, <1>2, <1>12, <1>13, <1>15 DEF LoaderNext

\* A step of a load that goes to another place and keeps the file.
MovesTo(place) ==
    loading'.at = place /\ loading'.model = loading.model /\ loading'.failed = loading.failed

LEMMA LoadMoves ==
    ASSUME LoadingOK
    PROVE  /\ ReadHeader => \/ LoadFails /\ UNCHANGED frame
                            \/ MovesTo("config") /\ UNCHANGED frame
                            \/ UNCHANGED loading /\ Crash(Loader)
           /\ OpenModel => MovesTo("opening")
           /\ Opened => \/ file_handle_ = NoModel /\ LoadFails
                        \/ file_handle_ # NoModel /\ MovesTo("enumerate")
           /\ EnumerateTensors => \/ MovesTo("register") /\ UNCHANGED frame
                                  \/ UNCHANGED loading /\ Crash(Loader)
           /\ RegisterNext => MovesTo("register")
           /\ TensorsRegistered => MovesTo("embeddings")
           /\ EmbeddingsAsked => MovesTo("norms")
           /\ \A from, k : Ask(from, k) => MovesTo(from)
  <1> USE DEF LoadingOK, MovesTo
  <1>1. ReadHeader => \/ LoadFails /\ UNCHANGED frame
                      \/ MovesTo("config") /\ UNCHANGED frame
                      \/ UNCHANGED loading /\ Crash(Loader)
    BY DEF ReadHeader, LoseTheWay
  <1>2. OpenModel => MovesTo("opening")
    BY DEF OpenModel
  <1>3. Opened => \/ file_handle_ = NoModel /\ LoadFails
                  \/ file_handle_ # NoModel /\ MovesTo("enumerate")
    BY DEF Opened
  <1>4. EnumerateTensors => \/ MovesTo("register") /\ UNCHANGED frame
                            \/ UNCHANGED loading /\ Crash(Loader)
    BY DEF EnumerateTensors, LoseTheWay
  <1>5. RegisterNext => MovesTo("register")
    BY DEF RegisterNext, AtLoad
  <1>6. TensorsRegistered => MovesTo("embeddings")
    BY DEF TensorsRegistered
  <1>7. EmbeddingsAsked => MovesTo("norms")
    BY DEF EmbeddingsAsked
  <1>8. ASSUME NEW from, NEW k, Ask(from, k) PROVE MovesTo(from)
    BY <1>8 DEF Ask, AtLoad
  <1> QED BY <1>1, <1>2, <1>3, <1>4, <1>5, <1>6, <1>7, <1>8

LEMMA PhasesNext ==
    ASSUME LoaderInv, [LoaderNext]_allVars
    PROVE  Phases'
  <1>0. /\ LoadingOK /\ PagingInv /\ Phases /\ FramesInv /\ FrameOK(frame[Loader])
        /\ Loader \in Thread
    BY LoaderAssumption DEF LoaderInv, PagingInv, FramesInv, Thread
  <1> USE DEF At
  <1>n. /\ NotLoading.at = "idle" /\ ~NotLoading.failed
        /\ [NotLoading EXCEPT !.failed = TRUE].at = "idle"
    BY DEF NotLoading
  <1>c. Crash(Loader) => frame'[Loader].at = "crashed"
    BY <1>0 DEF Crash, Goto, FramesInv, FrameOK
  <1>1. ASSUME NEW m \in Model, Load(m) PROVE Phases'
    <2>1. loading'.at = "reader" /\ loading'.model = m /\ ~loading'.failed
      BY <1>1 DEF Load, NotLoading
    <2>2. /\ loading.at = "idle" /\ destroyer = "alive" /\ UNCHANGED <<frame, queueVars>>
          /\ loads' = loads + 1 /\ loads \in Nat
          /\ Unload
      BY <1>0, <1>1 DEF Load, AtLoad, LoadingOK
    <2>3. frame'[Loader].at # "open" /\ loads' > 0 /\ destroyer' = "alive"
      BY <1>0, <2>2 DEF Phases, queueVars
    <2> QED BY <2>1, <2>2, <2>3 DEF Phases, Unload, CloseMapping
  <1>2. CASE UnloadOnly
    <2>1. /\ loading.at = "idle" /\ loading' = NotLoading /\ UNCHANGED <<frame, queueVars>>
          /\ Unload
      BY <1>2 DEF UnloadOnly, AtLoad
    <2>2. frame'[Loader].at # "open"
      BY <1>0, <2>1 DEF Phases
    <2> QED BY <1>n, <2>1, <2>2 DEF Phases, Unload, CloseMapping
  <1>3. CASE ReadHeader
    <2>1. /\ loading.at = "reader"
          /\ UNCHANGED <<queueVars, mappingVars, config_, loaded_, tables, loads>>
      BY <1>3 DEF ReadHeader, AtLoad
    <2>2. \/ LoadFails /\ UNCHANGED frame
          \/ MovesTo("config") /\ UNCHANGED frame
          \/ UNCHANGED loading /\ Crash(Loader)
      BY <1>0, <1>3, LoadMoves
    <2> QED BY <1>0, <1>n, <1>c, <2>1, <2>2
            DEF Phases, queueVars, mappingVars, tables, MovesTo, LoadFails
  <1>t. CASE ConfigThrows
    <2>1. /\ loading.at = "config" /\ Crash(Loader)
          /\ UNCHANGED <<queueVars, mappingVars, config_, loaded_, tables, loading, loads>>
      BY <1>t DEF ConfigThrows, LoseTheWay, AtLoad
    <2> QED BY <1>0, <1>c, <2>1 DEF Phases, queueVars, mappingVars, tables
  <1>4. CASE OpenModel
    <2>1. /\ loading.at = "config" /\ config_' = loading.model /\ CloseMapping
          /\ UNCHANGED <<queueVars, loaded_, tables, loads>>
      BY <1>4 DEF OpenModel, AtLoad, ReadConfig, BeginOpen
    <2>2. MovesTo("opening")
      BY <1>0, <1>4, LoadMoves
    <2> QED BY <1>0, <2>1, <2>2 DEF Phases, queueVars, CloseMapping, tables, MovesTo
  <1>5. CASE Opened
    <2>1. /\ loading.at = "opening" /\ frame[Loader].at = "idle"
          /\ UNCHANGED <<vars, config_, loaded_, tables, loads>>
      BY <1>5 DEF Opened, AtLoad
    <2>2. \/ file_handle_ = NoModel /\ LoadFails
          \/ file_handle_ # NoModel /\ MovesTo("enumerate")
      BY <1>0, <1>5, LoadMoves
    <2> QED BY <1>0, <1>n, <2>1, <2>2
            DEF Phases, vars, queueVars, mappingVars, tables, MovesTo, LoadFails
  <1>6. CASE EnumerateTensors
    <2>1. /\ loading.at = "enumerate" /\ frame[Loader].at = "idle"
          /\ UNCHANGED <<queueVars, mappingVars, config_, loaded_, tensor_pages_, loads>>
      BY <1>6 DEF EnumerateTensors, AtLoad
    <2>2. \/ MovesTo("register") /\ UNCHANGED frame
          \/ UNCHANGED loading /\ Crash(Loader)
      BY <1>0, <1>6, LoadMoves
    <2> QED BY <1>0, <1>c, <2>1, <2>2 DEF Phases, queueVars, mappingVars, MovesTo
  <1>7. CASE RegisterNext
    <2>1. /\ loading.at = "register" /\ frame[Loader].at = "idle"
          /\ UNCHANGED <<queueVars, mappingVars, frame, config_, loaded_, loads>>
      BY <1>7 DEF RegisterNext, AtLoad, At, RegisterTensor
    <2>2. MovesTo("register")
      BY <1>0, <1>7, LoadMoves
    <2> QED BY <1>0, <2>1, <2>2 DEF Phases, queueVars, mappingVars, MovesTo
  <1>8. CASE TensorsRegistered \/ EmbeddingsAsked
    <2>1. /\ loading.at \in {"register", "embeddings"} /\ frame[Loader].at = "idle"
          /\ UNCHANGED <<vars, config_, loaded_, tables, loads>>
      BY <1>8 DEF TensorsRegistered, EmbeddingsAsked, AtLoad
    <2>2. MovesTo("embeddings") \/ MovesTo("norms")
      BY <1>0, <1>8, LoadMoves
    <2> QED BY <1>0, <2>1, <2>2 DEF Phases, vars, queueVars, mappingVars, tables, MovesTo
  <1>9. ASSUME NEW from \in {"embeddings", "norms"}, NEW k, Ask(from, k) PROVE Phases'
    <2>1. /\ loading.at = from
          /\ UNCHANGED <<queueVars, mappingVars, config_, loaded_, tables, loads>>
      BY <1>9 DEF Ask, AtLoad, BeginPrefetch
    <2>2. MovesTo(from)
      BY <1>0, <1>9, LoadMoves
    <2>3. frame'[Loader].at # "open"
      BY <1>0, <1>9 DEF Ask, BeginPrefetch, FramesInv, FrameOK
    <2> QED BY <1>0, <2>1, <2>2, <2>3 DEF Phases, queueVars, mappingVars, tables, MovesTo
  <1>10. CASE Loaded
    <2>1. /\ loading' = NotLoading /\ frame[Loader].at = "idle"
          /\ UNCHANGED <<vars, config_, tables, loads>>
      BY <1>10 DEF Loaded, AtLoad
    <2> QED BY <1>0, <1>n, <2>1 DEF Phases, vars, queueVars, mappingVars, tables
  <1>11. CASE ManagerStep
    <2>1. /\ frame'[Loader].at # "open" /\ UNCHANGED <<destroyer, loaderVars>>
          /\ \/ UNCHANGED <<file_handle_, mapped_base_>>
             \/ loading.at = "opening" /\ file_handle_' = loading.model
      BY <1>0, <1>11, ManagerKeeps
    <2>2. loading.at = "opening" => loading.model # NoModel
      BY <1>0, PagingAssumption DEF Phases
    <2> QED BY <1>0, <2>1, <2>2 DEF Phases, loaderVars, tables
  <1>12. CASE Use
    <2>1. /\ loading.at = "idle" /\ UNCHANGED <<mappingVars, queueVars, config_, loaded_,
                                                tables, loading, loads>>
      BY <1>12 DEF Use, AtLoad, BeginSetActive
    <2>2. frame'[Loader].at # "open"
      BY <1>0, <1>12 DEF Use, BeginSetActive, FramesInv, FrameOK
    <2> QED BY <1>0, <2>1, <2>2 DEF Phases, queueVars, mappingVars, tables
  <1>13. CASE Destroy
    <2>1. /\ tensor_pages_ = <<>> /\ loading.at = "idle"
          /\ UNCHANGED <<mappingVars, frame, loaderVars>>
      BY <1>13 DEF Destroy, AtLoad, BeginDestroy
    <2> QED BY <1>0, <2>1 DEF Phases, mappingVars, loaderVars, tables
  <1>14. CASE Others
    <2>1. /\ frame'[Loader] = frame[Loader] /\ UNCHANGED loaderVars
          /\ \/ UNCHANGED <<file_handle_, mapped_base_, destroyer>>
             \/ /\ destroyer # "alive" /\ destroyer' # "alive"
                /\ \/ UNCHANGED <<file_handle_, mapped_base_>>
                   \/ file_handle_' = NoModel /\ mapped_base_' = 0
      BY <1>0, <1>14, OthersKeep
    <2> QED BY <1>0, <2>1 DEF Phases, loaderVars, tables
  <1>15. CASE UNCHANGED allVars
    BY <1>0, <1>15 DEF allVars, vars, queueVars, mappingVars, loaderVars, tables, Phases
  <1>16. Ask("embeddings", 20) \/ Ask("norms", 15) => Phases'
    BY <1>9
  <1>17. LoadStep => Phases'
    BY <1>3, <1>t, <1>4, <1>5, <1>6, <1>7, <1>8, <1>10, <1>11, <1>16 DEF LoadStep
  <1> QED BY <1>1, <1>2, <1>12, <1>13, <1>14, <1>15, <1>17 DEF LoaderNext

\* Who writes the tables.
LEMMA TablesWritten ==
    ASSUME [LoaderNext]_allVars
    PROVE  \/ UNCHANGED tables
           \/ tensor_pages_' = <<>> /\ layer_tensors_' = <<>>
           \/ EnumerateTensors
           \/ RegisterNext
  <1> USE DEF tables
  <1>1. CASE (\E m \in Model : Load(m)) \/ UnloadOnly
    BY <1>1 DEF Load, UnloadOnly, Unload
  <1>2. ASSUME NEW from, NEW k, Ask(from, k) PROVE UNCHANGED tables
    BY <1>2 DEF Ask
  <1>3. Ask("embeddings", 20) \/ Ask("norms", 15) => UNCHANGED tables
    BY <1>2
  <1>4. CASE LoadStep
    BY <1>3, <1>4 DEF LoadStep, ReadHeader, ConfigThrows, OpenModel, Opened, TensorsRegistered,
                      EmbeddingsAsked, Loaded, ManagerStep, loaderVars
  <1>5. CASE Use \/ Destroy \/ Others \/ UNCHANGED allVars
    BY <1>5 DEF Use, Destroy, Others, loaderVars, allVars
  <1> QED BY <1>1, <1>4, <1>5 DEF LoaderNext

LEMMA TablesNext ==
    ASSUME LoaderInv, [LoaderNext]_allVars
    PROVE  FieldsNamed' /\ RegistriesAgree'
  <1>0. FieldsNamed /\ RegistriesAgree
    BY DEF LoaderInv
  <1>1. CASE UNCHANGED tables
    BY <1>0, <1>1 DEF FieldsNamed, RegistriesAgree, tables
  <1>2. CASE tensor_pages_' = <<>> /\ layer_tensors_' = <<>>
    <2>1. DOMAIN layer_tensors_' = {}
      BY <1>2
    <2> QED BY <2>1 DEF FieldsNamed, RegistriesAgree
  <1>3. CASE EnumerateTensors
    <2>1. UNCHANGED tensor_pages_
      BY <1>3 DEF EnumerateTensors
    <2>2. CASE UNCHANGED layer_tensors_
      BY <1>0, <2>1, <2>2 DEF FieldsNamed, RegistriesAgree
    <2>3. CASE layer_tensors_' = Resized
      <3>1. \A l \in DOMAIN layer_tensors_' : DOMAIN layer_tensors_'[l] = {}
        BY <2>3 DEF Resized
      <3> QED BY <3>1 DEF FieldsNamed, RegistriesAgree
    <2> QED BY <1>3, <2>2, <2>3 DEF EnumerateTensors
  <1>4. CASE RegisterNext
    <2> DEFINE p == [load |-> loads, model |-> loading.model, at |-> loading.next]
               K(q) == KeyOf(TensorOf(q))
               F(q) == Fields(K(q)[2])
    <2>1. /\ tensor_pages_' = Put(tensor_pages_, K(p), p)
          /\ layer_tensors_' =
                [l \in DOMAIN layer_tensors_ |->
                    IF l = K(p)[1]
                    THEN [f \in DOMAIN layer_tensors_[l] \cup F(p) |->
                             IF f \in F(p) THEN p ELSE layer_tensors_[l][f]]
                    ELSE layer_tensors_[l]]
      BY <1>4 DEF RegisterNext, Name
    <2>2. \A l \in DOMAIN layer_tensors_ : \A f \in DOMAIN layer_tensors_[l] :
             /\ f \in F(layer_tensors_[l][f]) /\ K(layer_tensors_[l][f])[1] = l
             /\ K(layer_tensors_[l][f]) \in DOMAIN tensor_pages_
             /\ tensor_pages_[K(layer_tensors_[l][f])] = layer_tensors_[l][f]
      BY <1>0 DEF FieldsNamed, RegistriesAgree
    <2> HIDE DEF p
    <2>3. /\ DOMAIN tensor_pages_' = DOMAIN tensor_pages_ \cup {K(p)}
          /\ tensor_pages_'[K(p)] = p
          /\ \A k \in DOMAIN tensor_pages_ : k # K(p) => tensor_pages_'[k] = tensor_pages_[k]
      BY <2>1 DEF Put
    <2>4. \A q : K(q) = K(p) => F(q) = F(p)
      OBVIOUS
    <2> HIDE DEF K, F
    <2>5. ASSUME NEW l \in DOMAIN layer_tensors_', NEW f \in DOMAIN layer_tensors_'[l]
          PROVE  LET q == layer_tensors_'[l][f]
                 IN  /\ f \in F(q) /\ K(q)[1] = l
                     /\ K(q) \in DOMAIN tensor_pages_' /\ tensor_pages_'[K(q)] = q
      <3>1. CASE l = K(p)[1] /\ f \in F(p)
        <4>1. layer_tensors_'[l][f] = p
          BY <2>1, <2>5, <3>1
        <4> QED BY <2>3, <3>1, <4>1
      <3>2. CASE ~(l = K(p)[1] /\ f \in F(p))
        <4> DEFINE q == layer_tensors_[l][f]
        <4>1. /\ l \in DOMAIN layer_tensors_ /\ f \in DOMAIN layer_tensors_[l]
              /\ layer_tensors_'[l][f] = q
          BY <2>1, <2>5, <3>2
        <4>2. /\ f \in F(q) /\ K(q)[1] = l
              /\ K(q) \in DOMAIN tensor_pages_ /\ tensor_pages_[K(q)] = q
          BY <2>2, <4>1
        <4>3. K(q) # K(p)
          BY <2>4, <3>2, <4>2
        <4> HIDE DEF q
        <4> QED BY <2>3, <4>1, <4>2, <4>3
      <3> QED BY <3>1, <3>2
    <2> QED BY <2>5 DEF FieldsNamed, RegistriesAgree, K, F
  <1> QED BY <1>1, <1>2, <1>3, <1>4, TablesWritten

LEMMA PagesNext ==
    ASSUME LoaderInv, [LoaderNext]_allVars
    PROVE  PagesOfOpenModel'
  <1>0. PagesOfOpenModel /\ Phases /\ PagingInv
    BY DEF LoaderInv
  <1>1. CASE tensor_pages_' = <<>>
    <2>1. Range(tensor_pages_') = {}
      BY <1>1 DEF Range
    <2> QED BY <2>1 DEF PagesOfOpenModel, Range
  <1>2. CASE RegisterNext
    <2> DEFINE p == [load |-> loads, model |-> loading.model, at |-> loading.next]
    <2>1. PICK key : tensor_pages_' = Put(tensor_pages_, key, p) /\ RegisterTensor(Loader, p)
      BY <1>2 DEF RegisterNext, Name
    <2>2. p.load = loads /\ p.model = loading.model
      OBVIOUS
    <2> HIDE DEF p
    <2>3. /\ UNCHANGED <<mappingVars, config_, loads>>
          /\ DOMAIN page_descriptors_' = DOMAIN page_descriptors_ \cup {p}
      BY <1>2, <2>1 DEF RegisterNext, RegisterTensor
    <2>4. config_ = loading.model /\ file_handle_ = loading.model
      BY <1>0, <1>2 DEF RegisterNext, AtLoad, Phases
    <2>5. \A k \in DOMAIN tensor_pages_' :
             tensor_pages_'[k] = p \/ tensor_pages_'[k] \in Range(tensor_pages_)
      BY <2>1 DEF Put, Range
    <2> QED BY <1>0, <2>2, <2>3, <2>4, <2>5 DEF PagesOfOpenModel, Range, mappingVars
  <1>3. ASSUME UNCHANGED <<tensor_pages_, loads, config_, file_handle_>>,
               DOMAIN page_descriptors_' = DOMAIN page_descriptors_
        PROVE  PagesOfOpenModel'
    BY <1>0, <1>3 DEF PagesOfOpenModel, Range
  <1>4. CASE (\E m \in Model : Load(m)) \/ UnloadOnly
    BY <1>1, <1>4 DEF Load, UnloadOnly, Unload
  <1>5. CASE OpenModel
    BY <1>0, <1>1, <1>5 DEF OpenModel, AtLoad, Phases, tables
  <1>6. CASE ReadHeader \/ ConfigThrows \/ Opened \/ EnumerateTensors \/ TensorsRegistered
             \/ EmbeddingsAsked \/ Loaded
    BY <1>3, <1>6 DEF ReadHeader, ConfigThrows, Opened, EnumerateTensors, TensorsRegistered,
                      EmbeddingsAsked, Loaded, tables, vars, mappingVars, descriptorVars
  <1>7. ASSUME NEW from, NEW k, Ask(from, k) PROVE PagesOfOpenModel'
    BY <1>3, <1>7 DEF Ask, BeginPrefetch, tables, mappingVars, descriptorVars
  <1>8. CASE ManagerStep
    <2>1. /\ UNCHANGED loaderVars
          /\ DOMAIN page_descriptors_' = DOMAIN page_descriptors_
          /\ UNCHANGED file_handle_ \/ loading.at = "opening"
      BY <1>0, <1>8, ManagerKeeps
    <2>2. CASE UNCHANGED file_handle_
      BY <1>3, <2>1, <2>2 DEF loaderVars, tables
    <2>3. CASE loading.at = "opening"
      BY <1>0, <1>1, <2>1, <2>3 DEF Phases, loaderVars, tables
    <2> QED BY <2>1, <2>2, <2>3
  <1>9. CASE Use
    BY <1>3, <1>9 DEF Use, BeginSetActive, tables, mappingVars, descriptorVars
  <1>10. CASE Destroy
    BY <1>3, <1>10 DEF Destroy, BeginDestroy, loaderVars, tables, mappingVars, descriptorVars
  <1>11. CASE Others
    <2>1. /\ UNCHANGED loaderVars
          /\ DOMAIN page_descriptors_' = DOMAIN page_descriptors_
          /\ UNCHANGED file_handle_ \/ destroyer # "alive"
      BY <1>0, <1>11, OthersKeep
    <2>2. CASE UNCHANGED file_handle_
      BY <1>3, <2>1, <2>2 DEF loaderVars, tables
    <2>3. CASE destroyer # "alive"
      BY <1>0, <1>1, <2>1, <2>3 DEF Phases, loaderVars, tables
    <2> QED BY <2>1, <2>2, <2>3
  <1>12. CASE UNCHANGED allVars
    BY <1>3, <1>12 DEF allVars, vars, loaderVars, tables, mappingVars, descriptorVars
  <1>13. Ask("embeddings", 20) \/ Ask("norms", 15) => PagesOfOpenModel'
    BY <1>7
  <1>14. LoadStep => PagesOfOpenModel'
    BY <1>2, <1>5, <1>6, <1>8, <1>13 DEF LoadStep
  <1> QED BY <1>4, <1>9, <1>10, <1>11, <1>12, <1>14 DEF LoaderNext

LEMMA FailedNext ==
    ASSUME LoaderInv, [LoaderNext]_allVars
    PROVE  FailedLoadLeavesNothing'
  <1>0. FailedLoadLeavesNothing /\ Phases /\ LoadingOK /\ PagingInv
    BY DEF LoaderInv
  <1> USE DEF FailedLoadLeavesNothing
  <1>1. ASSUME ~loading'.failed PROVE FailedLoadLeavesNothing'
    BY <1>1
  <1>2. ASSUME UNCHANGED <<loading, loaded_, tables, file_handle_, mapped_base_>>
        PROVE  FailedLoadLeavesNothing'
    BY <1>0, <1>2 DEF tables
  <1>3. CASE (\E m \in Model : Load(m)) \/ UnloadOnly \/ Loaded
    <2>1. ~loading'.failed
      <3>1. ASSUME NEW m \in Model, Load(m) PROVE ~loading'.failed
        BY <3>1 DEF Load, NotLoading
      <3>2. CASE UnloadOnly \/ Loaded
        BY <3>2 DEF UnloadOnly, Loaded, NotLoading
      <3> QED BY <1>3, <3>1, <3>2
    <2> QED BY <1>1, <2>1
  <1>4. ASSUME LoadFails, UNCHANGED <<loaded_, tables, mappingVars>>,
               loading.at \in {"reader", "opening"}, file_handle_ = NoModel
        PROVE  FailedLoadLeavesNothing'
    BY <1>0, <1>4 DEF Phases, tables, mappingVars
  <1>5. ASSUME NEW place, MovesTo(place), loading.at # "idle"
        PROVE  FailedLoadLeavesNothing'
    BY <1>0, <1>1, <1>5 DEF MovesTo, Phases
  <1>6. CASE ReadHeader
    <2>1. /\ loading.at = "reader" /\ UNCHANGED <<loaded_, tables, mappingVars>>
          /\ file_handle_ = NoModel
      BY <1>0, <1>6 DEF ReadHeader, AtLoad, Phases
    <2>2. LoadFails \/ MovesTo("config") \/ UNCHANGED loading
      BY <1>0, <1>6, LoadMoves
    <2> QED BY <1>2, <1>4, <1>5, <2>1, <2>2 DEF mappingVars
  <1>7. CASE Opened
    <2>1. loading.at = "opening" /\ UNCHANGED <<loaded_, tables, mappingVars>>
      BY <1>7 DEF Opened, AtLoad, vars
    <2>2. \/ file_handle_ = NoModel /\ LoadFails
          \/ file_handle_ # NoModel /\ MovesTo("enumerate")
      BY <1>0, <1>7, LoadMoves
    <2> QED BY <1>4, <1>5, <2>1, <2>2
  <1>8. CASE EnumerateTensors
    <2>1. loading.at = "enumerate"
      BY <1>8 DEF EnumerateTensors, AtLoad
    <2>2. \/ MovesTo("register")
          \/ UNCHANGED <<loading, loaded_, tables, file_handle_, mapped_base_>>
      <3>1. CASE WalkEnd(SkipWalk(loading.metadata)) = MetadataEnd(loading.metadata)
        BY <1>0, <1>8, <3>1 DEF EnumerateTensors, LoadingOK, MovesTo
      <3>2. CASE WalkEnd(SkipWalk(loading.metadata)) # MetadataEnd(loading.metadata)
        BY <1>8, <3>2 DEF EnumerateTensors, LoseTheWay, tables, mappingVars
      <3> QED BY <3>1, <3>2
    <2> QED BY <1>2, <1>5, <2>1, <2>2
  <1>9. CASE OpenModel \/ RegisterNext \/ TensorsRegistered \/ EmbeddingsAsked
    <2>1. loading.at # "idle"
      BY <1>9 DEF OpenModel, RegisterNext, TensorsRegistered, EmbeddingsAsked, AtLoad
    <2>2. \E place : MovesTo(place)
      BY <1>0, <1>9, LoadMoves
    <2> QED BY <1>5, <2>1, <2>2
  <1>10. ASSUME NEW from \in {"embeddings", "norms"}, NEW k, Ask(from, k)
         PROVE  FailedLoadLeavesNothing'
    <2>1. MovesTo(from) /\ loading.at = from
      BY <1>0, <1>10, LoadMoves DEF Ask, AtLoad
    <2> QED BY <1>5, <2>1
  <1>11. CASE ManagerStep
    <2>1. /\ UNCHANGED loaderVars
          /\ UNCHANGED <<file_handle_, mapped_base_>> \/ loading.at = "opening"
      BY <1>0, <1>11, ManagerKeeps
    <2> QED BY <1>0, <1>1, <1>2, <2>1 DEF Phases, loaderVars
  <1>12. CASE Use
    BY <1>0, <1>1, <1>12 DEF Use
  <1>13. CASE Destroy
    BY <1>2, <1>13 DEF Destroy, BeginDestroy, loaderVars, mappingVars
  <1>14. CASE Others
    <2>1. /\ UNCHANGED loaderVars
          /\ \/ UNCHANGED <<file_handle_, mapped_base_>>
             \/ file_handle_' = NoModel /\ mapped_base_' = 0
      BY <1>0, <1>14, OthersKeep
    <2> QED BY <1>0, <2>1 DEF loaderVars, tables
  <1>15. CASE ConfigThrows \/ UNCHANGED allVars
    BY <1>2, <1>15 DEF ConfigThrows, LoseTheWay, allVars, vars, loaderVars, mappingVars
  <1>16. Ask("embeddings", 20) \/ Ask("norms", 15) => FailedLoadLeavesNothing'
    BY <1>10
  <1>17. LoadStep => FailedLoadLeavesNothing'
    BY <1>3, <1>6, <1>7, <1>8, <1>9, <1>11, <1>15, <1>16 DEF LoadStep
  <1> QED BY <1>3, <1>12, <1>13, <1>14, <1>15, <1>17 DEF LoaderNext

LEMMA LoaderInitOK == LoaderInit => LoaderInv
  <1> SUFFICES ASSUME LoaderInit PROVE LoaderInv
    OBVIOUS
  <1> USE DEF LoaderInit
  <1>1. PagingInv
    BY PagingInit
  <1>2. LoadingOK
    BY LoaderAssumption DEF LoadingOK, NotLoading, LoadPlaces
  <1>3. Phases
    BY LoaderAssumption DEF Phases, Init, StartWith, QueueInit, NotLoading, At, Idle, Thread
  <1>4. DOMAIN tensor_pages_ = {} /\ DOMAIN layer_tensors_ = {} /\ ~loading.failed
    BY DEF NotLoading
  <1> QED BY <1>1, <1>2, <1>3, <1>4
          DEF LoaderInv, FieldsNamed, RegistriesAgree, PagesOfOpenModel, Range,
              FailedLoadLeavesNothing

LEMMA LoaderInvariant == ~Clobber => (LoaderSpec => []LoaderInv)
  <1> SUFFICES ASSUME ~Clobber PROVE LoaderSpec => []LoaderInv
    OBVIOUS
  <1>1. LoaderInv /\ [LoaderNext]_allVars => LoaderInv'
    BY LoaderPaging, LoadingOKNext, PhasesNext, TablesNext, PagesNext, FailedNext
       DEF LoaderInv
  <1> QED BY <1>1, LoaderInitOK, PTL DEF LoaderSpec

(* The manager that loads and unloads models while its prefetch thread runs *)
(* stays well formed, its map sound, its buffers private.                   *)
THEOREM LoaderKeepsManager ==
    ~Clobber => (LoaderSpec => [](TypeOK /\ MapSound /\ BuffersPrivate /\ NoRequestSleeps))
  <1>1. LoaderInv => TypeOK /\ MapSound /\ BuffersPrivate /\ NoRequestSleeps
    BY DEF LoaderInv, PagingInv, CacheInv, QueueInv, MembersInv, FramesInv, FrameOK, TypeOK
  <1> QED BY <1>1, LoaderInvariant, PTL

(* The two registries name the same pages, for any files with any names,    *)
(* whatever occurs in them and however often they are given                 *)
(* (model_loader.cpp:494-511).                                              *)
THEOREM LoaderRegistriesAgree == ~Clobber => (LoaderSpec => []RegistriesAgree)
  <1>1. LoaderInv => RegistriesAgree
    BY DEF LoaderInv
  <1> QED BY <1>1, LoaderInvariant, PTL

(* After any sequence of loads, failed loads and unloads, a page the loader *)
(* hands out is one of the open model, registered by the last load          *)
(* (model_loader.cpp:419-461, 475-494).                                     *)
THEOREM LoaderPagesOfOpenModel == ~Clobber => (LoaderSpec => []PagesOfOpenModel)
  <1>1. LoaderInv => PagesOfOpenModel
    BY DEF LoaderInv
  <1> QED BY <1>1, LoaderInvariant, PTL

(* A failed load leaves no model behind, wherever in load it fails          *)
(* (model_loader.cpp:419-434).                                              *)
THEOREM LoaderFailureLeavesNothing == ~Clobber => (LoaderSpec => []FailedLoadLeavesNothing)
  <1>1. LoaderInv => FailedLoadLeavesNothing
    BY DEF LoaderInv
  <1> QED BY <1>1, LoaderInvariant, PTL

=============================================================================
