-------------------------- MODULE SSDPagingManager --------------------------
(***************************************************************************)
(* The out-of-core memory system: class SSDPagingManager of                *)
(* engine/paging_manager.{h,cpp}, composed of its PageCache and its        *)
(* PrefetchQueue, with the threads that call it and the prefetch thread.   *)
(*                                                                         *)
(* A step ends where another thread may come in between: at every lock     *)
(* taken or released, every access to the mapping and every read.          *)
(* descriptor_mutex_ is held across steps, the locks of the cache and of   *)
(* the queue within one.  The members that open_model and close write are  *)
(* protected by no lock.                                                   *)
(***************************************************************************)
EXTENDS PageCache, PrefetchQueue

CONSTANTS
    Caller, Worker,      \* the calling threads and the prefetch thread
    Model, NoModel,      \* model files
    Nobody,              \* a mutex no thread holds
    ModelOf(_),          \* whose tensor a page is: its descriptor's file,
    LayerOf(_),          \*   layer_idx,
    SizeOf(_),           \*   size_bytes,
    EndOf(_),            \*   file_offset + size_bytes in units of ChunkSize
    NLayers,             \* n_layers_
    FileSize, ChunkSize, \* size of a file; what the fallback mapping covers
    UInt,                \* 2^32, the modulus of uint32_t
    Registered,          \* the pages registered at the start
    Operations,          \* bound: the operations callers use
    MaxOpens             \* bound: how often open_model maps a file

ASSUME PagingAssumption ==
    /\ Worker \notin Caller
    /\ Nobody \notin Caller \cup {Worker}
    /\ NoModel \notin Model
    /\ Registered \subseteq Page
    /\ Request \subseteq [page_id : Page, priority : Int]
    /\ \A p \in Page :
          /\ ModelOf(p) \in Model
          /\ LayerOf(p) \in 0..UInt - 1
          /\ SizeOf(p) \in Size
          /\ EndOf(p) \in Nat \ {0}
    /\ {FileSize, ChunkSize, MaxOpens, UInt} \subseteq Nat \ {0}
    /\ NLayers \in 0..UInt - 1

VARIABLES
    page_descriptors_,   \* registered page -> is_active
    descriptor_mutex_,   \* its holder
    file_handle_,        \* the open model file
    mapped_base_,        \* 0: nullptr; otherwise the number of the mapping
    mapped_size_,
    view_end,            \* how far the view at mapped_base_ reaches
    mappings,            \* how many mappings there have been
    bytes,               \* node -> what its buffer holds
    frame                \* thread -> its place and its local variables

mappingVars == <<file_handle_, mapped_base_, mapped_size_, view_end, mappings>>
descriptorVars == <<page_descriptors_, descriptor_mutex_>>
vars == <<cacheVars, queueVars, mappingVars, descriptorVars, bytes, frame>>

Thread == Caller \cup {Worker}

Idle == [at |-> "idle", page |-> {}, buffer |-> {}, base |-> 0, fast |-> FALSE,
         plan |-> <<>>, trim |-> {}, todo |-> {}, held |-> {}, priority |-> 0]

\* A manager nobody has called yet, with the given file and view open.
StartWith(file, base, size, end) ==
    /\ CacheInit
    /\ QueueInit
    /\ page_descriptors_ = [p \in Registered |-> FALSE]
    /\ descriptor_mutex_ = Nobody
    /\ file_handle_ = file
    /\ mapped_base_ = base
    /\ mapped_size_ = size
    /\ view_end = end
    /\ mappings = base
    /\ bytes = [n \in Node |-> "none"]
    /\ frame = [t \in Thread |-> Idle]

Init == StartWith(NoModel, 0, 0, 0)

-----------------------------------------------------------------------------
At(t, place) == frame[t].at = place
Goto(t, place) == frame' = [frame EXCEPT ![t].at = place]

\* The page t's call is about.
Of(t) == CHOOSE p \in Page : frame[t].page = {p}

Lock(t) == descriptor_mutex_ = Nobody /\ descriptor_mutex_' = t
Unlock == descriptor_mutex_' = Nobody
Unlocked == descriptor_mutex_ = Nobody /\ UNCHANGED descriptor_mutex_

\* A call that nobody has begun yet.
Begins(t, operation) ==
    /\ At(t, "idle")
    /\ operation \in Operations
    /\ destroyer = "alive"

-----------------------------------------------------------------------------
(* open_model, close, register_tensor *)

CloseMapping ==
    /\ file_handle_' = NoModel
    /\ mapped_base_' = 0
    /\ mapped_size_' = 0
    /\ view_end' = 0
    /\ UNCHANGED mappings

Close(t) ==
    /\ Begins(t, "close")
    /\ CloseMapping
    /\ UNCHANGED <<cacheVars, queueVars, descriptorVars, bytes, frame>>

\* open_model first closes what is open; cache, queue and descriptors stay.
BeginOpen(t) ==
    /\ Begins(t, "open")
    /\ mappings < MaxOpens
    /\ CloseMapping
    /\ Goto(t, "open")
    /\ UNCHANGED <<cacheVars, queueVars, descriptorVars, bytes>>

\* The file does not open, or its mapping cannot be created: the file is
\* closed again, but mapped_size_ keeps the file's size in the second case.
OpenFails(t) ==
    /\ At(t, "open")
    /\ mapped_size_' \in {mapped_size_, FileSize}
    /\ frame' = [frame EXCEPT ![t] = Idle]
    /\ UNCHANGED <<cacheVars, queueVars, descriptorVars, bytes,
                   file_handle_, mapped_base_, view_end, mappings>>

\* The view covers the file, or a first chunk of it, or there is none and
\* every page will be read explicitly; mapped_size_ is the file's in all cases.
OpenSucceeds(t, m) ==
    /\ At(t, "open")
    /\ file_handle_' = m
    /\ mapped_size_' = FileSize
    /\ \/ /\ mappings < MaxOpens
          /\ mappings' = mappings + 1
          /\ mapped_base_' = mappings'
          /\ view_end' \in {FileSize, ChunkSize}
       \/ UNCHANGED <<mapped_base_, view_end, mappings>>
    /\ frame' = [frame EXCEPT ![t] = Idle]
    /\ UNCHANGED <<cacheVars, queueVars, descriptorVars, bytes>>

RegisterTensor(t, p) ==
    /\ Begins(t, "register")
    /\ Unlocked
    /\ p \notin DOMAIN page_descriptors_
    /\ page_descriptors_' = [q \in DOMAIN page_descriptors_ \cup {p} |->
                                q # p /\ page_descriptors_[q]]
    /\ UNCHANGED <<cacheVars, queueVars, mappingVars, bytes, frame>>

-----------------------------------------------------------------------------
(* resolve_tensor and read_page_from_ssd, by a caller or by the worker *)

\* The end of a resolve by t.  A caller goes on with the pointer, or without;
\* the worker drops it and turns to the next request.
Return(t, pointer, otherwise) ==
    /\ frame' = [frame EXCEPT ![t] =
          IF t = Worker THEN Idle
          ELSE [Idle EXCEPT !.at = IF pointer = {} THEN otherwise ELSE "using",
                            !.page = frame[t].page,
                            !.held = pointer]]
    /\ IF t = Worker THEN WorkerServed ELSE UNCHANGED queueVars

BeginResolve(t, p) ==
    /\ Begins(t, "resolve")
    /\ frame' = [frame EXCEPT ![t].at = "get", ![t].page = {p}]
    /\ UNCHANGED <<cacheVars, queueVars, mappingVars, descriptorVars, bytes>>

ResolveGet(t) ==
    /\ At(t, "get")
    /\ Get(Of(t))
    /\ IF CachedPage(Of(t))
       THEN Return(t, Lookup(Of(t)), "using")
       ELSE Goto(t, "find") /\ UNCHANGED queueVars
    /\ UNCHANGED <<mappingVars, descriptorVars, bytes>>

ResolveFind(t) ==
    /\ At(t, "find")
    /\ Unlocked
    /\ IF Of(t) \in DOMAIN page_descriptors_
       THEN Goto(t, "map") /\ UNCHANGED queueVars
       ELSE Return(t, {}, "refused")
    /\ UNCHANGED <<cacheVars, mappingVars, page_descriptors_, bytes>>

\* Does the code take the page to lie inside the mapping?
Mapped(p) == mapped_base_ # 0 /\ EndOf(p) <= mapped_size_

\* Reading past the end of the view, or through a view that is gone, is an
\* access violation: the process is at its end.
Crash(t) == Goto(t, "crashed")

\* mapped_base_ and mapped_size_ are tested, a pointer into the mapping is
\* computed, and its first byte is read.
ResolveMap(t) ==
    /\ At(t, "map")
    /\ \/ Mapped(Of(t)) /\ EndOf(Of(t)) > view_end /\ Crash(t)
       \/ /\ Mapped(Of(t)) /\ EndOf(Of(t)) <= view_end
          /\ frame' = [frame EXCEPT ![t].at = "copy", ![t].base = mapped_base_,
                                    ![t].fast = TRUE]
       \/ ~Mapped(Of(t)) /\ Goto(t, "read")
    /\ UNCHANGED <<cacheVars, queueVars, mappingVars, descriptorVars, bytes>>

Fresh(n) == n \notin Live /\ \A t \in Thread : n \notin frame[t].buffer

Source(p) == IF file_handle_ = ModelOf(p) THEN "own" ELSE "foreign"

\* Mutant of ResolveCopy: the entry is made and nothing is copied.
ResolveCopyNothing(t, n) ==
    /\ At(t, "copy")
    /\ Fresh(n)
    /\ bytes' = [bytes EXCEPT ![n] = "zeros"]
    /\ frame' = [frame EXCEPT ![t].at = "insert", ![t].buffer = {n}]
    /\ UNCHANGED <<cacheVars, queueVars, mappingVars, descriptorVars>>

\* make_unique and memcpy from the mapping.
ResolveCopy(t, n) ==
    /\ At(t, "copy")
    /\ Fresh(n)
    /\ IF frame[t].base = mapped_base_
       THEN /\ bytes' = [bytes EXCEPT ![n] = Source(Of(t))]
            /\ frame' = [frame EXCEPT ![t].at = "insert", ![t].buffer = {n}]
       ELSE Crash(t) /\ UNCHANGED bytes
    /\ UNCHANGED <<cacheVars, queueVars, mappingVars, descriptorVars>>

\* read_page_from_ssd: the lookup succeeds, as descriptors are never erased;
\* the mapping is tried once more; then ReadFile is issued.
ReadStart(t, n) ==
    /\ At(t, "read")
    /\ Fresh(n)
    /\ Unlocked
    /\ \/ /\ Mapped(Of(t))
          /\ IF EndOf(Of(t)) <= view_end
             THEN frame' = [frame EXCEPT ![t].at = "copy", ![t].base = mapped_base_]
             ELSE Crash(t)
          /\ UNCHANGED <<queueVars, bytes>>
       \/ /\ ~Mapped(Of(t)) /\ file_handle_ # NoModel
          /\ bytes' = [bytes EXCEPT ![n] = "zeros"]
          /\ frame' = [frame EXCEPT ![t].at = "reading", ![t].buffer = {n}]
          /\ UNCHANGED queueVars
       \/ /\ ~Mapped(Of(t)) /\ file_handle_ = NoModel
          /\ Return(t, {}, "refused")
          /\ UNCHANGED bytes
    /\ UNCHANGED <<cacheVars, mappingVars, page_descriptors_>>

ReadFails(t) ==
    /\ At(t, "reading")
    /\ Return(t, {}, "refused")
    /\ UNCHANGED <<cacheVars, mappingVars, descriptorVars, bytes>>

\* The read is taken for complete.  It delivers the whole page only if the file
\* has it.  GetOverlappedResult waits on the file handle, which another
\* thread's read signals as well, so it may return before the data arrived.
ReadSucceeds(t) ==
    /\ At(t, "reading")
    /\ file_handle_ # NoModel
    /\ \E n \in frame[t].buffer :
          \/ /\ EndOf(Of(t)) <= FileSize
             /\ bytes' = [bytes EXCEPT ![n] = Source(Of(t))]
          \/ /\ \/ EndOf(Of(t)) > FileSize
                \/ \E u \in Thread \ {t} : At(u, "reading")
             /\ UNCHANGED bytes
    /\ Goto(t, "insert")
    /\ UNCHANGED <<cacheVars, queueVars, mappingVars, descriptorVars>>

\* Mutant of ResolveInsert: the loader still owns the buffer.
ResolveInsertKeeps(t) ==
    /\ At(t, "insert")
    /\ \E n \in frame[t].buffer : Insert(Of(t), n, SizeOf(Of(t)))
    /\ Goto(t, IF frame[t].fast THEN "mark" ELSE "fetch")
    /\ UNCHANGED <<queueVars, mappingVars, descriptorVars, bytes>>

ResolveInsert(t) ==
    /\ At(t, "insert")
    /\ \E n \in frame[t].buffer : Insert(Of(t), n, SizeOf(Of(t)))
    /\ frame' = [frame EXCEPT ![t].at = IF frame[t].fast THEN "mark" ELSE "fetch",
                              ![t].buffer = {}]
    /\ UNCHANGED <<queueVars, mappingVars, descriptorVars, bytes>>

\* Mutant of ResolveMark: is_active is not set.
ResolveMarkNothing(t) ==
    /\ At(t, "mark")
    /\ Unlocked
    /\ Goto(t, "fetch")
    /\ UNCHANGED <<cacheVars, queueVars, mappingVars, page_descriptors_, bytes>>

\* The access metadata: is_active = true.
ResolveMark(t) ==
    /\ At(t, "mark")
    /\ Unlocked
    /\ page_descriptors_' = [page_descriptors_ EXCEPT ![Of(t)] = TRUE]
    /\ Goto(t, "fetch")
    /\ UNCHANGED <<cacheVars, queueVars, mappingVars, bytes>>

\* return cache_.get(page_id)
ResolveFetch(t) ==
    /\ At(t, "fetch")
    /\ Get(Of(t))
    /\ Return(t, Lookup(Of(t)), "lost")
    /\ UNCHANGED <<mappingVars, descriptorVars, bytes>>

\* The caller is done with the pointer, or with having got none.
Release(t) ==
    /\ frame[t].at \in {"using", "refused", "lost"}
    /\ frame' = [frame EXCEPT ![t] = Idle]
    /\ UNCHANGED <<cacheVars, queueVars, mappingVars, descriptorVars, bytes>>

ResolveStep(t) ==
    \/ ResolveGet(t) \/ ResolveFind(t) \/ ResolveMap(t)
    \/ ReadFails(t) \/ ReadSucceeds(t)
    \/ \E n \in Node : ResolveCopy(t, n) \/ ReadStart(t, n)
    \/ ResolveInsert(t) \/ ResolveMark(t) \/ ResolveFetch(t)

-----------------------------------------------------------------------------
(* prefetch_tensor, prefetch_layer, prefetch_next_layers, set_active_layer,
   evict_distant_layers *)

\* Bound: a call that pushes begins only while its requests have room.
Room == \A r \in Request : prefetch_queue_[r] + Cardinality(Caller) <= MaxQueued

BeginPrefetch(t, p, priority) ==
    /\ Begins(t, "prefetch")
    /\ Room
    /\ frame' = [frame EXCEPT ![t].at = "probe", ![t].page = {p},
                              ![t].priority = priority]
    /\ UNCHANGED <<cacheVars, queueVars, mappingVars, descriptorVars, bytes>>

\* Where t goes on after one page: prefetch_layer holds the lock and iterates.
AfterPage(t) ==
    IF descriptor_mutex_ = t
    THEN [frame[t] EXCEPT !.at = "layer", !.page = {}, !.priority = 0]
    ELSE Idle

\* if (cache_.contains(page_id)) return;
Probe(t) ==
    /\ t \in Caller
    /\ At(t, "probe")
    /\ frame' = [frame EXCEPT ![t] = IF CachedPage(Of(t)) THEN AfterPage(t)
                                     ELSE [@ EXCEPT !.at = "push"]]
    /\ UNCHANGED <<cacheVars, queueVars, mappingVars, descriptorVars, bytes>>

Enqueue(t) ==
    /\ At(t, "push")
    /\ Push([page_id |-> Of(t), priority |-> frame[t].priority])
    /\ frame' = [frame EXCEPT ![t] = AfterPage(t)]
    /\ UNCHANGED <<cacheVars, mappingVars, descriptorVars, bytes>>

\* uint32_t arithmetic.
Plus(a, b) == (a + b) % UInt
Minus(a, b) == (a - b) % UInt

\* The layers prefetch_next_layers(current, 2) asks for, in their order.
NextLayers(current) ==
    SelectSeq(<<Plus(current, 1), Plus(current, 2)>>, LAMBDA l : l < NLayers)

\* set_active_layer; evict_distant_layers follows from layer 3 on.
BeginSetActive(t, layer) ==
    /\ Begins(t, "set_active")
    /\ Room
    /\ frame' = [frame EXCEPT ![t].at = "plan", ![t].plan = NextLayers(layer),
                              ![t].trim = IF layer > 2 THEN {layer} ELSE {}]
    /\ UNCHANGED <<cacheVars, queueVars, mappingVars, descriptorVars, bytes>>

\* evict_distant_layers called on its own.
BeginEvict(t, layer) ==
    /\ Begins(t, "evict")
    /\ frame' = [frame EXCEPT ![t].at = "plan", ![t].trim = {layer}]
    /\ UNCHANGED <<cacheVars, queueVars, mappingVars, descriptorVars, bytes>>

\* prefetch_layer of the next planned layer.
BeginLayer(t) ==
    /\ At(t, "plan")
    /\ frame[t].plan # <<>>
    /\ Lock(t)
    /\ frame' = [frame EXCEPT
          ![t].at = "layer",
          ![t].plan = Tail(frame[t].plan),
          ![t].todo = {p \in DOMAIN page_descriptors_ :
                          LayerOf(p) = Head(frame[t].plan)}]
    /\ UNCHANGED <<cacheVars, queueVars, mappingVars, page_descriptors_, bytes>>

\* prefetch_layer asks with priority 10.
NextInLayer(t) ==
    /\ At(t, "layer")
    /\ \E p \in frame[t].todo :
          frame' = [frame EXCEPT ![t].at = "probe", ![t].page = {p},
                                 ![t].todo = @ \ {p}, ![t].priority = 10]
    /\ UNCHANGED <<cacheVars, queueVars, mappingVars, descriptorVars, bytes>>

\* Mutant of EndLayer: the lock stays taken.
EndLayerLocked(t) ==
    /\ At(t, "layer")
    /\ frame[t].todo = {}
    /\ Goto(t, "plan")
    /\ UNCHANGED <<cacheVars, queueVars, mappingVars, descriptorVars, bytes>>

EndLayer(t) ==
    /\ At(t, "layer")
    /\ frame[t].todo = {}
    /\ Unlock
    /\ Goto(t, "plan")
    /\ UNCHANGED <<cacheVars, queueVars, mappingVars, page_descriptors_, bytes>>

\* Mutant of Distant: every layer but the current one.
DistantNoRadius(p, current) == LayerOf(p) # current

\* evict_distant_layers(current, 2)
Distant(p, current) ==
    \/ LayerOf(p) < Minus(current, 2)
    \/ LayerOf(p) > Plus(Plus(current, 2), 2)

BeginTrim(t) ==
    /\ At(t, "plan")
    /\ frame[t].plan = <<>>
    /\ frame[t].trim # {}
    /\ Lock(t)
    /\ \E current \in frame[t].trim :
          frame' = [frame EXCEPT
             ![t].at = "trim",
             ![t].todo = {p \in DOMAIN page_descriptors_ : Distant(p, current)}]
    /\ UNCHANGED <<cacheVars, queueVars, mappingVars, page_descriptors_, bytes>>

Trim(t, p) ==
    /\ At(t, "trim")
    /\ p \in frame[t].todo
    /\ IF page_descriptors_[p]
       THEN Evict(p) /\ page_descriptors_' = [page_descriptors_ EXCEPT ![p] = FALSE]
       ELSE UNCHANGED <<cacheVars, page_descriptors_>>
    /\ frame' = [frame EXCEPT ![t].todo = @ \ {p}]
    /\ UNCHANGED <<queueVars, mappingVars, descriptor_mutex_, bytes>>

EndTrim(t) ==
    /\ At(t, "trim")
    /\ frame[t].todo = {}
    /\ Unlock
    /\ frame' = [frame EXCEPT ![t] = Idle]
    /\ UNCHANGED <<cacheVars, queueVars, mappingVars, page_descriptors_, bytes>>

EndSetActive(t) ==
    /\ At(t, "plan")
    /\ frame[t].plan = <<>>
    /\ frame[t].trim = {}
    /\ frame' = [frame EXCEPT ![t] = Idle]
    /\ UNCHANGED <<cacheVars, queueVars, mappingVars, descriptorVars, bytes>>

PlanStep(t) ==
    \/ Probe(t) \/ Enqueue(t)
    \/ BeginLayer(t) \/ NextInLayer(t) \/ EndLayer(t)
    \/ BeginTrim(t) \/ (\E p \in Page : Trim(t, p)) \/ EndTrim(t)
    \/ EndSetActive(t)

-----------------------------------------------------------------------------
(* prefetch_worker and ~SSDPagingManager *)

WorkerTakesPage ==
    \E r \in Request :
        /\ WorkerTakes(r)
        /\ frame' = [frame EXCEPT ![Worker].at = "probe",
                                  ![Worker].page = {r.page_id}]
        /\ UNCHANGED <<cacheVars, mappingVars, descriptorVars, bytes>>

\* "Skip if already cached (race condition safe)"; otherwise resolve_tensor.
WorkerProbe ==
    /\ At(Worker, "probe")
    /\ IF CachedPage(Of(Worker))
       THEN Return(Worker, {}, "idle")
       ELSE Goto(Worker, "get") /\ UNCHANGED queueVars
    /\ UNCHANGED <<cacheVars, mappingVars, descriptorVars, bytes>>

WorkerWaits ==
    /\ WorkerLoop \/ WorkerFindsNothing \/ WorkerSuspends \/ WorkerStops
    /\ UNCHANGED <<cacheVars, mappingVars, descriptorVars, bytes, frame>>

WorkerWakes ==
    /\ SpuriousWakeup
    /\ UNCHANGED <<cacheVars, mappingVars, descriptorVars, bytes, frame>>

\* The owner destroys the manager when every call has returned.
BeginDestroy ==
    /\ "destroy" \in Operations
    /\ \A t \in Caller : At(t, "idle")
    /\ ClearRunning
    /\ UNCHANGED <<cacheVars, mappingVars, descriptorVars, bytes, frame>>

DestroyStep ==
    /\ \/ NotifyAll /\ UNCHANGED mappingVars
       \/ Join /\ CloseMapping
    /\ UNCHANGED <<cacheVars, descriptorVars, bytes, frame>>

-----------------------------------------------------------------------------
Begin(t) ==
    \/ \E p \in Page : BeginResolve(t, p) \/ BeginPrefetch(t, p, 0) \/ RegisterTensor(t, p)
    \/ \E l \in 0..NLayers - 1 : BeginSetActive(t, l) \/ BeginEvict(t, l)
    \/ Close(t) \/ BeginOpen(t)

CallerStep(t) ==
    \/ ResolveStep(t)
    \/ PlanStep(t)
    \/ Release(t)
    \/ OpenFails(t)
    \/ \E m \in Model : OpenSucceeds(t, m)

WorkerThreadStep == WorkerWaits \/ WorkerTakesPage \/ WorkerProbe \/ ResolveStep(Worker)

\* A crash of one thread ends them all.
Next ==
    /\ \A t \in Thread : ~At(t, "crashed")
    /\ \/ \E t \in Caller : Begin(t) \/ CallerStep(t)
       \/ WorkerThreadStep
       \/ WorkerWakes
       \/ BeginDestroy
       \/ DestroyStep

Spec == Init /\ [][Next]_vars

-----------------------------------------------------------------------------
CallPlaces == {"idle", "open", "get", "find", "map", "copy", "read", "reading",
            "insert", "mark", "fetch", "using", "refused", "lost", "crashed",
            "probe", "push", "plan", "layer", "trim"}

TypeOK ==
    /\ CacheTypeOK
    /\ QueueTypeOK
    /\ DOMAIN page_descriptors_ \subseteq Page
    /\ \A p \in DOMAIN page_descriptors_ : page_descriptors_[p] \in BOOLEAN
    /\ descriptor_mutex_ \in Caller \cup {Nobody}
    /\ file_handle_ \in Model \cup {NoModel}
    /\ mapped_base_ \in 0..MaxOpens
    /\ mapped_size_ \in {0, FileSize}
    /\ view_end \in {0, ChunkSize, FileSize}
    /\ mappings \in 0..MaxOpens
    /\ bytes \in [Node -> {"none", "zeros", "own", "foreign"}]
    /\ \A t \in Thread :
          /\ frame[t].at \in CallPlaces
          /\ frame[t].page \in SUBSET Page
          /\ frame[t].buffer \in SUBSET Node
          /\ frame[t].base \in 0..MaxOpens
          /\ frame[t].fast \in BOOLEAN
          /\ frame[t].trim \in SUBSET (0..NLayers - 1)
          /\ frame[t].todo \in SUBSET Page
          /\ frame[t].held \in SUBSET Node
          /\ frame[t].priority \in Int

(* A buffer a thread is filling is its own: no other thread has it and the  *)
(* cache neither shows nor frees it before it is inserted, although two     *)
(* threads load one page at a time (paging_manager.cpp:275-277, 295-298).   *)
BuffersPrivate ==
    /\ \A t \in Thread : frame[t].buffer \cap Live = {}
    /\ \A t, u \in Thread : t # u => frame[t].buffer \cap frame[u].buffer = {}

(* "Maps logical tensor to file region" (paging_manager.h:127): what the    *)
(* cache shows for a page are all of that page's bytes, never a buffer that *)
(* is not yet filled and never another file's.                              *)
PageShowsItsBytes ==
    \A p \in DOMAIN cache_map_ : bytes[cache_map_[p]] = "own"

(* evict_distant_layers finds what it has to drop by is_active, which       *)
(* resolve_tensor sets after the insertion and outside its lock: a resident *)
(* page is marked, or its loader is just about to mark it                   *)
(* (paging_manager.cpp:277-289, 358-361).                                   *)
ResidentIsActive ==
    \A p \in DOMAIN cache_map_ \cap DOMAIN page_descriptors_ :
        \/ page_descriptors_[p]
        \/ \E t \in Thread : At(t, "mark") /\ Of(t) = p

(* set_active_layer asks for the next two layers and then drops distant     *)
(* ones (paging_manager.cpp:341-351): the eviction never takes a page of    *)
(* the active layer or of the two it asks for.                              *)
DropsWindow(t) ==
    \E p \in Page, current \in frame[t].trim :
        /\ LayerOf(p) \in {current, current + 1, current + 2}
        /\ At(t, "trim") /\ p \in frame[t].todo
        /\ page_descriptors_[p] /\ ~page_descriptors_'[p]

KeepsWindow == [][\A t \in Caller : ~DropsWindow(t)]_vars

=============================================================================
