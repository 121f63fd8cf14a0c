# SuperLlama: a TLA+ model of the runtime

SuperLlama serves large language models whose weights do not fit into memory:
weights stay on the SSD and are paged in, ahead of their use, by a prefetch
thread, while an HTTP server lets clients generate text. This directory models
the parts of `src/llm-runtime` in which threads, callbacks, caches and queues
meet and the decoder's way through its buffers, checks them with TLC on small
instances, and proves with TLAPS, for all instances, every invariant those runs
check, their action properties, and that the page cache implements its abstract
specification. Only liveness is left to TLC alone.

## 1. Inventory

| component | state it keeps | operations | who else touches it |
|---|---|---|---|
| `PageCache` (paging_manager.h:41) | `lru_list_`, `cache_map_`, `current_cache_bytes_` under `mutex_` | get, insert, contains, evict, evict_to_fit | every resolve of every thread |
| prefetch queue and worker (paging_manager.cpp:93-113, 307-319, 398-435) | `prefetch_queue_`, `prefetch_mutex_`, `prefetch_cv_`, `prefetch_running_` | push, take, wait, stop | callers, the worker thread, the destructor |
| `SSDPagingManager` | descriptors with `is_active` under `descriptor_mutex_`; file handle and mapping under no lock | open_model, close, register_tensor, resolve_tensor, prefetch_*, set_active_layer, evict_distant_layers | ModelLoader, InferenceEngine, the worker |
| `AsyncSSDStreamer` | `pending_count_`, `running_`, the completion port | open, close, submit_read, submit_batch, flush | submitters, the completion worker, callbacks |
| `InferenceEngine` | `generating_`, `cancel_requested_`, buffers and KV cache without a lock | initialize, generate, cancel, is_generating | one thread per HTTP connection |
| token sampling (inference.cpp:120-200) | the probability vector | softmax, top-k, top-p, draw | generate |
| `HTTPServer` | `running_`, `server_socket_`, `server_thread_` | start, stop, the accept loop, client threads, routes, the pull's polling | main, the signal handler, clients, the downloader |
| `main` | `g_running`, `g_server` | start-up, wait, shut down | the signal handler's thread |
| `KVCacheManager` | slots, `current_length_` | store, retrieve, clear, truncate | generate, the attention |
| `ModelLoader`, `GGUFReader` | `config_`, `loaded_`, `tensor_pages_`, `layer_tensors_`; the mapped file | load, unload, the two walks over a file, classify, register, prefetch_embeddings, prefetch_all_norms | main; calls the paging manager |
| tensors, attention, MLP, transformer block | a layer's buffers and weights, its slot of the KV cache | forward: norms, projections, rotation, attention, residuals | initialize, warmup, generate |
| `api_routes`, json, logging, UI, tests | none of their own | a second, unused copy of the handlers; output | - |

Calls go from the server through the engine to the paging manager; callbacks go
the other way (a generated token is streamed by a lambda that captures the
client's socket). The hard behaviours are: the prefetch worker against callers
(check, load and insert in separate critical sections), the condition variable
against push and destructor, list nodes the map forgets, the completion worker
against submitters and close, two HTTP threads inside one engine, cancellation
and exceptions in the middle of a generation, a shutdown that starts in two
threads at once and perhaps before the start has ended, a download whose
callback and whose poller answer one client, whose entry other clients share and
whose callback outlives the connection, products that wrap, and loops by whole
registers over buffers of any width. `PROJECT.json` lists each hazard at its line.

What makes each component correct: the cache never shows a freed or foreign
buffer and stays within its bytes; no prefetch request sleeps; a page shows all
of its bytes; the loader's tables name pages of the open model and of no other;
every read is counted once and answered; every generated token is
told, and the engine is free again afterwards; a kernel stays in its buffers and
reads nothing an earlier token left there; filters keep what their names say; a
closed connection got a whole and true answer, and a signal ends the program.

Two parts are modelled although nothing in `src` calls them, because they are
classes with threads and flags of their own: `AsyncSSDStreamer`, which no other
class uses, and `InferenceEngine::cancel`.

## 2. Modules

    LRUCache <--refines-- MCPageCache --> PageCache
                     SSDPagingManager --> PageCache, PrefetchQueue <-- MCPrefetchQueue
                       ^        ^
       MCSSDPagingManager   ModelLoader --> GGUFReader
                                ^
                          MCModelLoader
    MCDecoder --> Decoder --> TransformerBlock --> Tensor
                  Decoder --> Sampler
    MCHTTPServer --> HTTPServer

    PageCacheProofs --> PageCache, FiniteSums
    LRUCacheProofs --> MCPageCache, PageCacheProofs
    PagingProofs --> ModelLoader, PageCacheProofs
    DecoderProofs --> Decoder, FiniteSums
    SSDStreamerProofs --> SSDStreamer     InferenceEngineProofs --> InferenceEngine
    HTTPServerProofs --> HTTPServer

- **PageCache**: one action per public operation, each one critical section of
  `mutex_`. A `Node` is an allocation, i.e. a list node with the buffer it owns;
  an iterator is the `Node` it points to, and a `Node` outside the list is free
  memory a later allocation may reuse. `insert` does not look for an older node
  of the page (paging_manager.cpp:36-40), so reloads leave nodes the map has
  forgotten; `evict_to_fit` reads the page id from a node it has just freed
  (lines 62-64): with `Clobber` what it reads there may be something else.
- **LRUCache**: what such a cache promises, as sets and an order, without list,
  map or memory. The promise ends with the first store of a resident page.
- **PrefetchQueue**: the queue as a bag of requests with priorities. The worker
  keeps `prefetch_mutex_` from the test of `wait`'s predicate until it is
  suspended; that window is the place `"suspending"`, in which no caller can
  push, but the destructor, which takes no mutex, can store and notify.
- **SSDPagingManager** composes both. A step ends where another thread can come
  in: at every lock, every access to the mapping, every read. Each thread has a
  frame with its place and its locals. `descriptor_mutex_` is held over
  several steps by prefetch_layer and evict_distant_layers. Layer numbers are
  `uint32_t` (`UInt` is the modulus). A read outside the view, or through one
  that is gone, ends the process (`"crashed"`).
- **GGUFReader**: the two walks over a file's metadata, each with the cases of its
  own switch (`HeaderBytes`, `SkipBytes`) beside what a value really takes
  (`ValueBytes`), whether the text kept of a value is a number to `std::stoul`
  and `std::stof`, and the canonical name of a tensor as the first of the looked-for
  parts that occurs in its name; which part occurs in which name is the constant
  `Occurs`. A walk that has advanced wrongly reads lengths from
  unrelated bytes; what follows is not predicted, the model ends the process, as
  it does for a number that does not parse (`ConfigThrows`).
- **ModelLoader** composes SSDPagingManager and GGUFReader: the loader is the one
  caller of the manager, and the prefetch thread serves what the loader has asked
  for while it loads, unloads and loads again. A page is the k-th load's i-th
  tensor, as `next_page_id` never repeats. A load can fail in the reader and in
  `open_model`. A tensor is put into `layer_tensors_` under the first field whose
  name occurs in its own (`Fields`), and into `tensor_pages_` under its whole name.
  MCModelLoader adds a history of what is still awaited.
- **SSDStreamer**: each read goes through submission, disk, port, worker and
  callback; one owner opens, closes, reopens and flushes.
- **InferenceEngine**: clients call `generate` on one engine; a step ends at
  every access to the two flags, at every callback and at every forward pass.
- **Tensor**: how many bytes a tensor has, and for each kernel the elements of its
  operands it reads and writes, with the loop over whole registers (`Lanes`
  floats; 8 in the code) and the loop over the rest, where the code has one. Bytes
  are counted in a `size_t`, modulo `UInt * UInt` (`UInt` is 2^32 in the code).
- **TransformerBlock**: a layer's `forward`, with the attention and the MLP, as the
  sequence of kernels it runs on its buffers, and the sizes their constructors
  give those buffers from the configuration. A product of head counts and
  dimensions is a `uint32_t` and wraps (`Word`).
- **Decoder** runs them: `read_config` of a model file, `initialize`, `warmup`, then
  token after token the embedding, the layers one kernel per step,
  `compute_logits` and `sample_token`. Of an element it keeps when in this pass it
  was last written. A division by zero heads, a remainder by an empty vocabulary,
  its softmax, or a read of the data of an
  empty buffer, ends the process; an access outside a buffer that is not empty is
  only what `AccessesInside` speaks of. MCDecoder has the model files.
- **Sampler**: top-k, top-p and the cumulative draw on exact probabilities; its
  steps are the last of Decoder's.
- **HTTPServer**: main's start of the server, the accept loop, a thread per
  connection, main's loop and the signal handler, both of which call `stop`. An
  open connection has a SOCKET value no other open one has; after its close the
  value may be given to the next. A pull is served by two: the connection's thread,
  which polls `get_progress`, and the downloader, whose callback streams to its
  copy of the SOCKET value, whoever has it by then. The
  downloader is not in `src`; it begins a download or refuses it, and then
  reports and shows its end in either order, or never. It keeps one entry per
  `safe_name`: `get_progress` shows the last download of that name, whichever
  connection has started it, and a name can be begun again once its end is shown.
  `Throws` is an exception that leaves the detached thread and ends the
  process (`terminated`), as does a join of what has been joined, or `stop`
  through a pointer that has become null. MCHTTPServer has the requests.

Names of variables and operations are the source's; `map` in `PROJECT.json`
gives the lines of every definition. Operators marked *Mutant of X* in a comment
are not part of a specification: each is a plausible bug of the code that X
models, kept beside X to show which property notices it.

## 3. Runs

| run | asks | bounds | states |
|---|---|---|---|
| cache_serve | do list, map and bytes agree whatever callers do, and is it an LRU cache until a page is reloaded? | 3 pages, sizes 1, 2 and 6 for 5 bytes, 6 nodes | 624 |
| cache_freed | is an iterator ever left to freed memory, if the freed node is overwritten? (violated) | 3 pages, 4 nodes | - |
| queue_serve | can a request be left asleep, or half served? | 3 requests, 2 priorities, 5 pushes | 1,260 |
| queue_destroy | does the destructor return? (violated) | as above | - |
| paging_threads | two callers and the worker on a mapped file | 2 pages, a cache for 1, 5 layers | 419,780 |
| paging_any | every operation in every order | 2 pages, one of them registered on the way, 1 model file, 1 caller, a cache for 1, 1 opening | 1,331,831 |
| model_load | loads, reloads, failing loads and unloads with the prefetch thread at work: do the tables stay right, does what is needed arrive, does every call return? | 2 models of 3 tensors each, 2 calls, 7 kinds of metadata, a cache for 1 | 93,378 |
| streamer_core | count, close, flush and answers | 3 reads, 2 openings | 26,384 |
| engine_generate | results, cancellation, exceptions, termination | 2 clients, 2 prompt and 2 generated tokens | 8,977 |
| engine_admit | does only one call generate at a time? (violated) | as above | - |
| decoder_token | does every kernel read whole, fresh operands inside its buffers, and do the filters and the draw do what their definitions say? | 13 model files, 2 layers, registers of 2, words of 5 bits; every distribution over 4 tokens in sixths, every top_k, top_p and random number | 178,211 |
| server_serve | start and shutdown from two threads against a connection and its download; is what clients hear of downloads true, and where can a late callback's message go? | 2 connections, 2 SOCKET values, 2 models, 1 chunk, 2 polls, every route, with and without the stream header | 621,875 |

Why the bounds suffice. *Cache*: 3 pages of which one is larger than the cache
give hits, misses, evictions of none, one and several entries, the page that
never fits, and a reload with its orphan both ahead of and behind other pages;
6 nodes are one more than the limit can hold, so that `insert` always finds one
(symmetry of pages and nodes is sound: neither is named by the specification).
*Paging*: with a cache for one page every insertion evicts, which is the case in
which the critical sections matter; the pages lie in layers 0 and 4 of 5, so
that the eviction radius has an inside and an outside; in paging_any one of the
two pages is registered beforehand and the other by an operation of its own, before
or after somebody resolves it, and the first lies behind the first chunk of its file. *Loading*: two calls
are a load after a loaded, a failed or an unloaded model, or the use of one; the files
have two tensors of one name in a layer and a third of the same field, two global
ones of one name, a layer behind the last and a norm without a name; the metadata
are one value of each type with a case, an array the first walk reads right and one
it does not, types without a case, last or not, and a text and a bool under a key
that is asked for a number. *Streamer*: 3 reads let
one be at the port, one with the worker and one at the disk while the file is
closed and opened again. *Engine*: 2 clients suffice for the race of admission;
2 tokens distinguish the first, the last and the end by count. *Decoder*: a layer
meets only the layer before it, so 2 layers suffice, and a token only what the
one before it left, which `written` marks as not of this pass; the files have one
head of keys and values per head, one for all, one for two and for three heads
unevenly, more of them than heads, features no head owns, features behind the
last register, odd heads, and no heads, context, layers or vocabulary at all; the order in
which elements of a register are handled is not visible, so 2 floats stand
for 8; with `UInt` 32, 17 heads of keys and values of 2 features wrap in
`kv_size` and 16 of them wrap in `h * n_kv_head`, while the other shapes do not wrap. *Server*:
what two connections share is the listening socket, which they do not write, the
downloader's entries and SOCKET values. So one connection is enough for starting,
serving and stopping, and it is alone with every order of a stop. The second comes
to a server that serves, once the first has a download to begin
(`SecondMeetsPull`): it polls the first one's download, begins it before the first
does, is refused while it runs, begins it again after it has ended, or gets the
first one's SOCKET value while the first one's callback still sends. A stop while
both are there is not explored, nor an accept loop that goes on after the second;
so `SignalEndsProgram` and `ReceivedIsClosed` are about executions with one
connection. What
would need two connections and a stop, or a third connection, is left to the
proofs, which are for any number. 2 polls are one
before the end of a download and one after it; `MaxPolls` is 2400 in the code.
Bounds that the code does not have (`MaxQueued`, `MaxOpens`, `MaxCalls`,
`MaxChunks`, `Operations`) are constants and named as bounds where they are
declared.

Deadlock is not checked where the system may stop: in queue_* and paging_any
after the manager is destroyed, in paging_any and model_load also after an
access violation, in model_load when all calls are made,
in streamer_core when all reads are used up, in decoder_token after a crash,
in server_serve when the program has ended.

Fairness. Each thread that can run does run (WF of its step): the operating
system schedules it, callbacks return and a disk answers (`Complete`). The
push of a prefetch needs SF: spurious wakeups may take `prefetch_mutex_` again
and again, and a mutex that is free again and again is obtained in the end.
Nobody is obliged to call, to connect, to signal or to cancel, and a download
may take for ever: what ends a pull is the limit on its polls. Nor has a client to
send anything: `recv` (server.cpp:195) has no time limit, so `Receive` is not fair,
and the thread and the socket of a silent client are kept for ever;
`ReceivedIsClosed` speaks of the connections whose request has come.

## 4. Proofs

- **FiniteSums**: what adding or taking an element, a union, a larger function or
  a bijection does to `SumFunctionOnSet`, with which the cache counts bytes and the
  sampler probability. These are inductions over data, whose rules the provers
  cannot instantiate; each lemma takes instead a minimal element of the set of its
  counterexamples, which the library's well-foundedness of strict inclusion
  provides, and refutes it.
- **PageCacheProofs**: `CacheTypeCorrect`, `CacheMapSound`, `CacheOrphansBehind`,
  `CacheAlwaysBounded`,
  for every set of pages, nodes and sizes and every limit. `MapSound` (an
  iterator of the map points to a live node that holds its page) is not
  inductive: when an orphan is evicted from the back, the map entry of its page
  is erased, and this is harmless only if the entry's own node does not stay
  mapped elsewhere; when the mapped node itself is evicted, every node of
  the page behind it must have gone before. Both follow from `OrphansBehind`, so
  the inductive invariant is `CacheInv`, the conjunction of the type, `MapSound`
  and `OrphansBehind`; one lemma per operation shows that it is preserved.
  `CacheBounded` is carried beside it, as a sum over nodes instead of places:
  no node is twice in the list, so what moves in the list does not
  change the sum. The
  theorems assume `~Clobber`, i.e. that the freed node is read before it is
  overwritten; the run cache_freed shows that the assumption is needed.
- **LRUCacheProofs**: `ImplementsLRUCache`, that MCPageCache implements LRUCache under
  the mapping of `Promise`, as long as no resident page is stored again. What the
  invariant of the cache lacks for this is `NoOrphans`: every node of the list is
  the one its page is mapped to. From it, the place of a page in the list is how
  many were used after it, so that what `evict_to_fit` drops from the back are
  the least recently used, and no more of them than needed. Each of get,
  evict and insert is then shown to be a step of LRUCache, or to leave it unchanged.
- **PagingProofs**, the queue: `QueueTypeCorrect`, `QueueNoRequestSleeps`,
  `QueueNothingHalfServed`, for every set of requests, every priority and bound.
  The invariant is their conjunction; the step that matters is that no push
  falls into `"suspending"`, which the mutex excludes.
- **PagingProofs**, the manager: `PagingTypeCorrect`, `PagingBuffersPrivate`,
  `PagingMapSound`, `PagingNoRequestSleeps`, for any number of callers and any set
  of operations. `PagingInv` conjoins the invariants of the two parts, which their
  own lemmas carry over the steps that touch them, with one of the members
  (`MembersInv`) and one of the threads (`FramesInv`): every call is at a
  place it can be at, is about one page where its operation needs one
  (`OnePage`), and `BuffersPrivate`. That the last survives rests on which
  nodes an operation of the cache can bring into the list: `GetLive` and
  `EvictLive` say none, `InsertLive` only the one inserted, whose thread lets go
  of it in the same step. As for the cache alone, `~Clobber` is assumed.
- **PagingProofs**, while one model is open: `PagingShowsItsBytes`,
  `PagingResidentIsActive` and `PagingKeepsWindow`. The first two hold for a manager
  whose file is mapped as far as its pages go and that nobody opens, closes or
  destroys (`StaysOpen`, which is how paging_threads starts it; section 5 has the
  operations that break them). `ServesInv` follows a page through a load: the
  mapping stands still, so every load takes the fast path, a buffer that is
  inserted has been filled, and from the insertion until the page is marked the
  inserting thread is on its way to mark it. `AtRest` says that the
  worker's frame is idle unless it serves, so that taking a request finds
  no older page in it. `PagingKeepsWindow`, an action property, assumes no direct
  call of `evict_distant_layers` and `NLayers + 3 < UInt`: only
  `set_active_layer` then evicts, and only from layer 3 on, so neither the
  difference nor the sum that bound the window wraps (`DistantIsFar`).
  `WindowFrame` says that what an eviction has collected is distant from its layer.
- **PagingProofs**, the loader: `LoaderKeepsManager`, `LoaderRegistriesAgree`,
  `LoaderPagesOfOpenModel` and `LoaderFailureLeavesNothing`, for all models, all names,
  any relation `Occurs` and any number of calls. `LoaderInv` adds
  to `PagingInv`, which thus holds for the manager as the loader uses it, one
  conjunct per phase of a load (`Phases`): what is in the tables before
  `open_model` has returned, which tensors are still to be classified, what is left
  when a load has failed. That the registries agree rests on
  `FieldsNamed`: a page is in the field its whole name stands for, so a later tensor
  of that name takes over the field with the name.
- **SSDStreamerProofs**: `StreamerCountIsExact`, `StreamerQuietWhenClosed`,
  `StreamerFlushLeavesOne`, for every finite set of reads and any number of
  openings. The count is proved from the library's facts on adding and removing
  one element; it is what lets the two others conclude, from the count 0 that
  ends `flush`, that no read is outstanding. `IInv` adds that the worker has
  at most one packet or callback and that its place says which (`OneAtATime`),
  that there is no worker while the file is closed (`NoWorker`), and that
  the reads flush waits for have been submitted (`FlushWaits`).
- **InferenceEngineProofs**: `EngineTypeCorrect`, `EngineEveryResultTold`,
  `EngineBusyHasOwner`, `EngineCancelEnds`, for any clients, prompts and limits,
  with callbacks that throw or not. `EveryResultTold` speaks of the end of a
  call; `CallInv` says, place by place, how the results, the steps, the
  positions and what has been told go together on the way there. No call reads
  another's numbers, so one lemma (`OneCall`) lifts a step of one call to all.
  The flags, which calls do share, have an invariant of their own (`FlagInv`).
- **DecoderProofs**, accesses: `DecoderAccessesInside`, for every register width
  and every shape a file can give whose products of heads fit a `uint32_t`
  (`HeadsFit`) and whose weights' bytes fit a `size_t` (`WeightsFit`); without the
  two TLC finds the access outside (section 5). `Unwrapped` turns them into plain
  products. State plays little part here (`IInv` types the
  configuration and bounds `step`); the proof is arithmetic: one lemma per kernel,
  then one per part of the block. What carries it are `RowMajor`,
  `KVHeadExists` (h * n_kv / n is below n_kv) and that heads times their dimension
  never exceeds the features (`DivisionBounds`), though it may fall short.
- **DecoderProofs**, the pass: `DecoderReadsAreWhole`. Where registers divide the
  hidden state, halves the heads and `HeadsFit`, a kernel writes all that is used of a buffer or
  nothing of it (`Fills`; `RotatedAll` and `HeadsCover` for those that go by heads).
  A sequence of kernels then has, for each of its places, the set of buffers that
  are whole there (`FlowsBy`), and sequences are put together when the second needs
  only what the first leaves (`FlowsConcat`), so that the two dozen kernels of a layer are
  seven parts with a lemma each. `WholeInv` says that what has been written in this
  pass is just the buffers of the place where it is, each with one time.
- **DecoderProofs**, the sampler: `SamplerTopKIsByRank`, `SamplerNucleusIsSmallest` and
  `SamplerDrawsKeptTokens`, for every vocabulary, distribution and setting. `SamplerInv`
  keeps what each filter has made of the distribution of the phase before. That the
  threshold of top_k is a rank (`ThresholdIsRank`), that the nucleus reaches top_p and
  that none smaller does (`NucleusReaches`, `NucleusIsMinimal`), and that a random
  number below the mass meets a kept token (`DrawnIsKept`) are facts about sums
  and least elements, independent of the order in which equals are sorted.
- **HTTPServerProofs**: `ServerStoppedIsQuiet`, `ServerPullTellsTheTruth`,
  `ServerStraysFollowAClose` and `ServerWholeAnswers`, for
  any connections, models and SOCKET values and any number of chunks and polls. The
  first rests on `StopInv`:
  main joins what it has started before it leaves, since
  `server_thread_` is assigned before main can reach `stop`, and
  whoever has joined has found the loop ended. The second rests on `ClientsInv`: what
  a connection has been told is true of the downloads of its model, whoever began them,
  and stays true, because a download that is over stays over; who
  polls finds an entry of its model. The third rests on `SocketsInv`: no two open
  connections have one value, and a closed one keeps on record which it had. The fourth
  rests on `AnswersInv`: place by place, which frame of its answer a connection
  has sent, whatever strays lie between, so that a message can go missing only after
  the last `WSACleanup`. That the
  messages of a frame stand in order is said with an order embedding (`Frames`).

They use only the assumptions the modules name, apart from the `~Clobber` and the
hypotheses of the three theorems about an open model, which the runs' instances
satisfy. So every invariant and action property of the passing runs is proved, but
for `WalksAgree`, which compares two tables and needs no argument beyond the run.
`MapSound` and `NoRequestSleeps` of the composed manager are proved without a run of
their own: cache_serve and queue_serve check them for the parts.
Only model-checked are the liveness properties (`EveryRequestServed`,
`NeededArrive`, `LoadReturns`, `AnsweredWhileOpen`, `CallsReturn`, `SignalEndsProgram`,
`ReceivedIsClosed`): fairness and ENABLED are out of the prover's reach.

The proofs changed the models in three places. `Receive` of HTTPServer had a CASE whose
guards overlapped, which TLA+ leaves to a CHOOSE; it is now a disjunction of
exclusive guards, in the order of the code's tests. `LoaderAssumption` had asked for more than
the loader needs; that no page is registered before the first load is now part of
`LoaderInit`. That the modulus `UInt` is positive is now said in `PagingAssumption`.

## 5. What does not hold

Three claims are runs of their own: cache_freed, queue_destroy and engine_admit
(see `findings`). While the modules were written, TLC refuted the
following claims as well. Each can be repeated with the formula given, as an
invariant unless it says otherwise.

| the source says | what happens | formula, and where to check it |
|---|---|---|
| "ensuring it's resident in memory" (paging_manager.h:135) | resolve_tensor inserts and looks up in two critical sections and returns nullptr for the page it loaded (paging_manager.cpp:291) | `\A t \in Caller : ~At(t, "lost")`, paging_threads with "prefetch" |
| "Returns pointer to data" (paging_manager.h:136) | nothing pins the entry: the worker's next insert frees it while the caller reads | `At(t, "using") => \A n \in frame[t].held : n \in Live`, same |
| "race condition safe" (paging_manager.cpp:419) | worker and caller load one page twice | `entry[m].page_id = entry[n].page_id => m = n` for `m, n \in Live`, cache for 2 |
| "partial mapping - we'll map chunks on demand" (paging_manager.cpp:155) | nobody does; the fast path reads past the view | `~At(t, "crashed")`, paging_any without "close" |
| `pm.close()` after a sleep (tests/test_paging.cpp:109-115) | close unmaps what the worker copies from | the same formula, Operations {"prefetch", "close"} on an open file |
| "maps logical tensor to file region" (paging_manager.h:127) | requests of the first model survive open_model of the second | `PageShowsItsBytes`, Operations {"prefetch", "open"}, MaxOpens 2 |
| "Wait for completion" (paging_manager.cpp:468) | two reads wait on one file handle; a buffer is shown unfilled | `PageShowsItsBytes`, started with a file that is not mapped |
| is_active: "Currently needed for inference" (paging_manager.h:34) | a page loaded by an explicit read is never marked | `ResidentIsActive`, same |
| "Evict layers that won't be needed soon" (paging_manager.h:153) | `current_layer - keep_radius` wraps for layers 0 and 1 | `KeepsWindow` with "evict" |
| "Embeddings are always needed" (model_loader.cpp:527) | layer_idx 0xFFFFFFFF counts as distant | no step unmarks a page of `Global`, action property with "set_active" |
| "attn_q -> layer=0, attention, tensor=q_weight" (model_loader.h:86-88) | `output_norm` contains "output" and becomes `lm_head`: the later of the two tensors is what `get_tensor_page("lm_head")` returns; `attn_q_norm` becomes `q_weight` | two `KeyOf` of one file are equal, model_load |
| "All norm weights are tiny, load them all" (model_loader.cpp:537) | a norm that has got another name is not asked for | `NeededPages` with the tensors in whose `rest` "_norm" occurs |
| "Also store in layer structure" (model_loader.cpp:496) | the field is found by a part of the name: `cross_q_weight` becomes a layer's `attn_q`, a page that `tensor_pages_` does not have under `q_weight` | `RegistriesAgree` with `<<l, f>>` for `key`, model_load |
| "Calculate offset where tensor infos begin (after metadata)" (model_loader.cpp:259) | enumerate_tensors takes an ARRAY for four bytes (model_loader.cpp:278): in a file with one, such as that of a tokenizer, the tensor infos are read from a wrong offset | `WalksAgree` without its condition on ARRAY, model_load |
| "Extract from metadata" (model_loader.cpp:190) | a string or a bool under a key that should be a number throws out of load, after the old model was unloaded | `~At(Loader, "crashed")`, model_load with such metadata alone |
| "Unload current model" (model_loader.h:113) | unload, and with it the loader's destructor, unmaps what the worker copies from | `~At(Worker, "crashed")`, model_load |
| "Wait for all pending I/O to complete" (ssd_streamer.h:53) | flush returns while the last callback runs | `owner = "flushed" => \A r \in owed : io[r] = "answered"` |
| "completion is delivered via callback" (ssd_streamer.h:47) | reads outstanding at close are never answered | `io[r] = "counted" ~> io[r] = "answered"` |
| "Cancel ongoing generation" (inference.h:42) | a cancel between the claim and the reset is lost | `CancelEnds` with the calls at "claimed" counted |
| "Get current token position" (inference.cpp:88) | nobody advances the length: all tokens go to place 0 | two of `call[t].places` are equal |
| "calls callback for each token" (inference.h:36) | the last result is told twice | two of `call[t].told` are equal |
| is_generating (inference.h:45) | a callback that throws leaves the engine busy for ever | `BusyHasOwner` without `abandoned` |
| "Zero out tokens beyond cutoff" (inference.cpp:168) | if no prefix reaches top_p, everything is zeroed; the number 0 draws a zeroed token 0 | `phase = "draw" => Kept # {}`; `phase = "drawn" /\ Kept # {} => token \in Kept` |
| "Check if server is running" (server.h:43) | after a failed bind `running_` stays true | `running_ => loop # "ended"` |
| `if (server_thread_.joinable())` (server.cpp:120) | main and handler join at once | both stoppers at "joining" |
| "shutdown complete" (main.cpp:238) | client threads still use engine and registry | `~alive => client[c].at \notin {"recv", "routing", "answer"}`, server_serve |
| "send headers BEFORE any data" (server.cpp:288) | tags with the stream header get a second head | a head behind the first message of `client[c].sent` |
| "Send SSE done event" (server.cpp:332) | the downloader's callback streams behind [DONE] | `Hears(c, "[DONE]") => client[c].sent[Len(client[c].sent)] = "[DONE]"`, server_serve |
| "keep the connection alive and stream final result" (server.cpp:593) | the connection may be closed before the callback's last report, which then goes to whoever has been given the SOCKET value | `client[c].at = "closed" /\ download[c].outcome # "none" => download[c].reported`; `~Hears(c, "stray")`, server_serve |
| "Unknown route" (server.cpp:380) | a path that is not UTF-8 throws when the answer is dumped, nobody catches, and the process ends | `~terminated`, server_serve |
| `if (g_server)` (main.cpp:27) | the pointer is read again for the call and may be null by then | `stopper["handler"] = "found" => g_server`, server_serve |
| "Download still in progress (large file)" (server.cpp:625) | the client has already been told of success by the callback | `client[c].verdict = "downloading" => ~Hears(c, "success")`, server_serve |
| `g_server = nullptr` (main.cpp:235) | the handler may still be inside `stop` of the server main destroys | `~alive => stopper["handler"] \in {"idle", "stopped"}`, same |
| "Quantized inference: Q4_0, Q4_K, Q5_K, Q8_0, F16, F32" (llm-runtime/README.md:62) | a weight of F16, Q8_0 or Q4_0 is read as floats, past its end | `AccessesInside` without the four bytes, decoder_token |
| "Residual connection" (transformer_block.cpp:62) | with n_embd no multiple of 8 the features behind the last register get neither scale nor residual; the next kernel reads what an earlier step left | `ReadsAreWhole` without `n_embd % Lanes = 0`, same |
| `if (!inference.initialize(model_loader))` (main.cpp:174) | initialize fails for no file: with no heads it divides by zero, with no context the attention reads through a null pointer (attention.cpp:97; its writes are guarded), with no vocabulary the tokenizer divides by zero and softmax reads the first of no logits | `at # "crashed"`, same |
| "If n_kv_head < n_head (GQA), expand kv heads" (attention.cpp:85) | `n_kv_head_ * head_dim_` and `h * n_kv_head_` are `uint32_t`: when they wrap, the attention reads past the slot | `AccessesInside` without `HeadsFit`, same |

Some of what the source says needs no run to be seen not to hold. `paging_mgr_`
of the engine is never assigned, so "Notify paging system which layer is active"
(inference.cpp:80) and the prefetches of `warmup` never happen; nobody calls
`load_weights` or `set_*_weights`, so all weights stay zero. main ignores
that `load` failed (main.cpp:173) and goes on with the default configuration.
`generate` without a model dereferences the null `kv_cache_` (inference.cpp:264).
A generate request that meets a busy engine is answered with an empty response
and `done: true` (server.cpp:411-424), and as the last result is told twice, its
text is in the response twice. `--cache` is only logged.

## 6. What is left out

- Values: what temperature and softmax compute (the Sampler starts from any
  distribution), the rounding of floats, what the kernels make of their operands
  (only which elements they touch is modelled), the texts, JSON and tokens
  themselves, the data types and sizes of a file's tensors. No control depends
  on them, except for the token drawn, which is any. So it is not told what a
  read outside a buffer that is not empty brings, nor whose embedding is taken when
  `token_id * n_embd` wraps (inference.cpp:278). The vocabulary is one constant, or
  empty; a width of 2^32 - 8 features or more, with which `i + 8` wraps in
  transformer_block.cpp:45, 63 and 79 and the loops do not end, is excluded by
  `DecoderAssumption`.
- Names of tensors that confuse the two kinds of key: a global tensor called
  `layer0.q_weight`, or a layer whose number is 2^32 - 1, or none a `uint32_t` can
  hold, for which `std::stoul` throws (model_loader.cpp:369).
- What lies between several stores of one step. `OpenSucceeds` of SSDPagingManager
  takes the stores of the file handle, the mapping and its length
  (paging_manager.cpp:118-178) as one step, so a worker that runs between two of them is
  not seen; `Open` of SSDStreamer does the same with the handle, its association
  with the port and `running_`, and `CreateIoCompletionPort`, whose failure the
  code does not look at (ssd_streamer.cpp:54), succeeds.
- Statistics: no decision depends on them.
- Code without a caller in `src`: `map_page_direct`, `complete_prefetch`,
  `get_tensor_page`, `get_layer_tensors`, HTTPServer's `wait`, the handlers of
  `api_routes`, KVCacheManager's `store`,
  `truncate` and `retrieve`, KVCachePager, FlashAttention, `load_weights`, Tensor's
  `clone`, `evict` and element access, `read_tensor_data`, `map_tensor_region`, the
  storage backends. Its callers, and with them the states it would meet, are not
  known. Of the rest, what is modelled also has few of them: nobody uses
  AsyncSSDStreamer, nobody calls `InferenceEngine::cancel`, and `load` is called
  once (main.cpp:173), while model_load calls it again, as the class allows.
- ModelRegistry and ModelDownloader are not in the repository; of the latter
  the model has what server.cpp relies on.
- That `stop` and the loop may both close the listening socket, the second time a
  handle the system has meanwhile given to somebody else: a closed listening socket
  is closed. The handles of connections are given away again. A second signal.
- The failures of `select` and `accept`, which lead back to the head of the loop
  as an idle second does, and of `send`, whose result the code does not look at.
- The command line, the banner, the page of the UI.

## 7. Plan

What is here covers every component with control of its own that something
calls. What could still be added:

1. HTTPServer composed with InferenceEngine: client threads as its clients, so
   that a shutdown in the middle of a generation is a behaviour of the model.
2. That nothing crashes while one model stays open (`StaysOpen`), and that the
   loader crashes only for metadata its second walk cannot follow.
3. What the last step of a liveness argument rests on: that a step of the worker,
   the loader or the accept loop is possible wherever fairness is used.
