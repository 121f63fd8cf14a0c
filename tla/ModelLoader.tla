---------------------------- MODULE ModelLoader ----------------------------
(***************************************************************************)
(* Loading and unloading models: class ModelLoader of                      *)
(* engine/model_loader.{h,cpp}, as the thread Loader that calls            *)
(* SSDPagingManager, whose prefetch thread runs all the while.  The tables *)
(* of the loader are its own; a step ends at every call into the manager   *)
(* and at every walk over the file.                                        *)
(*                                                                         *)
(* A walk that has lost its way reads lengths from unrelated bytes, and    *)
(* nobody catches what std::stoul throws: the model ends there, as at an   *)
(* access violation.                                                       *)
(***************************************************************************)
EXTENDS SSDPagingManager, GGUFReader, Functions

CONSTANTS
    Loader,          \* the thread that loads
    TensorsOf(_),    \* the tensor infos of a model file, in their order
    MetadataOf(_),   \* the metadata a model file may hold
    MaxCalls         \* bound: calls of load and of set_active_layer

\* A page is known by the load that registers it and its place in the file.
ASSUME LoaderAssumption ==
    /\ Loader \in Caller
    /\ MaxCalls \in Nat
    /\ \A m \in Model : \A k \in 1..MaxCalls, i \in DOMAIN TensorsOf(m) :
          [load |-> k, model |-> m, at |-> i] \in Page

VARIABLES
    config_,         \* whose configuration it is
    loaded_,
    tensor_pages_,   \* <<layer, name>> -> page
    layer_tensors_,  \* layer -> field -> page; a field without page holds 0
    loading,         \* place and local variables of the call
    loads, uses      \* how often load and set_active_layer were called

tables == <<tensor_pages_, layer_tensors_>>
loaderVars == <<config_, loaded_, tables, loading, loads, uses>>
allVars == <<vars, loaderVars>>

NotLoading ==
    [at |-> "idle", model |-> NoModel, metadata |-> <<>>, next |-> 0,
     asks |-> {}, failed |-> FALSE]

LoaderInit ==
    /\ Init
    /\ DOMAIN page_descriptors_ = {}
    /\ config_ = NoModel
    /\ loaded_ = FALSE
    /\ tensor_pages_ = <<>>
    /\ layer_tensors_ = <<>>
    /\ loading = NotLoading
    /\ loads = 0
    /\ uses = 0

-----------------------------------------------------------------------------
AtLoad(place) == loading.at = place /\ At(Loader, "idle")

TensorOf(p) == TensorsOf(p.model)[p.at]
Global == UInt - 1
KeyOf(t) == <<t.layer, IF t.layer = Global THEN GlobalName(t) ELSE LayerName(t)>>

\* Mutant of Unload: the names of the old model stay.
UnloadKeepsNames ==
    /\ CloseMapping
    /\ layer_tensors_' = <<>>
    /\ loaded_' = FALSE
    /\ UNCHANGED tensor_pages_

Unload ==
    /\ CloseMapping
    /\ tensor_pages_' = <<>>
    /\ layer_tensors_' = <<>>
    /\ loaded_' = FALSE

\* The destructor.
UnloadOnly ==
    /\ AtLoad("idle")
    /\ loads > 0
    /\ destroyer = "alive"
    /\ Unload
    /\ loading' = NotLoading
    /\ UNCHANGED <<cacheVars, queueVars, descriptorVars, bytes, frame,
                   config_, loads, uses>>

\* Mutant of Load: the new file is read before the old model is unloaded.
LoadBeforeUnload(m) ==
    /\ AtLoad("idle")
    /\ loads + uses < MaxCalls
    /\ destroyer = "alive"
    /\ loads' = loads + 1
    /\ loading' = [NotLoading EXCEPT !.at = "reader", !.model = m]
    /\ UNCHANGED <<vars, config_, loaded_, tables, uses>>

Load(m) ==
    /\ AtLoad("idle")
    /\ loads + uses < MaxCalls
    /\ destroyer = "alive"
    /\ Unload
    /\ loads' = loads + 1
    /\ loading' = [NotLoading EXCEPT !.at = "reader", !.model = m]
    /\ UNCHANGED <<cacheVars, queueVars, descriptorVars, bytes, frame,
                   config_, uses>>

\* return {};
LoadFails == loading' = [NotLoading EXCEPT !.failed = TRUE]

LoseTheWay == Crash(Loader) /\ UNCHANGED loading

\* GGUFReader's constructor: the file does not open, cannot be mapped or is
\* none, or parse_header walks over its metadata.
ReadHeader ==
    /\ AtLoad("reader")
    /\ \/ LoadFails /\ UNCHANGED frame
       \/ \E metadata \in MetadataOf(loading.model) :
             IF FindsKeys(HeaderWalk(metadata), metadata)
             THEN /\ loading' = [loading EXCEPT !.at = "config",
                                                !.metadata = metadata]
                  /\ UNCHANGED frame
             ELSE LoseTheWay
    /\ UNCHANGED <<cacheVars, queueVars, mappingVars, descriptorVars, bytes,
                   config_, loaded_, tables, loads, uses>>

\* Every file has NLayers layers; of the rest of its configuration only whose
\* it is matters here.
ReadConfig == config_' = loading.model

\* read_config finds a number under every key it asks for one.
ConfigParses ==
    \A i \in DOMAIN loading.metadata :
        loading.metadata[i].asked => Parses(loading.metadata[i])

\* An exception of std::stoul or std::stof.
ConfigThrows ==
    /\ AtLoad("config")
    /\ ~ConfigParses
    /\ LoseTheWay
    /\ UNCHANGED <<cacheVars, queueVars, mappingVars, descriptorVars, bytes,
                   config_, loaded_, tables, loads, uses>>

\* config_ = reader.read_config(); paging_mgr_.open_model(model_path)
OpenModel ==
    /\ AtLoad("config")
    /\ ConfigParses
    /\ BeginOpen(Loader)
    /\ ReadConfig
    /\ loading' = [loading EXCEPT !.at = "opening"]
    /\ UNCHANGED <<loaded_, tables, loads, uses>>

Opened ==
    /\ AtLoad("opening")
    /\ IF file_handle_ = NoModel
       THEN LoadFails
       ELSE loading' = [loading EXCEPT !.at = "enumerate"]
    /\ UNCHANGED <<vars, config_, loaded_, tables, loads, uses>>

\* layer_tensors_.resize(config_.n_layer)
Resized == [l \in 0..NLayers - 1 |-> <<>>]

\* enumerate_tensors
EnumerateTensors ==
    /\ AtLoad("enumerate")
    /\ IF WalkEnd(SkipWalk(loading.metadata)) = MetadataEnd(loading.metadata)
       THEN /\ loading' = [loading EXCEPT !.at = "register", !.next = 1,
                                          !.metadata = <<>>]
            /\ layer_tensors_' = Resized
            /\ UNCHANGED frame
       ELSE LoseTheWay /\ UNCHANGED layer_tensors_
    /\ UNCHANGED <<cacheVars, queueVars, mappingVars, descriptorVars, bytes,
                   config_, loaded_, tensor_pages_, loads, uses>>

Put(f, k, v) == [j \in DOMAIN f \cup {k} |-> IF j = k THEN v ELSE f[j]]

\* Mutant of Name: the first tensor of a name keeps it.
NameFirst(key, p) ==
    IF key \in DOMAIN tensor_pages_ THEN tensor_pages_ ELSE Put(tensor_pages_, key, p)

\* tensor_pages_[name] = page_id;
Name(key, p) == Put(tensor_pages_, key, p)

\* The field a name stands for: the first of them that occurs in it.
Fields(name) ==
    LET hits == {i \in DOMAIN LayerNames : Occurs(LayerNames[i], name)}
    IN  IF hits = {} THEN {} ELSE {LayerNames[Min(hits)]}

\* register_tensor_with_paging of the next tensor: a new page id for each.
RegisterNext ==
    /\ AtLoad("register")
    /\ loading.next \in DOMAIN TensorsOf(loading.model)
    /\ LET p == [load |-> loads, model |-> loading.model, at |-> loading.next]
           key == KeyOf(TensorOf(p))
       IN  /\ RegisterTensor(Loader, p)
           /\ tensor_pages_' = Name(key, p)
           /\ layer_tensors_' =
                [l \in DOMAIN layer_tensors_ |->
                    IF l = key[1]
                    THEN [f \in DOMAIN layer_tensors_[l] \cup Fields(key[2]) |->
                             IF f \in Fields(key[2]) THEN p ELSE layer_tensors_[l][f]]
                    ELSE layer_tensors_[l]]
    /\ loading' = [loading EXCEPT !.next = @ + 1]
    /\ UNCHANGED <<config_, loaded_, loads, uses>>

\* The pages under names in which one of the parts occurs.
NamedPages(parts) ==
    {tensor_pages_[k] : k \in {k \in DOMAIN tensor_pages_ :
                                  \E part \in parts : Occurs(part, k[2])}}

Embeddings == NamedPages({"token_embd", "lm_head"})

\* Mutant of Norms: only the layers' own.
NormsOfLayers == NamedPages({"attn_norm", "ffn_norm"})

Norms == NamedPages({"_norm"})

\* prefetch_embeddings, then prefetch_all_norms.
Ask(from, priority) ==
    /\ AtLoad(from)
    /\ \E p \in loading.asks :
          /\ BeginPrefetch(Loader, p, priority)
          /\ loading' = [loading EXCEPT !.asks = @ \ {p}]
    /\ UNCHANGED <<config_, loaded_, tables, loads, uses>>

TensorsRegistered ==
    /\ AtLoad("register")
    /\ loading.next \notin DOMAIN TensorsOf(loading.model)
    /\ loading' = [loading EXCEPT !.at = "embeddings", !.asks = Embeddings]
    /\ UNCHANGED <<vars, config_, loaded_, tables, loads, uses>>

EmbeddingsAsked ==
    /\ AtLoad("embeddings")
    /\ loading.asks = {}
    /\ loading' = [loading EXCEPT !.at = "norms", !.asks = Norms]
    /\ UNCHANGED <<vars, config_, loaded_, tables, loads, uses>>

\* loaded_ = true;
Loaded ==
    /\ AtLoad("norms")
    /\ loading.asks = {}
    /\ loading' = NotLoading
    /\ loaded_' = TRUE
    /\ UNCHANGED <<vars, config_, tables, loads, uses>>

\* Calls into the manager that have begun.
ManagerStep ==
    /\ \/ PlanStep(Loader)
       \/ OpenFails(Loader)
       \/ OpenSucceeds(Loader, loading.model)
    /\ UNCHANGED loaderVars

\* Somebody uses the loaded model and announces its layers, which is what
\* run_transformer_layer does when the engine has been given a manager.
Use ==
    /\ loaded_
    /\ AtLoad("idle")
    /\ loads + uses < MaxCalls
    /\ uses' = uses + 1
    /\ \E l \in 0..NLayers - 1 : BeginSetActive(Loader, l)
    /\ UNCHANGED <<config_, loaded_, tables, loading, loads>>

\* The loader is destroyed before the manager.
Destroy ==
    /\ AtLoad("idle")
    /\ ~loaded_ /\ tensor_pages_ = <<>>
    /\ BeginDestroy
    /\ UNCHANGED loaderVars

Others ==
    /\ WorkerThreadStep \/ WorkerWakes \/ DestroyStep
    /\ UNCHANGED loaderVars

LoadStep ==
    \/ ReadHeader \/ ConfigThrows \/ OpenModel \/ Opened \/ EnumerateTensors
    \/ RegisterNext \/ TensorsRegistered \/ Ask("embeddings", 20) \/ EmbeddingsAsked
    \/ Ask("norms", 15) \/ Loaded
    \/ ManagerStep

Crashed == \E t \in Thread : At(t, "crashed")

LoaderNext ==
    /\ ~Crashed
    /\ \/ \E m \in Model : Load(m)
       \/ UnloadOnly \/ LoadStep \/ Use \/ Destroy \/ Others

\* As for Spec: threads that can run do.
LoaderFairness ==
    /\ WF_allVars(~Crashed /\ LoadStep)
    /\ SF_allVars(~Crashed /\ Enqueue(Loader) /\ UNCHANGED loaderVars)
    /\ WF_allVars(~Crashed /\ WorkerThreadStep /\ UNCHANGED loaderVars)
    /\ WF_allVars(~Crashed /\ DestroyStep /\ UNCHANGED loaderVars)

LoaderSpec == LoaderInit /\ [][LoaderNext]_allVars /\ LoaderFairness

-----------------------------------------------------------------------------
(* enumerate_tensors walks over the metadata a second time, by a table of   *)
(* its own (model_loader.cpp:264-282), and ends where the walk of           *)
(* parse_header has ended (93-168), which values it has misread included,   *)
(* for every file without an ARRAY.                                         *)
WalksAgree ==
    (/\ loading.at = "enumerate"
     /\ \A i \in DOMAIN loading.metadata : loading.metadata[i].type # "ARRAY") =>
        WalkEnd(SkipWalk(loading.metadata)) = WalkEnd(HeaderWalk(loading.metadata))

(* The two registries name the same pages, although one goes by a tensor's  *)
(* whole name and the other by the parts found in it: what a layer's field  *)
(* holds is a page of that layer, and tensor_pages_ holds it under the name *)
(* it was registered with, also when several tensors of a file get one name *)
(* or several names one field (model_loader.cpp:494-511).                   *)
RegistriesAgree ==
    \A l \in DOMAIN layer_tensors_ : \A f \in DOMAIN layer_tensors_[l] :
        LET page == layer_tensors_[l][f]
            key == KeyOf(TensorOf(page))
        IN  /\ key \in DOMAIN tensor_pages_ /\ tensor_pages_[key] = page
            /\ key[1] = l

(* Whatever was loaded before, and whatever of it failed: a page the loader *)
(* hands out was registered by the last load, for the file that is open and *)
(* whose configuration the loader has (model_loader.cpp:419-461, 475-494).  *)
PagesOfOpenModel ==
    \A p \in Range(tensor_pages_) :
        /\ p \in DOMAIN page_descriptors_
        /\ p.load = loads
        /\ p.model = config_
        /\ file_handle_ = p.model

(* A load that fails leaves no model, neither the new one nor the one       *)
(* before: nothing is open, no page is handed out (model_loader.cpp:419-    *)
(* 434).                                                                    *)
FailedLoadLeavesNothing ==
    loading.failed => /\ ~loaded_
                      /\ tensor_pages_ = <<>> /\ layer_tensors_ = <<>>
                      /\ file_handle_ = NoModel /\ mapped_base_ = 0

Dead == Crashed \/ ~prefetch_running_

(* load and set_active_layer return and the worker ends every request,      *)
(* although they take the same three locks in different orders              *)
(* (paging_manager.cpp:308-329, 398-435), unless the process dies.          *)
LoadReturns ==
    /\ (loading.at # "idle" \/ ~At(Loader, "idle")) ~> (AtLoad("idle") \/ Crashed)
    /\ ~At(Worker, "idle") ~> (At(Worker, "idle") \/ Crashed)

=============================================================================
