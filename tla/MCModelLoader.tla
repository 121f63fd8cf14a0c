--------------------------- MODULE MCModelLoader ---------------------------
(***************************************************************************)
(* ModelLoader on two files: one whose layer has two tensors of one name   *)
(* and three of one field, one with two global tensors of one name, a layer*)
(* behind the last and a norm the reader has no name for.                  *)
(***************************************************************************)
EXTENDS ModelLoader

CONSTANTS FirstModel, SecondModel

Tensor(layer, rest) == [layer |-> layer, rest |-> rest]

Tensors(m) ==
    IF m = FirstModel
    THEN <<Tensor(1, "attn_q.weight"), Tensor(1, "cross_q_weight"),
           Tensor(1, "attn_q_norm.weight")>>
    ELSE <<Tensor(Global, "output.weight"), Tensor(Global, "output_norm.weight"),
           Tensor(NLayers, "post_attention_norm.weight")>>

\* Which of the parts the reader looks for occur in which names.
Occurrences ==
    {<<"attn_q", "attn_q.weight">>, <<"attn_q", "attn_q_norm.weight">>,
     <<"_norm", "attn_q_norm.weight">>, <<"q_weight", "cross_q_weight">>,
     <<"output", "output.weight">>, <<"output", "output_norm.weight">>,
     <<"_norm", "output_norm.weight">>, <<"_norm", "post_attention_norm.weight">>,
     <<"_norm", "attn_norm">>, <<"_norm", "ffn_norm">>,
     <<"token_embd", "token_embd">>, <<"lm_head", "lm_head">>}
        \cup {<<name, name>> : name \in Range(LayerNames)}

OccursIn(part, name) == <<part, name>> \in Occurrences

\* A value of each type with a case; arrays; what has none, last or not; and
\* numbers that are none.
Value(type) == [type |-> type, of |-> "U32", len |-> 0, asked |-> FALSE, number |-> TRUE]
Array(of) == [Value("ARRAY") EXCEPT !.of = of, !.len = 2]
Asked(type, number) == [Value(type) EXCEPT !.asked = TRUE, !.number = number]

Metadata(m) ==
    {<<Value("STRING"), Asked("U32", TRUE), Asked("F32", TRUE), Value("U64"),
       Value("I32"), Value("BOOL")>>,
     <<Array("STRING"), Value("BOOL")>>,
     <<Array("U8"), Value("U32")>>,
     <<Value("BOOL"), Value("F64")>>,
     <<Value("U16"), Value("BOOL")>>,
     <<Asked("STRING", FALSE)>>,
     <<Asked("BOOL", TRUE)>>}

Models == {FirstModel, SecondModel}
PagesAt(m, places) == [load : 1..MaxCalls, model : {m}, at : places]
Pages == PagesAt(FirstModel, 1..3) \cup PagesAt(SecondModel, 1..3)

\* Who is asked for with which priority: lm_head, the norm and the layer.
Requests ==
    [page_id : PagesAt(SecondModel, {2}), priority : {20}]
    \cup [page_id : PagesAt(SecondModel, {3}), priority : {15}]
    \cup [page_id : PagesAt(FirstModel, 1..3), priority : {10}]

PriorityOf(r) == r.priority
ModelOfPage(p) == p.model
LayerOfPage(p) == TensorOf(p).layer
SizeOfPage(p) == 1
EndOfPage(p) == IF p.at = 1 THEN ChunkSize ELSE FileSize

-----------------------------------------------------------------------------
\* History: what of the last load is needed and has not been resident since.
VARIABLE awaited

NeededName(key) ==
    \E part \in {"token_embd", "lm_head", "_norm"} : OccursIn(part, key[2])

NeededPages ==
    {tensor_pages_[key] : key \in {key \in DOMAIN tensor_pages_ : NeededName(key)}}

Awaits ==
    awaited' =
        IF loading.at = "register" /\ loading'.at = "embeddings"
        THEN NeededPages \ DOMAIN cache_map_
        ELSE IF file_handle_' = NoModel THEN {} ELSE awaited \ DOMAIN cache_map_'

MCInit == LoaderInit /\ awaited = {}
MCNext == LoaderNext /\ Awaits
MCSpec == MCInit /\ [][MCNext]_<<allVars, awaited>> /\ LoaderFairness

(* "Embeddings are always needed, prefetch them first", "load them all"     *)
(* (model_loader.cpp:527, 536): what a model loaded from a wholly mapped    *)
(* file names as an embedding, its output or a norm becomes resident before *)
(* long, unless it is unloaded first or the program ends.                   *)
NeededArrive ==
    (awaited # {} /\ view_end = FileSize) ~> (awaited = {} \/ Dead)

=============================================================================
