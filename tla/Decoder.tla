------------------------------ MODULE Decoder ------------------------------
(***************************************************************************)
(* What InferenceEngine does with a token: initialize, warmup, the         *)
(* embedding, the layers one kernel at a time, compute_logits and          *)
(* sample_token of engine/inference.cpp, over TransformerBlock and         *)
(* Sampler.  Of an element of a buffer the model keeps when it was last    *)
(* written in this pass.                                                   *)
(***************************************************************************)
EXTENDS TransformerBlock, Sampler

CONSTANT Files      \* what model files say of the shape: key -> value

Numbers == {"vocab_size", "embedding_length", "head_count", "head_count_kv",
            "feed_forward_length", "block_count", "context_length"}

\* The sampler knows one vocabulary.  From UInt - Lanes features on, i + 8 wraps
\* in the loops of TransformerBlock and they would not end.
ASSUME DecoderAssumption ==
    \A file \in Files :
        /\ \A key \in Numbers \cap DOMAIN file : file[key] \in 0..UInt - 1
        /\ "vocab_size" \in DOMAIN file => file["vocab_size"] \in {0, NVocab}
        /\ "embedding_length" \in DOMAIN file => file["embedding_length"] < UInt - Lanes

VARIABLES
    at,         \* "created", "warmup", "token", "layers", "logits", "sample", "crashed"
    layer,      \* the layer that runs
    step,       \* how many of its kernels have run
    written     \* access -> when this pass has written the element last

decoderVars == <<config, at, layer, step, written>>
vars == <<decoderVars, samplerVars>>

EngineSize ==
    [final_norm_ |-> Floats("F32", n_embd), logits_ |-> n_vocab,
     lm_head_ |-> Floats("F32", n_embd * n_vocab)]

Sizes ==
    [b \in DOMAIN BlockSize \cup DOMAIN EngineSize |->
        IF b \in DOMAIN EngineSize THEN EngineSize[b] ELSE BlockSize[b]]

Weights ==
    {"q_weight_", "k_weight_", "v_weight_", "o_weight_", "gate_weight_", "up_weight_",
     "down_weight_", "attn_norm_weight_", "ffn_norm_weight_", "final_norm_", "lm_head_"}

\* GGUFReader::read_config; what the file does not say is 0, and F32.
ReadConfig(file) ==
    LET number(key) == IF key \in DOMAIN file THEN file[key] ELSE 0
        types == {"Q4_0", "Q4_K", "Q5_K", "Q8_0", "F16"}
    IN [n_vocab |-> number("vocab_size"),
        n_embd |-> number("embedding_length"), n_head |-> number("head_count"),
        n_head_kv |-> IF number("head_count_kv") = 0 THEN number("head_count")
                      ELSE number("head_count_kv"),
        n_ff |-> number("feed_forward_length"), n_layer |-> number("block_count"),
        n_ctx |-> number("context_length"),
        weight_dtype |-> IF "file_type" \in DOMAIN file /\ file["file_type"] \in types
                         THEN file["file_type"] ELSE "F32"]

Init ==
    /\ \E file \in Files : config = ReadConfig(file)
    /\ at = "created"
    /\ layer = 0 /\ step = 0
    /\ written = <<>>
    /\ SamplerInit

\* What a hidden state of n_embd numbers leaves of the pass before: nothing.
Fresh == [a \in {"hidden"} \X (0..n_embd - 1) |-> 0]

\* head_dim() divides by n_head; then main has block 0 warmed up with zeros.
Initialize ==
    /\ at = "created"
    /\ IF n_head = 0 THEN at' = "crashed" /\ UNCHANGED written
       ELSE IF config.n_layer = 0 THEN at' = "token" /\ UNCHANGED written
       ELSE at' = "warmup" /\ written' = Fresh
    /\ UNCHANGED <<config, layer, step, samplerVars>>

\* The hidden state becomes the token's embedding, or zeros for none.
Embed ==
    /\ at = "token"
    /\ written' = Fresh
    /\ at' = IF config.n_layer = 0 THEN "logits" ELSE "layers"
    /\ layer' = 0 /\ step' = 0
    /\ UNCHANGED <<config, samplerVars>>

\* tokenize takes a word's hash modulo n_vocab.
TokenizeWord ==
    /\ at = "token"
    /\ n_vocab = 0
    /\ at' = "crashed"
    /\ UNCHANGED <<config, layer, step, written, samplerVars>>

-----------------------------------------------------------------------------
\* What a kernel leaves: its writes are the newest.
Run(kernel) ==
    [a \in DOMAIN written \cup kernel.writes |->
        IF a \in kernel.writes
        THEN layer * Len(BlockForward) + step + 1 ELSE written[a]]

\* data() of an empty vector is null.  What a read hits that leaves a buffer
\* which is not empty is not told here.
ReadsNull(kernel) == \E a \in kernel.reads : Sizes[a[1]] = 0

RunKernel ==
    /\ at \in {"warmup", "layers"}
    /\ step < Len(BlockForward)
    /\ LET kernel == BlockForward[step + 1]
       IN IF ReadsNull(kernel)
          THEN at' = "crashed" /\ UNCHANGED <<step, written>>
          ELSE step' = step + 1 /\ written' = Run(kernel) /\ UNCHANGED at
    /\ UNCHANGED <<config, layer, samplerVars>>

EndWarmup ==
    /\ at = "warmup"
    /\ step = Len(BlockForward)
    /\ at' = "token"
    /\ UNCHANGED <<config, layer, step, written, samplerVars>>

\* The next block has other buffers, and the next layer another cache.
NextLayer ==
    /\ at = "layers"
    /\ step = Len(BlockForward)
    /\ written' = Restrict(written, {a \in DOMAIN written : a[1] = "hidden"})
    /\ layer' = layer + 1 /\ step' = 0
    /\ at' = IF layer + 1 < config.n_layer THEN "layers" ELSE "logits"
    /\ UNCHANGED <<config, samplerVars>>

\* The logits of a prompt's token are not computed unless it is the last.
NextPromptToken ==
    /\ at = "logits" /\ step = 0
    /\ at' = "token"
    /\ UNCHANGED <<config, layer, step, written, samplerVars>>

compute_logits ==
    << RMSNorm("hidden", "hidden", n_embd),
       Kernel({"hidden", "final_norm_"} \X (0..n_embd - 1), {"hidden"} \X (0..n_embd - 1)),
       MatVec("lm_head_", "hidden", "logits_", n_vocab, n_embd) >>

ComputeLogits ==
    /\ at = "logits"
    /\ step < Len(compute_logits)
    /\ LET kernel == compute_logits[step + 1]
       IN IF ReadsNull(kernel)
          THEN at' = "crashed" /\ UNCHANGED <<step, written>>
          ELSE /\ step' = step + 1 /\ written' = Run(kernel)
               /\ at' = IF step + 1 = Len(compute_logits) THEN "sample" ELSE "logits"
    /\ UNCHANGED <<config, layer, samplerVars>>

\* softmax_f32 reads the first of the logits before it looks how many they are.
Sample ==
    /\ at = "sample"
    /\ IF n_vocab = 0 THEN at' = "crashed" /\ UNCHANGED <<config, layer, step, written, samplerVars>>
       ELSE SampleToken /\ UNCHANGED decoderVars

\* The token that was drawn is the next to pass through the layers.
NextToken ==
    /\ at = "sample"
    /\ SamplerReturns
    /\ at' = "token"
    /\ step' = 0
    /\ written' = <<>>
    /\ UNCHANGED <<config, layer>>

Next ==
    \/ Initialize \/ Embed \/ TokenizeWord \/ RunKernel \/ EndWarmup \/ NextLayer
    \/ NextPromptToken \/ ComputeLogits \/ Sample \/ NextToken

Spec == Init /\ [][Next]_vars

-----------------------------------------------------------------------------
\* The accesses of the kernel that runs next.
Running ==
    IF at \in {"warmup", "layers"} /\ step < Len(BlockForward) THEN BlockForward[step + 1]
    ELSE IF at = "logits" THEN compute_logits[step + 1]
    ELSE Kernel({}, {})

\* The products with head_count_kv and the bytes of a weight do not wrap.
HeadsFit == n_kv_head * head_dim < UInt /\ (n_head - 1) * n_kv_head < UInt
WeightsFit == \A n \in {q_size, kv_size, n_ff, n_vocab} : 4 * (n_embd * n) < SizeT

(* Every element a kernel reads has been written for this token, in this    *)
(* layer, by the last kernel that wrote the buffer: no kernel reads what an *)
(* earlier token, or an earlier step of this one, has left in a buffer that *)
(* every token uses again.  The loops of transformer_block.cpp:45-49, 63-67 *)
(* and 79-83 go by whole registers and the heads are rotated in halves, so  *)
(* n_embd must be a multiple of the width of a register and head_dim even;  *)
(* and no number of heads may be so large that a product of it wraps        *)
(* (attention.cpp:22-33, 76, 89).                                           *)
ReadsAreWhole ==
    /\ n_head > 0 /\ config.n_ctx > 0 /\ HeadsFit
    /\ n_embd % Lanes = 0 /\ head_dim % 2 = 0
    => \A a \in Running.reads : a[1] \notin Weights =>
            /\ a \in DOMAIN written
            /\ \A b \in DOMAIN written : a[1] = b[1] => written[a] >= written[b]

(* Every element a kernel reads or writes lies in its buffer, whatever the  *)
(* numbers of heads, of heads of keys and values and of features are, if a  *)
(* weight takes the four bytes of the float the kernels read it as and no   *)
(* size of the shape wraps (attention.cpp:22-33, 76, 89; tensor.cpp:107); a *)
(* model without a context has no cache to lie in.                          *)
AccessesInside ==
    (/\ n_head > 0 /\ config.n_ctx > 0
     /\ HeadsFit /\ WeightsFit
     /\ NBytes(config.weight_dtype, 1) = 4) =>
        \A a \in Running.reads \cup Running.writes : a[2] \in 0..Sizes[a[1]] - 1

=============================================================================
