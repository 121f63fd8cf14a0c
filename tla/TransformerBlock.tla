-------------------------- MODULE TransformerBlock --------------------------
(***************************************************************************)
(* One decoder layer: TransformerBlock::forward of core/transformer_block, *)
(* with MultiHeadAttention of core/attention and MLPBlock of core/mlp, as  *)
(* the sequence of kernels it runs on its buffers.  Every block has        *)
(* buffers of its own; only the hidden state goes through all of them.     *)
(* The position is 0, the only one the engine passes.                      *)
(***************************************************************************)
EXTENDS Tensor, Sequences

VARIABLE config     \* the ModelConfig

n_embd == config.n_embd
n_head == config.n_head
n_ff == config.n_ff
n_kv_head == IF config.n_head_kv > 0 THEN config.n_head_kv ELSE n_head
head_dim == n_embd \div n_head
n_vocab == config.n_vocab

\* The product of two numbers of the shape is a uint32_t.
Word(n) == n % UInt
q_size == Word(n_head * head_dim)
kv_size == Word(n_kv_head * head_dim)

\* The floats in a layer's buffers, its weights and its slot of the KV cache;
\* hidden is the engine's.
BlockSize ==
    LET weights(rows, columns) == Floats(config.weight_dtype, rows * columns)
        slot == IF config.n_ctx = 0 THEN 0 ELSE kv_size
    IN [hidden |-> n_embd, residual_buf_ |-> n_embd, norm_buf_ |-> n_embd,
        attn_out_buf_ |-> n_embd, mlp_out_buf_ |-> n_embd, o_buf_ |-> n_embd,
        q_buf_ |-> q_size, k_buf_ |-> kv_size, v_buf_ |-> kv_size,
        slot_k |-> slot, slot_v |-> slot,
        gate_buf_ |-> n_ff, up_buf_ |-> n_ff, hidden_buf_ |-> n_ff,
        q_weight_ |-> weights(n_embd, q_size), k_weight_ |-> weights(n_embd, kv_size),
        v_weight_ |-> weights(n_embd, kv_size), o_weight_ |-> weights(q_size, n_embd),
        gate_weight_ |-> weights(n_embd, n_ff), up_weight_ |-> weights(n_embd, n_ff),
        down_weight_ |-> weights(n_ff, n_embd),
        attn_norm_weight_ |-> Floats("F32", n_embd),
        ffn_norm_weight_ |-> Floats("F32", n_embd)]

-----------------------------------------------------------------------------
(* MultiHeadAttention *)

compute_qkv(x) ==
    << MatVec("q_weight_", x, "q_buf_", q_size, n_embd),
       MatVec("k_weight_", x, "k_buf_", kv_size, n_embd),
       MatVec("v_weight_", x, "v_buf_", kv_size, n_embd) >>

apply_rope == << Rope("q_buf_", "k_buf_", head_dim, n_head, n_kv_head) >>

\* Without a KV cache nothing is stored.
StoreKV ==
    IF config.n_ctx = 0 THEN <<>>
    ELSE << Copy("k_buf_", "slot_k", kv_size),
            Copy("v_buf_", "slot_v", kv_size) >>

\* Mutant of KVHead: every query head has a head of keys and values of its own.
KVHeadUngrouped(h) == IF n_kv_head = 1 THEN 0 ELSE h

\* The head of keys and values that query head h uses.
KVHead(h) == IF n_kv_head = 1 THEN 0 ELSE Word(h * n_kv_head) \div n_head

\* Each head's scores from its query and a key, then the weighted values.
Attend ==
    LET head(h, dims) == {Word(h * head_dim) + d : d \in dims}
        heads(dims) == UNION {head(h, dims) : h \in 0..n_head - 1}
        kv_heads(dims) == UNION {head(KVHead(h), dims) : h \in 0..n_head - 1}
        all == 0..head_dim - 1
    IN  << Kernel({"q_buf_"} \X heads(Elements(head_dim))
                      \cup {"slot_k"} \X kv_heads(Elements(head_dim))
                      \cup {"slot_v"} \X kv_heads(all),
                  {"o_buf_"} \X heads(all)) >>

compute_output(y) == << MatVec("o_weight_", "o_buf_", y, n_embd, q_size) >>

Attention(x, y) ==
    compute_qkv(x) \o apply_rope \o StoreKV \o Attend \o compute_output(y)

-----------------------------------------------------------------------------
\* MLPBlock::forward
MLP(x, y) ==
    << MatVec("gate_weight_", x, "gate_buf_", n_ff, n_embd),
       MatVec("up_weight_", x, "up_buf_", n_ff, n_embd),
       SiLU("gate_buf_", "gate_buf_", n_ff),
       GateMul("gate_buf_", "up_buf_", "hidden_buf_", n_ff),
       MatVec("down_weight_", "hidden_buf_", y, n_embd, n_ff) >>

\* TransformerBlock::rms_norm; the weights are applied by whole registers only.
rms_norm(weight) ==
    << RMSNorm("hidden", "norm_buf_", n_embd),
       Kernel({"norm_buf_", weight} \X Vectors(n_embd),
              {"norm_buf_"} \X Vectors(n_embd)) >>

\* The sums with the residual are formed by whole registers, too.
AddResidual(x) ==
    << Kernel({"residual_buf_", x} \X Vectors(n_embd), {"hidden"} \X Vectors(n_embd)) >>

\* TransformerBlock::forward
BlockForward ==
       << Copy("hidden", "residual_buf_", n_embd) >>
    \o rms_norm("attn_norm_weight_")
    \o Attention("norm_buf_", "attn_out_buf_")
    \o AddResidual("attn_out_buf_")
    \o << Copy("hidden", "residual_buf_", n_embd) >>
    \o rms_norm("ffn_norm_weight_")
    \o MLP("norm_buf_", "mlp_out_buf_")
    \o AddResidual("mlp_out_buf_")

=============================================================================
