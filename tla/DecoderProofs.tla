--------------------------- MODULE DecoderProofs ---------------------------
(***************************************************************************)
(* Proofs about Decoder, for every width of a register and every shape of  *)
(* a model: each access of every kernel lies in its buffer, the filters of *)
(* sample_token keep what they promise, and no kernel reads what an older  *)
(* pass has left.                                                          *)
(***************************************************************************)
EXTENDS Decoder, FiniteSums, SequenceTheorems

-----------------------------------------------------------------------------
(* Arithmetic. *)

\* Row i, column j of an M x N matrix lies in it.
LEMMA RowMajor ==
    ASSUME NEW M \in Nat, NEW N \in Nat, NEW i \in 0..M - 1, NEW j \in 0..N - 1
    PROVE  i * N + j \in 0..M * N - 1
  <1>1. i * N \in Nat
    OBVIOUS
  <1>2. (M - i - 1) * N \in Nat
    <2>1. M - i - 1 \in Nat
      OBVIOUS
    <2> QED BY <2>1
  <1>3. M * N = i * N + N + (M - i - 1) * N
    OBVIOUS
  <1> QED BY <1>1, <1>2, <1>3

\* The loop over registers and the loop over the rest stay below n.
LEMMA ElementsInside ==
    ASSUME NEW n \in Nat
    PROVE  Elements(n) \subseteq 0..n - 1 /\ Vectors(n) \subseteq 0..n - 1
  <1>1. n % Lanes \in 0..n
    BY TensorAssumption
  <1> QED BY <1>1 DEF Elements, Vectors, Rest

\* The heads fill the hidden state or leave a rest of it.
LEMMA DivisionBounds ==
    ASSUME NEW n \in Nat, NEW h \in Nat \ {0}
    PROVE  n \div h \in Nat /\ h * (n \div h) <= n
  OBVIOUS

\* What fits a word is left as it is by its width.
LEMMA Unwrapped ==
    ASSUME NEW u \in Nat, NEW n \in Nat, n < u
    PROVE  n % u = n
  <1>1. n \div u = 0
    OBVIOUS
  <1> QED BY <1>1

\* A size_t is wide enough for the bytes of one register or of one buffer.
LEMMA SizeIsWide == SizeT \in Nat /\ SizeT > 4 /\ \A n \in 0..UInt - 1 : 4 * n < SizeT
  <1> DEFINE u == UInt
  <1>1. u \in Nat /\ u > 4
    BY TensorAssumption
  <1> HIDE DEF u
  <1>2. u * u \in Nat /\ u * u = 4 * u + (u - 4) * u /\ (u - 4) * u >= 0
    BY <1>1
  <1>3. u * u \in Nat /\ u * u > 4 /\ \A n \in 0..u - 1 : 4 * n < u * u
    BY <1>1, <1>2
  <1> QED BY <1>3 DEF SizeT, u

\* With a weight type of four bytes a tensor has as many floats as elements.
LEMMA WholeFloats ==
    ASSUME NEW dtype, NEW n \in Nat, NBytes(dtype, 1) = 4, 4 * n < SizeT
    PROVE  Floats(dtype, n) = n
  <1>1. 1 % SizeT = 1 /\ 2 % SizeT = 2 /\ SizeT \in Nat
    BY SizeIsWide, Unwrapped
  <1>2. dtype \notin {"F16", "BF16"} /\ dtype # "Q4_0" /\ dtype # "Q8_0"
    <2>1. 1 \div 2 + 1 \div 32 = 0 /\ 1 + 1 \div 32 = 1 /\ 0 % SizeT = 0
      BY SizeIsWide, Unwrapped
    <2> QED BY <1>1, <2>1 DEF NBytes
  <1>3. NBytes(dtype, n) = (4 * n) % SizeT
    BY <1>2 DEF NBytes
  <1>4. (4 * n) % SizeT = 4 * n
    BY SizeIsWide, Unwrapped
  <1> QED BY <1>3, <1>4 DEF Floats

LEMMA WholeF32 ==
    ASSUME NEW n \in Nat, 4 * n < SizeT
    PROVE  Floats("F32", n) = n
  <1>1. 4 % SizeT = 4
    BY SizeIsWide, Unwrapped
  <1>2. NBytes("F32", 1) = 4
    BY <1>1 DEF NBytes
  <1> QED BY <1>2, WholeFloats

-----------------------------------------------------------------------------
(* Buffers. *)

ConfigTyped ==
    /\ {config.n_vocab, config.n_embd, config.n_head, config.n_head_kv, config.n_ff,
        config.n_layer, config.n_ctx} \subseteq 0..UInt - 1

\* What AccessesInside assumes of the model.
Usable ==
    /\ ConfigTyped
    /\ n_head > 0 /\ config.n_ctx > 0
    /\ HeadsFit /\ WeightsFit
    /\ NBytes(config.weight_dtype, 1) = 4

\* All the places there are; a kernel that stays among them.
Buffers == DOMAIN Sizes
Places == UNION {{b} \X (0..Sizes[b] - 1) : b \in Buffers}
Inside == [reads : SUBSET Places, writes : SUBSET Places]

LEMMA ShapeTyped ==
    ASSUME ConfigTyped, n_head > 0, HeadsFit
    PROVE  /\ n_embd \in Nat /\ n_embd < UInt /\ n_head \in Nat \ {0} /\ n_ff \in Nat
           /\ n_vocab \in Nat /\ n_kv_head \in Nat \ {0} /\ head_dim \in Nat
           /\ q_size = n_head * head_dim /\ q_size \in Nat /\ q_size <= n_embd
           /\ kv_size = n_kv_head * head_dim /\ kv_size \in Nat
  <1>1. /\ n_embd \in 0..UInt - 1 /\ n_head \in Nat \ {0} /\ n_ff \in Nat /\ n_vocab \in Nat
        /\ config.n_head_kv \in Nat /\ UInt \in Nat
    BY TensorAssumption DEF ConfigTyped, n_embd, n_head, n_ff, n_vocab
  <1>2. n_kv_head \in Nat \ {0}
    BY <1>1 DEF n_kv_head
  <1>3. head_dim \in Nat /\ n_head * head_dim <= n_embd
    BY <1>1, DivisionBounds DEF head_dim
  <1>4. n_head * head_dim \in Nat /\ n_kv_head * head_dim \in Nat
    BY <1>1, <1>2, <1>3
  <1>5. n_head * head_dim < UInt /\ n_kv_head * head_dim < UInt
    BY <1>1, <1>3, <1>4 DEF HeadsFit
  <1>6. q_size = n_head * head_dim /\ kv_size = n_kv_head * head_dim
    BY <1>1, <1>4, <1>5, Unwrapped DEF q_size, kv_size, Word
  <1> QED BY <1>1, <1>2, <1>3, <1>4, <1>6

LEMMA UsableShape == Usable => ConfigTyped /\ n_head > 0 /\ HeadsFit
  BY DEF Usable

\* The first n elements of buffer b exist.
Fits(b, n) == b \in Buffers /\ Sizes[b] \in Nat /\ n \in Nat /\ n <= Sizes[b]

LEMMA BlockBuffers ==
    \A b \in DOMAIN BlockSize : b \in Buffers /\ Sizes[b] = BlockSize[b]
  <1>1. \A b \in DOMAIN BlockSize : b \notin DOMAIN EngineSize
    BY DEF BlockSize, EngineSize
  <1>2. \A b \in DOMAIN BlockSize : b \in DOMAIN Sizes /\ Sizes[b] = BlockSize[b]
    BY <1>1 DEF Sizes
  <1> QED BY <1>2 DEF Buffers

LEMMA StatesFit ==
    ASSUME Usable
    PROVE  /\ Fits("hidden", n_embd) /\ Fits("residual_buf_", n_embd)
           /\ Fits("norm_buf_", n_embd) /\ Fits("attn_out_buf_", n_embd)
           /\ Fits("mlp_out_buf_", n_embd)
           /\ Fits("attn_norm_weight_", n_embd) /\ Fits("ffn_norm_weight_", n_embd)
  <1>1. n_embd \in Nat /\ n_embd < UInt /\ UInt \in Nat
    BY UsableShape, ShapeTyped, TensorAssumption
  <1>2. 4 * n_embd < SizeT
    BY <1>1, SizeIsWide
  <1>3. Floats("F32", n_embd) = n_embd
    BY <1>1, <1>2, WholeF32
  <1> QED BY <1>1, <1>3, BlockBuffers DEF Fits, BlockSize

LEMMA AttentionFits ==
    ASSUME Usable
    PROVE  /\ Fits("q_buf_", q_size) /\ Fits("o_buf_", q_size)
           /\ Fits("k_buf_", kv_size) /\ Fits("v_buf_", kv_size)
           /\ Fits("slot_k", kv_size) /\ Fits("slot_v", kv_size)
  <1>1. n_embd \in Nat /\ q_size \in Nat /\ q_size <= n_embd /\ kv_size \in Nat
    BY UsableShape, ShapeTyped
  <1>2. config.n_ctx # 0
    BY DEF Usable
  <1> QED BY <1>1, <1>2, BlockBuffers DEF Fits, BlockSize

LEMMA AttentionWeightsFit ==
    ASSUME Usable
    PROVE  /\ Fits("q_weight_", q_size * n_embd)
           /\ Fits("k_weight_", kv_size * n_embd)
           /\ Fits("v_weight_", kv_size * n_embd)
           /\ Fits("o_weight_", n_embd * q_size)
  <1>1. q_size \in Nat /\ kv_size \in Nat /\ n_embd \in Nat
    BY UsableShape, ShapeTyped
  <1>2. /\ n_embd * q_size \in Nat /\ n_embd * q_size = q_size * n_embd
        /\ n_embd * kv_size \in Nat /\ n_embd * kv_size = kv_size * n_embd
    BY <1>1
  <1>3. 4 * (n_embd * q_size) < SizeT /\ 4 * (n_embd * kv_size) < SizeT
    BY DEF Usable, WeightsFit
  <1>4. /\ Floats(config.weight_dtype, n_embd * q_size) = n_embd * q_size
        /\ Floats(config.weight_dtype, n_embd * kv_size) = n_embd * kv_size
        /\ Floats(config.weight_dtype, q_size * n_embd) = q_size * n_embd
    BY <1>2, <1>3, WholeFloats DEF Usable
  <1>5. /\ Sizes["q_weight_"] = Floats(config.weight_dtype, n_embd * q_size)
        /\ Sizes["k_weight_"] = Floats(config.weight_dtype, n_embd * kv_size)
        /\ Sizes["v_weight_"] = Floats(config.weight_dtype, n_embd * kv_size)
        /\ Sizes["o_weight_"] = Floats(config.weight_dtype, q_size * n_embd)
        /\ {"q_weight_", "k_weight_", "v_weight_", "o_weight_"} \subseteq Buffers
    BY BlockBuffers DEF BlockSize
  <1> QED BY <1>2, <1>4, <1>5 DEF Fits

LEMMA MLPFits ==
    ASSUME Usable
    PROVE  /\ Fits("gate_buf_", n_ff) /\ Fits("up_buf_", n_ff) /\ Fits("hidden_buf_", n_ff)
           /\ Fits("gate_weight_", n_ff * n_embd) /\ Fits("up_weight_", n_ff * n_embd)
           /\ Fits("down_weight_", n_embd * n_ff)
  <1>1. n_ff \in Nat /\ n_embd * n_ff \in Nat /\ n_embd * n_ff = n_ff * n_embd
    BY UsableShape, ShapeTyped
  <1>2. 4 * (n_embd * n_ff) < SizeT
    BY DEF Usable, WeightsFit
  <1>3. /\ Floats(config.weight_dtype, n_embd * n_ff) = n_embd * n_ff
        /\ Floats(config.weight_dtype, n_ff * n_embd) = n_ff * n_embd
    BY <1>1, <1>2, WholeFloats DEF Usable
  <1> QED BY <1>1, <1>3, BlockBuffers DEF Fits, BlockSize

LEMMA EngineFits ==
    ASSUME Usable
    PROVE  /\ Fits("final_norm_", n_embd) /\ Fits("logits_", n_vocab)
           /\ Fits("lm_head_", n_vocab * n_embd)
  <1>1. n_embd \in Nat /\ n_embd < UInt /\ UInt \in Nat /\ n_vocab \in Nat
    BY UsableShape, ShapeTyped, TensorAssumption
  <1>2. n_embd * n_vocab \in Nat /\ n_embd * n_vocab = n_vocab * n_embd
    BY <1>1
  <1>3. 4 * n_embd < SizeT /\ 4 * (n_embd * n_vocab) < SizeT
    BY <1>1, SizeIsWide DEF Usable, WeightsFit
  <1>4. Floats("F32", n_embd) = n_embd /\ Floats("F32", n_embd * n_vocab) = n_embd * n_vocab
    BY <1>1, <1>2, <1>3, WholeF32
  <1> QED BY <1>1, <1>2, <1>4 DEF Fits, Buffers, Sizes, EngineSize

-----------------------------------------------------------------------------
(* Kernels: each stays inside if its operands fit. *)

LEMMA PartInside ==
    ASSUME NEW b, NEW n, Fits(b, n), NEW S, S \subseteq 0..n - 1
    PROVE  {b} \X S \subseteq Places
  <1>1. S \subseteq 0..Sizes[b] - 1
    BY DEF Fits
  <1>2. {b} \X S \subseteq {b} \X (0..Sizes[b] - 1)
    BY <1>1
  <1>3. {b} \X (0..Sizes[b] - 1) \subseteq Places
    BY DEF Places, Fits
  <1> QED BY <1>2, <1>3

LEMMA MatVecInside ==
    ASSUME NEW A, NEW x, NEW y, NEW M \in Nat, NEW N \in Nat,
           Fits(A, M * N), Fits(x, N), Fits(y, M)
    PROVE  MatVec(A, x, y, M, N) \in Inside
  <1> DEFINE rows == {i * N + j : i \in 0..M - 1, j \in Elements(N)}
  <1>1. rows \subseteq 0..M * N - 1
    BY ElementsInside, RowMajor
  <1> HIDE DEF rows
  <1>2. {A} \X rows \subseteq Places
    BY <1>1, PartInside
  <1>3. {x} \X Elements(N) \subseteq Places
    BY ElementsInside, PartInside
  <1>4. {y} \X (0..M - 1) \subseteq Places
    BY PartInside
  <1> QED BY <1>2, <1>3, <1>4 DEF MatVec, Kernel, Inside, rows

LEMMA CopyInside ==
    ASSUME NEW x, NEW y, NEW n \in Nat, Fits(x, n), Fits(y, n)
    PROVE  Copy(x, y, n) \in Inside /\ SiLU(x, y, n) \in Inside
  <1>1. {x} \X (0..n - 1) \subseteq Places /\ {y} \X (0..n - 1) \subseteq Places
    BY PartInside
  <1> QED BY <1>1 DEF Copy, SiLU, Kernel, Inside

LEMMA RMSNormInside ==
    ASSUME NEW x, NEW y, NEW n \in Nat, Fits(x, n), Fits(y, n)
    PROVE  RMSNorm(x, y, n) \in Inside
  <1>1. {x} \X Elements(n) \subseteq Places /\ {y} \X Elements(n) \subseteq Places
    BY PartInside, ElementsInside
  <1> QED BY <1>1 DEF RMSNorm, Kernel, Inside

LEMMA GateMulInside ==
    ASSUME NEW g, NEW u, NEW y, NEW n \in Nat, Fits(g, n), Fits(u, n), Fits(y, n)
    PROVE  GateMul(g, u, y, n) \in Inside
  <1>1. /\ {g} \X Elements(n) \subseteq Places /\ {u} \X Elements(n) \subseteq Places
        /\ {y} \X Elements(n) \subseteq Places
    BY PartInside, ElementsInside
  <1>2. {g, u} \X Elements(n) \subseteq Places
    BY <1>1
  <1> QED BY <1>1, <1>2 DEF GateMul, Kernel, Inside

\* Element by element over whole registers, two operands.
LEMMA VectorsInside ==
    ASSUME NEW x, NEW y, NEW z, NEW n \in Nat, Fits(x, n), Fits(y, n), Fits(z, n)
    PROVE  Kernel({x, y} \X Vectors(n), {z} \X Vectors(n)) \in Inside
  <1>1. /\ {x} \X Vectors(n) \subseteq Places /\ {y} \X Vectors(n) \subseteq Places
        /\ {z} \X Vectors(n) \subseteq Places
    BY PartInside, ElementsInside
  <1>2. {x, y} \X Vectors(n) \subseteq Places
    BY <1>1
  <1> QED BY <1>1, <1>2 DEF Kernel, Inside

\* Both halves of every head lie in the heads.
LEMMA RotatedInside ==
    ASSUME NEW heads \in Nat, NEW dim \in Nat
    PROVE  Rotated(heads, dim) \subseteq 0..heads * dim - 1
  <1>1. SUFFICES ASSUME NEW h \in 0..heads - 1, NEW j \in 0..(dim \div 2) - 1
                 PROVE  {h * dim + j, h * dim + j + (dim \div 2)} \subseteq 0..heads * dim - 1
    BY DEF Rotated
  <1>2. j \in 0..dim - 1 /\ j + (dim \div 2) \in 0..dim - 1
    OBVIOUS
  <1>3. h * dim + j \in 0..heads * dim - 1
    BY <1>2, RowMajor
  <1>4. h * dim + (j + (dim \div 2)) \in 0..heads * dim - 1
    BY <1>2, RowMajor
  <1>5. h * dim \in Int /\ dim \div 2 \in Int
    OBVIOUS
  <1>6. h * dim + (j + (dim \div 2)) = h * dim + j + (dim \div 2)
    BY <1>5
  <1> QED BY <1>3, <1>4, <1>6

LEMMA RopeInside ==
    ASSUME NEW q, NEW k, NEW dim \in Nat, NEW heads \in Nat, NEW kv_heads \in Nat,
           Fits(q, heads * dim), Fits(k, kv_heads * dim)
    PROVE  Rope(q, k, dim, heads, kv_heads) \in Inside
  <1>1. {q} \X Rotated(heads, dim) \subseteq Places
    BY RotatedInside, PartInside
  <1>2. {k} \X Rotated(kv_heads, dim) \subseteq Places
    BY RotatedInside, PartInside
  <1> QED BY <1>1, <1>2 DEF Rope, Kernel, Inside

\* A query head's keys and values are those of a head there is.
LEMMA KVHeadExists ==
    ASSUME n_head \in Nat \ {0}, n_kv_head \in Nat \ {0}, HeadsFit, NEW h \in 0..n_head - 1
    PROVE  KVHead(h) \in 0..n_kv_head - 1
  <1> DEFINE n == n_head
             k == n_kv_head
             d == (h * k) \div n
  <1>1. n \in Nat \ {0} /\ k \in Nat \ {0} /\ h \in Nat /\ h < n
    OBVIOUS
  <1>w. (n - 1) * k < UInt /\ UInt \in Nat
    BY TensorAssumption DEF HeadsFit
  <1> HIDE DEF n, k
  <1>2. h * k \in Nat /\ (n - h) * k \in Nat /\ n * k = h * k + (n - h) * k
    BY <1>1
  <1>3. (n - h) * k > 0
    BY <1>1
  <1>4. d \in Nat /\ n * d <= h * k
    BY <1>1, <1>2, DivisionBounds
  <1>7. Word(h * k) = h * k
    <2>1. \A i, j, l \in Nat : (i + j) * l = i * l + j * l /\ j * l \in Nat
      OBVIOUS
    <2>2. n - 1 - h \in Nat /\ n - 1 = h + (n - 1 - h) /\ h \in Nat /\ k \in Nat
      BY <1>1
    <2>3. (n - 1) * k = h * k + (n - 1 - h) * k /\ (n - 1 - h) * k \in Nat
      BY <2>1, <2>2
    <2>4. h * k < UInt
      BY <1>w, <1>2, <2>3
    <2> QED BY <1>w, <1>2, <2>4, Unwrapped DEF Word
  <1>8. KVHead(h) = IF k = 1 THEN 0 ELSE d
    BY <1>7 DEF KVHead, n, k
  <1> HIDE DEF d
  <1>5. ASSUME d >= k PROVE FALSE
    <2>1. n * (d - k) \in Nat /\ n * d = n * k + n * (d - k)
      BY <1>1, <1>4, <1>5
    <2> QED BY <2>1, <1>1, <1>2, <1>3, <1>4
  <1>6. d \in 0..k - 1
    BY <1>1, <1>4, <1>5
  <1> QED BY <1>1, <1>6, <1>8 DEF k

\* A head begins where its number says.
LEMMA HeadsBegin ==
    ASSUME ConfigTyped, n_head > 0, HeadsFit, NEW h \in 0..n_head - 1
    PROVE  /\ Word(h * head_dim) = h * head_dim
           /\ Word(KVHead(h) * head_dim) = KVHead(h) * head_dim
  <1>1. /\ n_head \in Nat /\ n_kv_head \in Nat /\ head_dim \in Nat /\ UInt \in Nat
        /\ n_head * head_dim < UInt /\ n_kv_head * head_dim < UInt
    BY ShapeTyped, TensorAssumption DEF HeadsFit
  <1>2. h \in 0..n_head - 1 /\ KVHead(h) \in 0..n_kv_head - 1
    BY ShapeTyped, KVHeadExists
  <1>3. ASSUME NEW M \in Nat, NEW D \in Nat, NEW U \in Nat, M * D < U, NEW i \in 0..M - 1
        PROVE  (i * D) % U = i * D
    <2>1. i * D \in Nat /\ (M - i) * D >= 0 /\ M * D = i * D + (M - i) * D
      OBVIOUS
    <2>2. i * D < U
      BY <1>3, <2>1
    <2> QED BY <2>1, <2>2, Unwrapped
  <1> QED BY <1>1, <1>2, <1>3 DEF Word

\* What attention reads and writes if nothing wraps.
LEMMA AttendPlain ==
    ASSUME ConfigTyped, n_head > 0, HeadsFit
    PROVE  LET heads(dims) == UNION {{h * head_dim + d : d \in dims} : h \in 0..n_head - 1}
               kv_heads(dims) ==
                   UNION {{KVHead(h) * head_dim + d : d \in dims} : h \in 0..n_head - 1}
               all == 0..head_dim - 1
           IN  Attend = << Kernel({"q_buf_"} \X heads(Elements(head_dim))
                                      \cup {"slot_k"} \X kv_heads(Elements(head_dim))
                                      \cup {"slot_v"} \X kv_heads(all),
                                  {"o_buf_"} \X heads(all)) >>
  <1> DEFINE heads(dims) == UNION {{h * head_dim + d : d \in dims} : h \in 0..n_head - 1}
             kv_heads(dims) ==
                 UNION {{KVHead(h) * head_dim + d : d \in dims} : h \in 0..n_head - 1}
             words(dims) == UNION {{Word(h * head_dim) + d : d \in dims} : h \in 0..n_head - 1}
             kv_words(dims) ==
                 UNION {{Word(KVHead(h) * head_dim) + d : d \in dims} : h \in 0..n_head - 1}
             all == 0..head_dim - 1
  <1>1. \A dims : words(dims) = heads(dims) /\ kv_words(dims) = kv_heads(dims)
    BY HeadsBegin
  <1>2. Attend = << Kernel({"q_buf_"} \X words(Elements(head_dim))
                               \cup {"slot_k"} \X kv_words(Elements(head_dim))
                               \cup {"slot_v"} \X kv_words(all),
                           {"o_buf_"} \X words(all)) >>
    BY DEF Attend
  <1> HIDE DEF heads, kv_heads, words, kv_words, all
  <1>3. Attend = << Kernel({"q_buf_"} \X heads(Elements(head_dim))
                               \cup {"slot_k"} \X kv_heads(Elements(head_dim))
                               \cup {"slot_v"} \X kv_heads(all),
                           {"o_buf_"} \X heads(all)) >>
    BY <1>1, <1>2
  <1> QED BY <1>3 DEF heads, kv_heads, all

LEMMA AttendInside ==
    ASSUME Usable
    PROVE  Attend \in Seq(Inside)
  <1> DEFINE head(h, dims) == {h * head_dim + d : d \in dims}
             heads(dims) == UNION {head(h, dims) : h \in 0..n_head - 1}
             kv_heads(dims) == UNION {head(KVHead(h), dims) : h \in 0..n_head - 1}
             all == 0..head_dim - 1
  <1>0. /\ n_head \in Nat \ {0} /\ n_kv_head \in Nat \ {0} /\ head_dim \in Nat
        /\ q_size = n_head * head_dim /\ kv_size = n_kv_head * head_dim /\ HeadsFit
    BY UsableShape, ShapeTyped
  <1>1. \A h \in 0..n_head - 1 : \A d \in all :
            /\ h * head_dim + d \in 0..q_size - 1
            /\ KVHead(h) * head_dim + d \in 0..kv_size - 1
    BY <1>0, RowMajor, KVHeadExists
  <1>2. Elements(head_dim) \subseteq all
    BY <1>0, ElementsInside
  <1>3. /\ heads(Elements(head_dim)) \subseteq 0..q_size - 1
        /\ heads(all) \subseteq 0..q_size - 1
    BY <1>1, <1>2
  <1>4. /\ kv_heads(Elements(head_dim)) \subseteq 0..kv_size - 1
        /\ kv_heads(all) \subseteq 0..kv_size - 1
    BY <1>1, <1>2
  <1>8. Attend = << Kernel({"q_buf_"} \X heads(Elements(head_dim))
                               \cup {"slot_k"} \X kv_heads(Elements(head_dim))
                               \cup {"slot_v"} \X kv_heads(all),
                           {"o_buf_"} \X heads(all)) >>
    BY UsableShape, AttendPlain
  <1> HIDE DEF heads, kv_heads, all
  <1>5. /\ {"q_buf_"} \X heads(Elements(head_dim)) \subseteq Places
        /\ {"o_buf_"} \X heads(all) \subseteq Places
    BY <1>3, AttentionFits, PartInside
  <1>6. /\ {"slot_k"} \X kv_heads(Elements(head_dim)) \subseteq Places
        /\ {"slot_v"} \X kv_heads(all) \subseteq Places
    BY <1>4, AttentionFits, PartInside
  <1>7. Kernel({"q_buf_"} \X heads(Elements(head_dim))
                   \cup {"slot_k"} \X kv_heads(Elements(head_dim))
                   \cup {"slot_v"} \X kv_heads(all),
               {"o_buf_"} \X heads(all)) \in Inside
    BY <1>5, <1>6 DEF Kernel, Inside
  <1> QED BY <1>7, <1>8

-----------------------------------------------------------------------------
(* A layer: all its kernels stay inside. *)

LEMMA AttentionInside ==
    ASSUME Usable
    PROVE  Attention("norm_buf_", "attn_out_buf_") \in Seq(Inside)
  <1>1. compute_qkv("norm_buf_") \in Seq(Inside)
    <2>1. /\ MatVec("q_weight_", "norm_buf_", "q_buf_", q_size, n_embd) \in Inside
          /\ MatVec("k_weight_", "norm_buf_", "k_buf_", kv_size, n_embd) \in Inside
          /\ MatVec("v_weight_", "norm_buf_", "v_buf_", kv_size, n_embd) \in Inside
      BY UsableShape, ShapeTyped, StatesFit, AttentionFits, AttentionWeightsFit, MatVecInside
    <2> QED BY <2>1 DEF compute_qkv
  <1>2. apply_rope \in Seq(Inside)
    <2>1. Rope("q_buf_", "k_buf_", head_dim, n_head, n_kv_head) \in Inside
      <3>1. /\ n_head \in Nat /\ n_kv_head \in Nat /\ head_dim \in Nat
            /\ Fits("q_buf_", n_head * head_dim) /\ Fits("k_buf_", n_kv_head * head_dim)
        BY UsableShape, ShapeTyped, AttentionFits
      <3> QED BY <3>1, RopeInside
    <2> QED BY <2>1 DEF apply_rope
  <1>3. StoreKV \in Seq(Inside)
    <2>1. /\ Copy("k_buf_", "slot_k", kv_size) \in Inside
          /\ Copy("v_buf_", "slot_v", kv_size) \in Inside
      BY UsableShape, ShapeTyped, AttentionFits, CopyInside
    <2> QED BY <2>1 DEF StoreKV
  <1>4. compute_output("attn_out_buf_") \in Seq(Inside)
    <2>1. MatVec("o_weight_", "o_buf_", "attn_out_buf_", n_embd, q_size) \in Inside
      BY UsableShape, ShapeTyped, StatesFit, AttentionFits, AttentionWeightsFit, MatVecInside
    <2> QED BY <2>1 DEF compute_output
  <1> QED BY <1>1, <1>2, <1>3, <1>4, AttendInside, ConcatProperties DEF Attention

LEMMA MLPInside ==
    ASSUME Usable
    PROVE  MLP("norm_buf_", "mlp_out_buf_") \in Seq(Inside)
  <1>1. /\ MatVec("gate_weight_", "norm_buf_", "gate_buf_", n_ff, n_embd) \in Inside
        /\ MatVec("up_weight_", "norm_buf_", "up_buf_", n_ff, n_embd) \in Inside
        /\ MatVec("down_weight_", "hidden_buf_", "mlp_out_buf_", n_embd, n_ff) \in Inside
    BY UsableShape, ShapeTyped, StatesFit, MLPFits, MatVecInside
  <1>2. SiLU("gate_buf_", "gate_buf_", n_ff) \in Inside
    BY UsableShape, ShapeTyped, MLPFits, CopyInside
  <1>3. GateMul("gate_buf_", "up_buf_", "hidden_buf_", n_ff) \in Inside
    BY UsableShape, ShapeTyped, MLPFits, GateMulInside
  <1> QED BY <1>1, <1>2, <1>3 DEF MLP

LEMMA BlockInside ==
    ASSUME Usable
    PROVE  BlockForward \in Seq(Inside)
  <1>1. << Copy("hidden", "residual_buf_", n_embd) >> \in Seq(Inside)
    <2>1. Copy("hidden", "residual_buf_", n_embd) \in Inside
      BY UsableShape, ShapeTyped, StatesFit, CopyInside
    <2> QED BY <2>1
  <1>2. rms_norm("attn_norm_weight_") \in Seq(Inside) /\ rms_norm("ffn_norm_weight_") \in Seq(Inside)
    <2>1. RMSNorm("hidden", "norm_buf_", n_embd) \in Inside
      BY UsableShape, ShapeTyped, StatesFit, RMSNormInside
    <2>2. /\ Kernel({"norm_buf_", "attn_norm_weight_"} \X Vectors(n_embd),
                    {"norm_buf_"} \X Vectors(n_embd)) \in Inside
          /\ Kernel({"norm_buf_", "ffn_norm_weight_"} \X Vectors(n_embd),
                    {"norm_buf_"} \X Vectors(n_embd)) \in Inside
      BY UsableShape, ShapeTyped, StatesFit, VectorsInside
    <2> QED BY <2>1, <2>2 DEF rms_norm
  <1>3. AddResidual("attn_out_buf_") \in Seq(Inside) /\ AddResidual("mlp_out_buf_") \in Seq(Inside)
    <2>1. /\ Kernel({"residual_buf_", "attn_out_buf_"} \X Vectors(n_embd),
                    {"hidden"} \X Vectors(n_embd)) \in Inside
          /\ Kernel({"residual_buf_", "mlp_out_buf_"} \X Vectors(n_embd),
                    {"hidden"} \X Vectors(n_embd)) \in Inside
      BY UsableShape, ShapeTyped, StatesFit, VectorsInside
    <2> QED BY <2>1 DEF AddResidual
  <1> QED BY <1>1, <1>2, <1>3, AttentionInside, MLPInside, ConcatProperties
          DEF BlockForward

LEMMA LogitsInside ==
    ASSUME Usable
    PROVE  compute_logits \in Seq(Inside)
  <1>1. RMSNorm("hidden", "hidden", n_embd) \in Inside
    BY UsableShape, ShapeTyped, StatesFit, RMSNormInside
  <1>2. Kernel({"hidden", "final_norm_"} \X (0..n_embd - 1),
               {"hidden"} \X (0..n_embd - 1)) \in Inside
    <2>1. /\ {"hidden"} \X (0..n_embd - 1) \subseteq Places
          /\ {"final_norm_"} \X (0..n_embd - 1) \subseteq Places
      BY StatesFit, EngineFits, PartInside
    <2>2. {"hidden", "final_norm_"} \X (0..n_embd - 1) \subseteq Places
      BY <2>1
    <2> QED BY <2>1, <2>2 DEF Kernel, Inside
  <1>3. MatVec("lm_head_", "hidden", "logits_", n_vocab, n_embd) \in Inside
    BY UsableShape, ShapeTyped, StatesFit, EngineFits, MatVecInside
  <1> QED BY <1>1, <1>2, <1>3 DEF compute_logits

-----------------------------------------------------------------------------
(* The decoder. *)

IInv ==
    /\ ConfigTyped
    /\ step \in Nat
    /\ at = "logits" => step < Len(compute_logits)

LEMMA ThreeKernels == Len(compute_logits) = 3
  BY DEF compute_logits

LEMMA DecoderInit == Init => IInv
  <1> SUFFICES ASSUME Init PROVE IInv
    OBVIOUS
  <1>1. PICK file \in Files : config = ReadConfig(file)
    BY DEF Init
  <1>2. ConfigTyped
    BY <1>1, DecoderAssumption, TensorAssumption DEF ConfigTyped, ReadConfig, Numbers
  <1> QED BY <1>2 DEF Init, IInv

LEMMA DecoderNext == IInv /\ [Next]_vars => IInv'
  <1> SUFFICES ASSUME IInv, [Next]_vars PROVE IInv'
    OBVIOUS
  <1> USE ThreeKernels DEF IInv, ConfigTyped, Fresh
  <1>0. Len(compute_logits)' = 3
    BY DEF compute_logits
  <1> USE <1>0
  <1>1. CASE Initialize
    BY <1>1 DEF Initialize
  <1>2. CASE Embed
    BY <1>2 DEF Embed
  <1>11. CASE TokenizeWord
    BY <1>11 DEF TokenizeWord
  <1>3. CASE RunKernel
    BY <1>3 DEF RunKernel
  <1>4. CASE EndWarmup
    BY <1>4 DEF EndWarmup
  <1>5. CASE NextLayer
    BY <1>5 DEF NextLayer
  <1>6. CASE NextPromptToken
    BY <1>6 DEF NextPromptToken
  <1>7. CASE ComputeLogits
    BY <1>7 DEF ComputeLogits
  <1>8. CASE Sample
    BY <1>8 DEF Sample, decoderVars
  <1>9. CASE NextToken
    BY <1>9 DEF NextToken
  <1>10. CASE UNCHANGED vars
    BY <1>10 DEF vars, decoderVars
  <1> QED BY <1>1, <1>2, <1>3, <1>4, <1>5, <1>6, <1>7, <1>8, <1>9, <1>10, <1>11 DEF Next

LEMMA DecoderInside == IInv => AccessesInside
  <1> SUFFICES ASSUME IInv, n_head > 0, config.n_ctx > 0, HeadsFit, WeightsFit,
                      NBytes(config.weight_dtype, 1) = 4
               PROVE  \A a \in Running.reads \cup Running.writes :
                          a[2] \in 0..Sizes[a[1]] - 1
    BY DEF AccessesInside
  <1>1. Usable
    BY DEF Usable, IInv
  <1>2. Running \in Inside
    <2>1. CASE at \in {"warmup", "layers"} /\ step < Len(BlockForward)
      <3>1. step + 1 \in 1..Len(BlockForward)
        BY <1>1, <2>1, BlockInside, LenProperties DEF IInv
      <3> QED BY <1>1, <2>1, <3>1, BlockInside, ElementOfSeq DEF Running
    <2>2. CASE ~(at \in {"warmup", "layers"} /\ step < Len(BlockForward)) /\ at = "logits"
      <3>1. step + 1 \in 1..Len(compute_logits)
        BY <2>2, ThreeKernels DEF IInv
      <3> QED BY <1>1, <2>2, <3>1, LogitsInside, ElementOfSeq DEF Running
    <2>3. CASE ~(at \in {"warmup", "layers"} /\ step < Len(BlockForward)) /\ at # "logits"
      BY <2>3 DEF Running, Kernel, Inside
    <2> QED BY <2>1, <2>2, <2>3
  <1>3. \A a \in Places : a[2] \in 0..Sizes[a[1]] - 1
    BY DEF Places
  <1> QED BY <1>2, <1>3 DEF Inside

(* Every kernel of every layer and of compute_logits reads and writes only  *)
(* elements its buffers have, for every model whose weights are floats of   *)
(* four bytes and whose head counts are small enough that no 32-bit product *)
(* with them and no 64-bit count of a weight's bytes wraps: any number of   *)
(* heads, of heads of keys and values and of features, even or uneven, and  *)
(* any width of a register.  What the kernels of tensor.cpp:249-392, called *)
(* from attention.cpp:51-130, mlp.cpp:39-60 and transformer_block.cpp:41-84, *)
(* need for their raw pointers to be right.                                 *)
THEOREM DecoderAccessesInside == Spec => []AccessesInside
  <1>1. Spec => []IInv
    BY DecoderInit, DecoderNext, PTL DEF Spec
  <1> QED BY <1>1, DecoderInside, PTL

-----------------------------------------------------------------------------
(* The sampler: its filters, whatever the distribution is. *)

\* The settings of a request and what Softmax makes of the logits.
SamplerTyped ==
    /\ logits_ \in [Token -> 0..One] /\ softmaxed \in [Token -> 0..One]
    /\ top_k \in 0..NVocab + 1 /\ top_p \in 0..One

LEMMA TokensFinite ==
    /\ IsFiniteSet(Token) /\ Cardinality(Token) = NVocab /\ Token \subseteq Nat
    /\ Token # {}
  <1>1. NVocab \in Nat \ {0} /\ 0 \in Int /\ NVocab - 1 \in Int
    BY SamplerAssumption
  <1>2. IsFiniteSet(0..NVocab - 1) /\ Cardinality(0..NVocab - 1) = NVocab
    BY <1>1, FS_Interval
  <1> QED BY <1>1, <1>2 DEF Token

\* The likelihoods are numbers, and a mass is what FiniteSums knows of.
LEMMA MassTyped ==
    ASSUME SamplerTyped, NEW S \in SUBSET Token
    PROVE  /\ IsFiniteSet(S)
           /\ \A i \in S : logits_[i] \in Nat /\ softmaxed[i] \in Nat
           /\ Mass(logits_, S) \in Nat /\ Mass(softmaxed, S) \in Nat
           /\ \A T \in SUBSET S :
                /\ Mass(logits_, T) <= Mass(logits_, S)
                /\ Mass(softmaxed, T) <= Mass(softmaxed, S)
  <1>1. IsFiniteSet(S)
    BY TokensFinite, FS_Subset
  <1>2. \A i \in S : logits_[i] \in Nat /\ softmaxed[i] \in Nat
    BY SamplerAssumption DEF SamplerTyped
  <1> QED BY <1>1, <1>2, SumInNat, SumSubset DEF Mass

\* The tokens that are at least as likely as i, and those that are likelier.
AtLeast(i) == {j \in Token : logits_[j] >= logits_[i]}
Above(i) == {j \in Token : logits_[j] > logits_[i]}

\* A nonempty set of tokens has a least likely one.
LEMMA LeastLikely ==
    ASSUME SamplerTyped, NEW S \in SUBSET Token, S # {}
    PROVE  \E i \in S : \A j \in S : logits_[i] <= logits_[j]
  <1> DEFINE T == {logits_[i] : i \in S}
  <1>1. T \in SUBSET Nat /\ T # {}
    BY MassTyped
  <1>2. PICK n \in T : \A m \in T : n <= m
    BY <1>1, LeastNumber
  <1> QED BY <1>2

\* ... and a likeliest one.
LEMMA Likeliest ==
    ASSUME SamplerTyped, NEW S \in SUBSET Token, S # {}
    PROVE  \E i \in S : \A j \in S : logits_[j] <= logits_[i]
  <1> DEFINE T == {One - logits_[i] : i \in S}
  <1>1. T \in SUBSET Nat /\ T # {}
    BY SamplerAssumption DEF SamplerTyped
  <1>2. PICK n \in T : \A m \in T : n <= m
    BY <1>1, LeastNumber
  <1>3. PICK i \in S : n = One - logits_[i]
    BY <1>2
  <1>4. \A j \in S : One - logits_[i] <= One - logits_[j]
    BY <1>2, <1>3
  <1>5. \A j \in S : logits_[j] \in Int
    BY MassTyped
  <1> QED BY <1>4, <1>5, SamplerAssumption

\* The threshold is the least likelihood that top_k tokens reach, and it keeps
\* the tokens that fewer than top_k others are above.
LEMMA ThresholdIsRank ==
    ASSUME SamplerTyped, top_k \in 1..NVocab - 1, NEW i \in Token
    PROVE  logits_[i] >= Threshold <=> Cardinality(Above(i)) < top_k
  <1> DEFINE R == {j \in Token : Cardinality(AtLeast(j)) >= top_k}
             M == {logits_[j] : j \in R}
  <1>0. /\ \A j \in Token : logits_[j] \in Nat
        /\ \A j \in Token : /\ IsFiniteSet(AtLeast(j)) /\ Cardinality(AtLeast(j)) \in Nat
                            /\ IsFiniteSet(Above(j)) /\ Cardinality(Above(j)) \in Nat
    <2>1. \A j \in Token : AtLeast(j) \subseteq Token /\ Above(j) \subseteq Token
      BY DEF AtLeast, Above
    <2> QED BY <2>1, MassTyped, FS_CardinalityType
  <1>1. R # {}
    <2>1. PICK j \in Token : \A k \in Token : logits_[j] <= logits_[k]
      BY TokensFinite, LeastLikely
    <2>2. AtLeast(j) = Token
      BY <2>1, <1>0 DEF AtLeast
    <2>3. Cardinality(AtLeast(j)) >= top_k
      BY <2>2, TokensFinite, SamplerAssumption
    <2> QED BY <2>1, <2>3
  <1>2. PICK t \in R : \A j \in R : logits_[j] <= logits_[t]
    BY <1>1, Likeliest
  <1>3. Threshold = logits_[t]
    <2>1. Threshold = Max(M)
      BY DEF Threshold, AtLeast
    <2>2. logits_[t] \in M /\ \A y \in M : logits_[t] >= y
      <3>1. logits_[t] \in M
        BY <1>2
      <3>2. \A j \in R : logits_[t] >= logits_[j]
        BY <1>2, <1>0
      <3> QED BY <3>1, <3>2
    <2>3. \A x \in M : (\A y \in M : x >= y) => x = logits_[t]
      <3>1. M \subseteq Int
        BY <1>0
      <3> HIDE DEF M
      <3>2. SUFFICES ASSUME NEW x \in M, \A y \in M : x >= y PROVE x = logits_[t]
        OBVIOUS
      <3>3. x >= logits_[t] /\ logits_[t] >= x
        BY <2>2, <3>2
      <3>4. x \in Int /\ logits_[t] \in Int
        BY <2>2, <3>1
      <3> QED BY <3>3, <3>4
    <2>4. Max(M) = logits_[t]
      BY <2>2, <2>3 DEF Max
    <2> QED BY <2>1, <2>4
  <1>4. ASSUME logits_[i] >= logits_[t], Cardinality(Above(i)) >= top_k PROVE FALSE
    <2>1. Above(i) # {}
      BY <1>4, FS_EmptySet
    <2>2. PICK j \in Above(i) : \A k \in Above(i) : logits_[j] <= logits_[k]
      BY <2>1, LeastLikely DEF Above
    <2>3. j \in Token /\ logits_[j] > logits_[i]
      BY <2>2 DEF Above
    <2>4. Above(i) \subseteq AtLeast(j)
      BY <2>2, <1>0 DEF Above, AtLeast
    <2>5. Cardinality(Above(i)) <= Cardinality(AtLeast(j))
      BY <2>3, <2>4, <1>0, FS_Subset
    <2>6. j \in R
      BY <2>3, <2>5, <1>4, <1>0
    <2> QED BY <2>6, <2>3, <1>2, <1>4, <1>0
  <1>5. ASSUME logits_[i] < logits_[t] PROVE Cardinality(Above(i)) >= top_k
    <2>1. AtLeast(t) \subseteq Above(i)
      BY <1>5, <1>0 DEF AtLeast, Above
    <2>2. Cardinality(AtLeast(t)) <= Cardinality(Above(i))
      BY <2>1, <1>0, FS_Subset
    <2> QED BY <2>2, <1>2, <1>0
  <1> QED BY <1>3, <1>4, <1>5, <1>0, <1>2

\* Top-K is over: what is left are the likelihoods of the first by rank.
Filtered == logits_ = [i \in Token |-> IF i \in FromTopK THEN softmaxed[i] ELSE 0]

LEMMA TopKFilters ==
    ASSUME SamplerTyped, logits_ = softmaxed, TopK
    PROVE  /\ logits_' = [i \in Token |-> IF i \in FromTopK THEN softmaxed[i] ELSE 0]
           /\ top_k \in 1..NVocab - 1 =>
                \A i \in Token : logits_'[i] = IF Cardinality(Likelier(i)) < top_k
                                               THEN softmaxed[i] ELSE 0
  <1>1. \A i \in Token : Above(i) = Likelier(i)
    BY DEF Above, Likelier
  <1>2. ~(top_k > 0 /\ top_k < NVocab) <=> top_k \in {0} \cup NVocab..NVocab + 1
    BY SamplerAssumption DEF SamplerTyped
  <1>3. (top_k > 0 /\ top_k < NVocab) => top_k \in 1..NVocab - 1
    BY SamplerAssumption DEF SamplerTyped
  <1>4. CASE top_k > 0 /\ top_k < NVocab
    <2>1. \A i \in Token : logits_[i] >= Threshold <=> Cardinality(Likelier(i)) < top_k
      BY <1>1, <1>3, <1>4, ThresholdIsRank
    <2>2. FromTopK = {i \in Token : Cardinality(Likelier(i)) < top_k}
      BY <1>2, <1>4 DEF FromTopK
    <2>3. Keep({i \in Token : logits_[i] >= Threshold})
      BY <1>4 DEF TopK
    <2>4. {i \in Token : logits_[i] >= Threshold} = FromTopK
      BY <2>1, <2>2
    <2>5. logits_' = [i \in Token |-> IF i \in FromTopK THEN softmaxed[i] ELSE 0]
      BY <2>3, <2>4 DEF Keep
    <2> QED BY <2>5, <2>2
  <1>5. CASE ~(top_k > 0 /\ top_k < NVocab)
    <2>1. FromTopK = Token
      BY <1>2, <1>5 DEF FromTopK
    <2>2. Keep(Token)
      BY <1>5 DEF TopK
    <2>3. logits_' = [i \in Token |-> IF i \in FromTopK THEN softmaxed[i] ELSE 0]
      BY <2>1, <2>2 DEF Keep
    <2>4. top_k \notin 1..NVocab - 1
      BY <1>5, SamplerAssumption DEF SamplerTyped
    <2> QED BY <2>3, <2>4
  <1> QED BY <1>4, <1>5

\* The order that Ahead is of.
LEMMA AheadOrder ==
    ASSUME SamplerTyped, NEW i \in Token, NEW j \in Token
    PROVE  /\ Ahead(i) \subseteq Token /\ i \notin Ahead(i)
           /\ j \in Ahead(i) => Ahead(j) \subseteq Ahead(i)
           /\ i = j \/ i \in Ahead(j) \/ j \in Ahead(i)
           /\ j \in Ahead(i) <=> \/ logits_[j] > logits_[i]
                                 \/ logits_[j] = logits_[i] /\ j > i
  <1>1. \A k \in Token : logits_[k] \in Nat /\ k \in Nat
    BY MassTyped, TokensFinite
  <1> QED BY <1>1 DEF Ahead

\* If all the tokens reach top_p, those that Nucleus takes do.
LEMMA NucleusReaches ==
    ASSUME SamplerTyped, Mass(logits_, Token) >= top_p
    PROVE  Mass(logits_, Nucleus) >= top_p
  <1>1. SUFFICES ASSUME Mass(logits_, Nucleus) < top_p PROVE FALSE
    <2>1. Nucleus \in SUBSET Token
      BY DEF Nucleus
    <2>2. Mass(logits_, Nucleus) \in Nat /\ top_p \in Nat
      BY <2>1, MassTyped, SamplerAssumption DEF SamplerTyped
    <2> QED BY <2>2
  <1> DEFINE Out == {i \in Token : logits_[i] > 0} \ Nucleus
             fronts == {Ahead(i) : i \in Out}
  <1>0. /\ Nucleus \subseteq Token /\ Out \subseteq Token /\ IsFiniteSet(Token)
        /\ top_p \in Nat /\ \A i \in Token : logits_[i] \in Nat
    BY MassTyped, SamplerAssumption DEF Nucleus, SamplerTyped
  <1>2. CASE Out = {}
    <2>1. \A i \in Token \ Nucleus : logits_[i] = 0
      BY <1>2, <1>0
    <2>2. SumFunctionOnSet(logits_, Token \ Nucleus) = 0
      BY <2>1, <1>0, MassTyped, SumZeros
    <2>3. Nucleus \cup (Token \ Nucleus) = Token
      BY <1>0
    <2>4. Mass(logits_, Token) = Mass(logits_, Nucleus) + 0
      <3>1. IsFiniteSet(Nucleus) /\ IsFiniteSet(Token \ Nucleus)
        BY <1>0, FS_Subset
      <3>2. \A i \in Nucleus \cup (Token \ Nucleus) : logits_[i] \in Nat
        BY <2>3, <1>0
      <3>3. SumFunctionOnSet(logits_, Nucleus \cup (Token \ Nucleus))
              = SumFunctionOnSet(logits_, Nucleus) + SumFunctionOnSet(logits_, Token \ Nucleus)
        BY <3>1, <3>2, SumUnion
      <3> QED BY <3>3, <2>2, <2>3 DEF Mass
    <2>5. Mass(logits_, Nucleus) \in Nat
      BY <1>0, MassTyped
    <2> QED BY <2>4, <2>5, <1>1, <1>0
  <1>3. CASE Out # {}
    <2>1. fronts \subseteq SUBSET Token /\ fronts # {}
      BY <1>3, <1>0, AheadOrder
    <2> HIDE DEF fronts
    <2>2. PICK front \in fronts : \A other \in fronts : other \subseteq front => other = front
      BY <2>1, <1>0, MinimalSubset
    <2>3. PICK i \in Out : front = Ahead(i)
      BY <2>2 DEF fronts
    <2>4. Ahead(i) \subseteq Nucleus
      <3>1. SUFFICES ASSUME NEW j \in Ahead(i), j \notin Nucleus PROVE FALSE
        OBVIOUS
      <3>2. j \in Token
        BY <1>0, AheadOrder
      <3>3. logits_[j] >= logits_[i] /\ logits_[i] > 0
        BY <3>2, <1>0, AheadOrder
      <3>4. j \in Out
        BY <3>1, <3>2, <3>3, <1>0
      <3>5. Ahead(j) \in fronts /\ Ahead(j) \subseteq Ahead(i)
        BY <3>2, <3>4, <1>0, AheadOrder DEF fronts
      <3>6. Ahead(j) = Ahead(i)
        BY <3>5, <2>2, <2>3
      <3> QED BY <3>6, <3>2, AheadOrder
    <2>5. Mass(logits_, Ahead(i)) <= Mass(logits_, Nucleus)
      BY <2>4, <1>0, MassTyped
    <2>6. Mass(logits_, Ahead(i)) \in Nat /\ Mass(logits_, Nucleus) \in Nat
      BY <2>4, <1>0, MassTyped
    <2>7. Mass(logits_, Ahead(i)) < top_p
      BY <2>5, <2>6, <1>0, <1>1
    <2>8. i \in Nucleus
      BY <2>7, <1>0 DEF Nucleus
    <2> QED BY <2>8
  <1> QED BY <1>2, <1>3

\* What Nucleus takes is no less likely than what it leaves.
LEMMA NucleusIsLikeliest ==
    ASSUME SamplerTyped, NEW i \in Nucleus, NEW j \in Token \ Nucleus
    PROVE  logits_[i] >= logits_[j]
  <1>0. /\ i \in Token /\ logits_[i] \in Nat /\ logits_[j] \in Nat /\ top_p \in Nat
        /\ logits_[i] > 0 /\ Mass(logits_, Token) >= top_p
        /\ Mass(logits_, Ahead(i)) < top_p \/ Ahead(i) = {}
    BY MassTyped, SamplerAssumption DEF Nucleus, SamplerTyped
  <1>1. SUFFICES ASSUME logits_[i] < logits_[j] PROVE FALSE
    BY <1>0
  <1>2. j \in Ahead(i) /\ Ahead(j) \subseteq Ahead(i) /\ Ahead(i) \subseteq Token
    BY <1>0, <1>1, AheadOrder
  <1>3. /\ Mass(logits_, Ahead(j)) <= Mass(logits_, Ahead(i))
        /\ Mass(logits_, Ahead(j)) \in Nat /\ Mass(logits_, Ahead(i)) \in Nat
    BY <1>2, MassTyped
  <1>4. Mass(logits_, Ahead(j)) < top_p
    BY <1>0, <1>2, <1>3
  <1>5. j \in Nucleus
    BY <1>0, <1>1, <1>4 DEF Nucleus
  <1> QED BY <1>5

\* Without the last of them, those that Nucleus takes fall short of top_p.
LEMMA NucleusIsMinimal ==
    ASSUME SamplerTyped, top_p > 0, Nucleus # {}
    PROVE  \E i \in Nucleus : Mass(logits_, Nucleus \ {i}) < top_p
  <1> DEFINE rests == {Token \ Ahead(i) : i \in Nucleus}
  <1>0. Nucleus \subseteq Token /\ IsFiniteSet(Token) /\ top_p \in Nat
    BY MassTyped, SamplerAssumption DEF Nucleus, SamplerTyped
  <1>1. rests \subseteq SUBSET Token /\ rests # {}
    OBVIOUS
  <1> HIDE DEF rests
  <1>2. PICK rest \in rests : \A other \in rests : other \subseteq rest => other = rest
    BY <1>0, <1>1, MinimalSubset
  <1>3. PICK i \in Nucleus : rest = Token \ Ahead(i)
    BY <1>2 DEF rests
  <1>4. Nucleus \ {i} \subseteq Ahead(i)
    <2>1. SUFFICES ASSUME NEW j \in Nucleus, j # i, j \notin Ahead(i) PROVE FALSE
      OBVIOUS
    <2>2. i \in Ahead(j) /\ Ahead(i) \subseteq Ahead(j)
      BY <2>1, <1>0, AheadOrder
    <2>3. Token \ Ahead(j) \in rests /\ Token \ Ahead(j) \subseteq rest
      BY <2>2, <1>3 DEF rests
    <2>4. Token \ Ahead(j) = Token \ Ahead(i)
      BY <2>3, <1>2, <1>3
    <2>5. i \in Token \ Ahead(i) /\ i \notin Token \ Ahead(j)
      BY <1>0, <2>2, AheadOrder
    <2> QED BY <2>4, <2>5
  <1>5. Mass(logits_, Ahead(i)) < top_p \/ Ahead(i) = {}
    BY DEF Nucleus
  <1>6. CASE Ahead(i) = {}
    <2>1. Nucleus \ {i} = {}
      BY <1>4, <1>6
    <2> QED BY <2>1, SumEmpty DEF Mass
  <1>7. CASE Mass(logits_, Ahead(i)) < top_p
    <2>1. Ahead(i) \subseteq Token
      BY <1>0, AheadOrder
    <2>2. /\ Mass(logits_, Nucleus \ {i}) <= Mass(logits_, Ahead(i))
          /\ Mass(logits_, Nucleus \ {i}) \in Nat /\ Mass(logits_, Ahead(i)) \in Nat
      BY <1>0, <1>4, <2>1, MassTyped
    <2> QED BY <2>2, <1>7, <1>0
  <1> QED BY <1>5, <1>6, <1>7

\* What TopP keeps is the smallest nucleus of what TopK left.
LEMMA TopPIsSmallest ==
    ASSUME SamplerTyped, Filtered, top_p \in 1..One - 1,
           Mass(softmaxed, FromTopK) >= top_p
    PROVE  /\ Mass(softmaxed, Nucleus) >= top_p
           /\ \A i \in Nucleus : \A j \in FromTopK \ Nucleus : softmaxed[i] >= softmaxed[j]
           /\ \E i \in Nucleus : Mass(softmaxed, Nucleus \ {i}) < top_p
  <1>0. /\ Nucleus \subseteq Token /\ FromTopK \subseteq Token
        /\ top_p \in Nat /\ top_p > 0
    BY SamplerAssumption DEF Nucleus, FromTopK
  <1>1. \A i \in FromTopK : logits_[i] = softmaxed[i]
    BY <1>0 DEF Filtered
  <1>2. Nucleus \subseteq FromTopK
    BY <1>0 DEF Nucleus, Filtered
  <1>3. \A S \in SUBSET FromTopK : Mass(logits_, S) = Mass(softmaxed, S)
    <2>1. SUFFICES ASSUME NEW S \in SUBSET FromTopK
                   PROVE  Mass(logits_, S) = Mass(softmaxed, S)
      OBVIOUS
    <2>2. IsFiniteSet(S) /\ \A i \in S : logits_[i] = softmaxed[i]
      BY <1>0, <1>1, TokensFinite, FS_Subset
    <2> QED BY <2>2, SumSame DEF Mass
  <1>4. Mass(logits_, Token) >= top_p
    <2>1. /\ Mass(logits_, FromTopK) = Mass(softmaxed, FromTopK)
          /\ Mass(logits_, FromTopK) <= Mass(logits_, Token)
          /\ Mass(logits_, FromTopK) \in Nat /\ Mass(logits_, Token) \in Nat
      BY <1>0, <1>3, MassTyped
    <2> QED BY <2>1, <1>0
  <1>5. Mass(logits_, Nucleus) >= top_p
    BY <1>4, NucleusReaches
  <1>6. Nucleus # {}
    <2>1. Mass(logits_, {}) = 0
      BY SumEmpty DEF Mass
    <2> QED BY <2>1, <1>5, <1>0
  <1>7. \A i \in Nucleus : \A j \in FromTopK \ Nucleus : softmaxed[i] >= softmaxed[j]
    BY <1>0, <1>1, <1>2, NucleusIsLikeliest
  <1>8. PICK i \in Nucleus : Mass(logits_, Nucleus \ {i}) < top_p
    BY <1>0, <1>6, NucleusIsMinimal
  <1>9. Mass(softmaxed, Nucleus \ {i}) < top_p
    BY <1>2, <1>3, <1>8
  <1> QED BY <1>2, <1>3, <1>5, <1>7, <1>9

\* A sum of nothing reaches no positive r, the sum of everything every r.
LEMMA ReachesAll ==
    ASSUME SamplerTyped, Kept # {}, NEW r \in 1..One - 1
    PROVE  /\ Mass(logits_, Token) \in Nat \ {0}
           /\ Reaches(NVocab - 1, r)
           /\ \A n \in Int : Reaches(n, r) => Mass(logits_, 0..n) # 0
  <1> DEFINE sum == Mass(logits_, Token)
  <1>0. One \in Nat /\ r \in Nat /\ r > 0 /\ r <= One /\ One - r \in Nat
    BY SamplerAssumption
  <1>1. sum \in Nat \ {0}
    <2>1. PICK i \in Token : logits_[i] > 0
      BY DEF Kept
    <2>2. sum = logits_[i] + Mass(logits_, Token \ {i})
      BY <2>1, MassTyped, SumElement DEF Mass
    <2>3. Mass(logits_, Token \ {i}) \in Nat /\ logits_[i] \in Nat
      BY MassTyped
    <2> QED BY <2>1, <2>2, <2>3
  <1> HIDE DEF sum
  <1>2. Reaches(NVocab - 1, r) <=> sum * One >= r * sum
    BY <1>1 DEF Reaches, Token, sum
  <1>3. sum * One >= r * sum
    <2>1. (One - r) * sum \in Nat /\ One * sum = r * sum + (One - r) * sum
      BY <1>0, <1>1
    <2>2. r * sum \in Nat /\ sum * One = One * sum
      BY <1>0, <1>1
    <2> QED BY <2>1, <2>2
  <1>4. ASSUME NEW n \in Int, Reaches(n, r), Mass(logits_, 0..n) = 0
        PROVE  FALSE
    <2>1. 0 * One >= r * sum
      BY <1>1, <1>4 DEF Reaches, sum
    <2>2. (r - 1) * sum \in Nat /\ r * sum = sum + (r - 1) * sum
      BY <1>0, <1>1
    <2> QED BY <2>1, <2>2, <1>0, <1>1
  <1> QED BY <1>1, <1>2, <1>3, <1>4 DEF sum

LEMMA DrawnIsKept == SamplerTyped => DrawsKeptTokens
  <1> SUFFICES ASSUME SamplerTyped, Kept # {}, NEW r \in 1..One - 1
               PROVE  Drawn(r) \in Kept
    BY DEF DrawsKeptTokens
  <1> DEFINE T == {i \in Token : Reaches(i, r)}
  <1>0. NVocab - 1 \in Token /\ \A i \in Token : logits_[i] \in Nat /\ i \in Nat
    BY SamplerAssumption, MassTyped, TokensFinite DEF Token
  <1>1. T \in SUBSET Nat /\ NVocab - 1 \in T
    BY <1>0, ReachesAll
  <1>2. PICK m \in T : \A n \in T : m <= n
    BY <1>1, LeastNumber
  <1>3. Drawn(r) = m
    <2>1. Drawn(r) = Min(T)
      BY <1>1 DEF Drawn
    <2> HIDE DEF T
    <2>2. \A x \in T : (\A y \in T : x <= y) => x = m
      <3>1. SUFFICES ASSUME NEW x \in T, \A y \in T : x <= y PROVE x = m
        OBVIOUS
      <3>2. x <= m /\ m <= x /\ x \in Nat /\ m \in Nat
        BY <3>1, <1>1, <1>2
      <3> QED BY <3>2
    <2>3. Min(T) = m
      BY <1>2, <2>2 DEF Min
    <2> QED BY <2>1, <2>3
  <1>4. m \in Token /\ m \in Nat /\ Reaches(m, r) /\ logits_[m] \in Nat
    BY <1>0, <1>2
  <1>5. ASSUME logits_[m] = 0 PROVE FALSE
    <2>1. /\ 0..m - 1 \subseteq Token /\ m \notin 0..m - 1
          /\ 0..m = (0..m - 1) \cup {m}
      BY <1>4, SamplerAssumption DEF Token
    <2>2. IsFiniteSet(0..m - 1) /\ \A i \in (0..m - 1) \cup {m} : logits_[i] \in Nat
      BY <2>1, <1>0, <1>4, TokensFinite, FS_Subset
    <2>3. Mass(logits_, 0..m) = logits_[m] + Mass(logits_, 0..m - 1)
      BY <2>1, <2>2, SumAdd DEF Mass
    <2>4. Mass(logits_, 0..m) = Mass(logits_, 0..m - 1)
      BY <2>3, <1>5, <2>1, MassTyped
    <2>5. Reaches(m - 1, r)
      BY <2>4, <1>4 DEF Reaches
    <2>6. CASE m = 0
      <3>1. 0..m - 1 = {}
        BY <2>6
      <3>2. Mass(logits_, 0..m) = 0
        BY <3>1, <2>4, SumEmpty DEF Mass
      <3> QED BY <3>2, <1>4, ReachesAll
    <2>7. CASE m > 0
      <3>1. m - 1 \in Token
        BY <2>7, <1>4, SamplerAssumption DEF Token
      <3>2. m - 1 \in T
        BY <3>1, <2>5
      <3> QED BY <3>2, <1>2, <1>4
    <2> QED BY <2>6, <2>7, <1>4
  <1> QED BY <1>3, <1>4, <1>5 DEF Kept

-----------------------------------------------------------------------------
(* The sampler as a part of the decoder. *)

SamplerInv ==
    /\ SamplerTyped
    /\ phase \in {"idle", "top_k", "top_p", "draw", "drawn"}
    /\ phase = "top_k" => logits_ = softmaxed
    /\ phase = "top_p" => Filtered
    /\ TopKIsByRank
    /\ NucleusIsSmallest

LEMMA SamplerInitial == Init => SamplerInv
  BY SamplerAssumption DEF Init, SamplerInit, SamplerInv, SamplerTyped, Nothing, Token,
     TopKIsByRank, NucleusIsSmallest

LEMMA SamplerKeeps == ASSUME SamplerInv, UNCHANGED samplerVars PROVE SamplerInv'
  BY DEF samplerVars, SamplerInv, SamplerTyped, Filtered, FromTopK, Likelier,
     TopKIsByRank, NucleusIsSmallest, Kept, Mass

LEMMA SamplerStep ==
    ASSUME SamplerInv, SampleToken \/ SamplerReturns PROVE SamplerInv'
  <1>1. CASE Softmax
    BY <1>1 DEF Softmax, SamplerInv, SamplerTyped, TopKIsByRank, NucleusIsSmallest
  <1>2. CASE TopK
    <2>1. logits_ = softmaxed /\ SamplerTyped
      BY <1>2 DEF TopK, SamplerInv
    <2>2. UNCHANGED <<softmaxed, top_k, top_p>> /\ phase' = "top_p"
      BY <1>2 DEF TopK
    <2>3. /\ logits_' = [i \in Token |-> IF i \in FromTopK THEN softmaxed[i] ELSE 0]
          /\ top_k \in 1..NVocab - 1 =>
                \A i \in Token : logits_'[i] = IF Cardinality(Likelier(i)) < top_k
                                               THEN softmaxed[i] ELSE 0
      BY <1>2, <2>1, TopKFilters
    <2>4. SamplerTyped'
      BY <2>1, <2>2, <2>3, SamplerAssumption DEF SamplerTyped
    <2>5. Filtered'
      BY <2>2, <2>3 DEF Filtered, FromTopK, Likelier
    <2>6. TopKIsByRank'
      BY <2>2, <2>3 DEF TopKIsByRank, Likelier
    <2> QED BY <2>2, <2>4, <2>5, <2>6 DEF SamplerInv, NucleusIsSmallest
  <1>3. CASE TopP
    <2>1. Filtered /\ SamplerTyped
      BY <1>3 DEF TopP, SamplerInv
    <2>2. UNCHANGED <<softmaxed, top_k, top_p>> /\ phase' = "draw"
      BY <1>3 DEF TopP
    <2>3. SamplerTyped'
      BY <1>3, <2>1, <2>2, SamplerAssumption DEF TopP, Keep, SamplerTyped
    <2>4. NucleusIsSmallest'
      <3>1. SUFFICES ASSUME top_p \in 1..One - 1, Mass(softmaxed, FromTopK) >= top_p
                     PROVE  LET kept == {i \in Token : logits_'[i] > 0}
                            IN  /\ Mass(softmaxed, kept) >= top_p
                                /\ \A i \in kept : \A j \in FromTopK \ kept :
                                        softmaxed[i] >= softmaxed[j]
                                /\ \E i \in kept : Mass(softmaxed, kept \ {i}) < top_p
        BY <2>2 DEF NucleusIsSmallest, Kept, FromTopK, Likelier, Mass
      <3>2. logits_' = [i \in Token |-> IF i \in Nucleus THEN logits_[i] ELSE 0]
        BY <1>3, <3>1, SamplerAssumption DEF TopP, Keep
      <3>3. {i \in Token : logits_'[i] > 0} = Nucleus
        BY <3>2 DEF Nucleus
      <3> QED BY <2>1, <3>1, <3>3, TopPIsSmallest
    <2> QED BY <2>2, <2>3, <2>4 DEF SamplerInv, TopKIsByRank
  <1>4. CASE Draw
    BY <1>4 DEF Draw, SamplerInv, SamplerTyped, TopKIsByRank, NucleusIsSmallest
  <1>5. CASE SamplerReturns
    BY <1>5, SamplerAssumption DEF SamplerReturns, SamplerInv, SamplerTyped, Nothing,
       TopKIsByRank, NucleusIsSmallest
  <1> QED BY <1>1, <1>2, <1>3, <1>4, <1>5 DEF SampleToken

LEMMA SamplerNext == SamplerInv /\ [Next]_vars => SamplerInv'
  <1>1. [Next]_vars => UNCHANGED samplerVars \/ SampleToken \/ SamplerReturns
    BY DEF Next, vars, Initialize, Embed, TokenizeWord, RunKernel, EndWarmup, NextLayer,
       NextPromptToken, ComputeLogits, Sample, NextToken, samplerVars
  <1> QED BY <1>1, SamplerKeeps, SamplerStep

LEMMA SamplerInvariant == Spec => []SamplerInv
  BY SamplerInitial, SamplerNext, PTL DEF Spec

(* inference.cpp:130-147: whatever the distribution, Top-K by its threshold  *)
(* keeps the tokens that fewer than top_k are likelier than, ties included,  *)
(* with their likelihoods, and leaves nothing of the others.                 *)
THEOREM SamplerTopKIsByRank == Spec => []TopKIsByRank
  <1>1. SamplerInv => TopKIsByRank
    BY DEF SamplerInv
  <1> QED BY <1>1, SamplerInvariant, PTL

(* inference.cpp:149-178: whatever the distribution, what Top-P keeps of the *)
(* tokens that Top-K left reaches top_p if they do, is no less likely than   *)
(* what it drops, and falls short without one of its tokens.                 *)
THEOREM SamplerNucleusIsSmallest == Spec => []NucleusIsSmallest
  <1>1. SamplerInv => NucleusIsSmallest
    BY DEF SamplerInv
  <1> QED BY <1>1, SamplerInvariant, PTL

(* inference.cpp:189-195: with a random number above 0 the running sum       *)
(* reaches it, in exact arithmetic, and first at a token the filters kept,   *)
(* if they kept any.                                                         *)
THEOREM SamplerDrawsKeptTokens == Spec => []DrawsKeptTokens
  <1>1. SamplerInv => DrawsKeptTokens
    BY DrawnIsKept DEF SamplerInv
  <1> QED BY <1>1, SamplerInvariant, PTL

-----------------------------------------------------------------------------
(* Whole buffers: where registers and halves of heads divide the shape, a   *)
(* kernel writes all of a buffer or nothing of it.                          *)

\* What ReadsAreWhole assumes of the model.
Divided ==
    /\ ConfigTyped
    /\ n_head > 0 /\ config.n_ctx > 0 /\ HeadsFit
    /\ n_embd % Lanes = 0 /\ head_dim % 2 = 0

\* How many elements of a buffer a pass uses.
Used ==
       [hidden |-> n_embd, residual_buf_ |-> n_embd, norm_buf_ |-> n_embd,
        attn_out_buf_ |-> n_embd, mlp_out_buf_ |-> n_embd, o_buf_ |-> q_size,
        q_buf_ |-> q_size, k_buf_ |-> kv_size, v_buf_ |-> kv_size, slot_k |-> kv_size, slot_v |-> kv_size,
        gate_buf_ |-> n_ff, up_buf_ |-> n_ff, hidden_buf_ |-> n_ff, logits_ |-> n_vocab]

\* All that a pass uses of the buffers bs.
All(bs) == UNION {{b} \X (0..Used[b] - 1) : b \in bs}

\* The kernel reads what is in R, or weights, and writes all of W.
Fills(kernel, R, W) ==
    /\ \A a \in kernel.reads : a[1] \in Weights \/ a \in All(R)
    /\ kernel.writes = All(W)

LEMMA DividedShape ==
    ASSUME Divided
    PROVE  /\ n_embd \in Nat /\ n_head \in Nat \ {0} /\ n_ff \in Nat /\ n_vocab \in Nat
           /\ n_kv_head \in Nat \ {0} /\ head_dim \in Nat
           /\ q_size = n_head * head_dim /\ q_size \in Nat
           /\ kv_size = n_kv_head * head_dim /\ kv_size \in Nat
  BY ShapeTyped DEF Divided

LEMMA AllOne == \A b : All({b}) = {b} \X (0..Used[b] - 1)
  BY DEF All

LEMMA AllTwo == \A b, d : All({b, d}) = {b} \X (0..Used[b] - 1) \cup {d} \X (0..Used[d] - 1)
  BY DEF All

\* The loop over registers and the loop over the rest reach every element.
LEMMA ElementsAll ==
    ASSUME NEW n \in Nat
    PROVE  /\ Elements(n) = 0..n - 1
           /\ n % Lanes = 0 => Vectors(n) = 0..n - 1
  <1>1. n % Lanes \in 0..n
    BY TensorAssumption
  <1> QED BY <1>1 DEF Elements, Vectors, Rest

LEMMA MatVecFills ==
    ASSUME NEW A \in Weights, NEW x, NEW y, NEW M \in Nat, NEW N \in Nat,
           Used[x] = N, Used[y] = M
    PROVE  Fills(MatVec(A, x, y, M, N), {x}, {y})
  <1>1. Elements(N) = 0..N - 1
    BY ElementsAll
  <1> DEFINE rows == {i * N + j : i \in 0..M - 1, j \in Elements(N)}
  <1>2. \A a \in {A} \X rows : a[1] \in Weights
    OBVIOUS
  <1> HIDE DEF rows
  <1>3. {x} \X Elements(N) = All({x}) /\ {y} \X (0..M - 1) = All({y})
    BY <1>1, AllOne
  <1>4. MatVec(A, x, y, M, N) = [reads |-> {A} \X rows \cup {x} \X Elements(N),
                                 writes |-> {y} \X (0..M - 1)]
    BY DEF MatVec, Kernel, rows
  <1> QED BY <1>2, <1>3, <1>4 DEF Fills

LEMMA CopyFills ==
    ASSUME NEW x, NEW y, NEW n \in Nat, Used[x] = n, Used[y] = n
    PROVE  Fills(Copy(x, y, n), {x}, {y}) /\ Fills(SiLU(x, y, n), {x}, {y})
  <1>1. {x} \X (0..n - 1) = All({x}) /\ {y} \X (0..n - 1) = All({y})
    BY AllOne
  <1> QED BY <1>1 DEF Copy, SiLU, Kernel, Fills

LEMMA RMSNormFills ==
    ASSUME NEW x, NEW y, NEW n \in Nat, Used[x] = n, Used[y] = n
    PROVE  Fills(RMSNorm(x, y, n), {x}, {y})
  <1>1. {x} \X Elements(n) = All({x}) /\ {y} \X Elements(n) = All({y})
    BY AllOne, ElementsAll
  <1> QED BY <1>1 DEF RMSNorm, Kernel, Fills

LEMMA GateMulFills ==
    ASSUME NEW g, NEW u, NEW y, NEW n \in Nat, Used[g] = n, Used[u] = n, Used[y] = n
    PROVE  Fills(GateMul(g, u, y, n), {g, u}, {y})
  <1>1. {g, u} \X Elements(n) = All({g, u}) /\ {y} \X Elements(n) = All({y})
    <2> DEFINE all == 0..n - 1
    <2>1. Elements(n) = all /\ 0..Used[g] - 1 = all /\ 0..Used[u] - 1 = all
          /\ 0..Used[y] - 1 = all
      BY ElementsAll
    <2> HIDE DEF all
    <2>2. All({g, u}) = {g} \X all \cup {u} \X all
      <3> DEFINE part(b) == {b} \X (0..Used[b] - 1)
      <3>1. All({g, u}) = part(g) \cup part(u)
        BY DEF All
      <3>2. part(g) = {g} \X all /\ part(u) = {u} \X all
        BY <2>1
      <3> HIDE DEF part
      <3> QED BY <3>1, <3>2
    <2>3. {g, u} \X all = {g} \X all \cup {u} \X all
      OBVIOUS
    <2>4. All({y}) = {y} \X all
      BY <2>1, AllOne, Zenon
    <2> QED BY <2>1, <2>2, <2>3, <2>4
  <1> QED BY <1>1 DEF GateMul, Kernel, Fills

\* Element by element over whole registers: two buffers, or one and a weight.
LEMMA VectorsFill ==
    ASSUME NEW x, NEW y, NEW z, NEW n \in Nat, n % Lanes = 0,
           Used[x] = n, Used[z] = n, Used[y] = n \/ y \in Weights
    PROVE  Fills(Kernel({x, y} \X Vectors(n), {z} \X Vectors(n)), {x, y}, {z})
  <1>1. Vectors(n) = 0..n - 1
    BY ElementsAll
  <1>2. {z} \X Vectors(n) = All({z})
    BY <1>1, AllOne
  <1>3. ASSUME NEW a \in {x, y} \X Vectors(n) PROVE a[1] \in Weights \/ a \in All({x, y})
    <2>1. PICK b \in {x, y}, i \in 0..n - 1 : a = <<b, i>>
      BY <1>1, <1>3
    <2>2. CASE Used[b] = n
      <3>1. a \in {b} \X (0..Used[b] - 1)
        BY <2>1, <2>2
      <3> QED BY <2>1, <3>1 DEF All
    <2>3. CASE b \in Weights
      BY <2>1, <2>3
    <2> QED BY <2>1, <2>2, <2>3
  <1> QED BY <1>2, <1>3 DEF Kernel, Fills

\* Every element of h heads is an element of one of them.
LEMMA HeadsCover ==
    ASSUME NEW h \in Nat, NEW d \in Nat, NEW i \in 0..h * d - 1
    PROVE  \E k \in 0..h - 1 : \E j \in 0..d - 1 : i = k * d + j
  <1>0. h * d \in Nat /\ i \in Nat /\ i < h * d
    OBVIOUS
  <1>1. d # 0
    <2>1. h * 0 = 0
      OBVIOUS
    <2> QED BY <1>0, <2>1
  <1> DEFINE k == i \div d
             j == i % d
  <1>2. k \in Nat /\ j \in 0..d - 1 /\ i = k * d + j
    BY <1>0, <1>1
  <1> HIDE DEF k, j
  <1>3. ASSUME k >= h PROVE FALSE
    <2>1. (k - h) * d \in Nat /\ k * d = h * d + (k - h) * d
      BY <1>2, <1>3
    <2> QED BY <2>1, <1>0, <1>2
  <1>4. k \in 0..h - 1
    BY <1>2, <1>3
  <1> QED BY <1>2, <1>4

\* The two halves of every head are the head.
LEMMA RotatedAll ==
    ASSUME NEW heads \in Nat, NEW dim \in Nat, dim % 2 = 0
    PROVE  Rotated(heads, dim) = 0..heads * dim - 1
  <1>1. Rotated(heads, dim) \subseteq 0..heads * dim - 1
    BY RotatedInside
  <1>2. ASSUME NEW i \in 0..heads * dim - 1 PROVE i \in Rotated(heads, dim)
    <2>1. PICK h \in 0..heads - 1, d \in 0..dim - 1 : i = h * dim + d
      BY HeadsCover
    <2> DEFINE half == dim \div 2
    <2>2. half \in Nat /\ dim = half + half
      OBVIOUS
    <2> HIDE DEF half
    <2>3. h * dim \in Nat
      OBVIOUS
    <2>4. \E j \in 0..half - 1 : i \in {h * dim + j, h * dim + j + half}
      <3>1. CASE d < half
        <4>1. d \in 0..half - 1
          BY <2>2, <3>1
        <4> QED BY <2>1, <4>1
      <3>2. CASE d >= half
        <4>1. d - half \in 0..half - 1
          BY <2>2, <3>2
        <4>2. h * dim + (d - half) + half = i
          BY <2>1, <2>2, <2>3
        <4> QED BY <4>1, <4>2
      <3> QED BY <2>2, <3>1, <3>2
    <2> DEFINE pair(k, j) == {k * dim + j, k * dim + j + half}
    <2>5. PICK j \in 0..half - 1 : i \in pair(h, j)
      BY <2>4
    <2>6. Rotated(heads, dim) = UNION {pair(k, l) : k \in 0..heads - 1, l \in 0..half - 1}
      BY DEF Rotated, half
    <2> HIDE DEF pair
    <2>7. pair(h, j) \in {pair(k, l) : k \in 0..heads - 1, l \in 0..half - 1}
      OBVIOUS
    <2> QED BY <2>5, <2>6, <2>7
  <1> QED BY <1>1, <1>2

LEMMA RopeFills ==
    ASSUME NEW q, NEW k, NEW dim \in Nat, dim % 2 = 0, NEW heads \in Nat, NEW kv_heads \in Nat,
           Used[q] = heads * dim, Used[k] = kv_heads * dim
    PROVE  Fills(Rope(q, k, dim, heads, kv_heads), {q, k}, {q, k})
  <1>1. /\ {q} \X Rotated(heads, dim) = {q} \X (0..Used[q] - 1)
        /\ {k} \X Rotated(kv_heads, dim) = {k} \X (0..Used[k] - 1)
    BY RotatedAll
  <1> DEFINE both == {q} \X Rotated(heads, dim) \cup {k} \X Rotated(kv_heads, dim)
  <1>2. both = All({q, k})
    <2> DEFINE part(b) == {b} \X (0..Used[b] - 1)
    <2>1. All({q, k}) = part(q) \cup part(k)
      BY DEF All
    <2>2. part(q) = {q} \X Rotated(heads, dim) /\ part(k) = {k} \X Rotated(kv_heads, dim)
      BY <1>1
    <2> HIDE DEF part
    <2> QED BY <2>1, <2>2
  <1> HIDE DEF both
  <1>3. Rope(q, k, dim, heads, kv_heads) = [reads |-> both, writes |-> both]
    BY DEF Rope, Kernel, both
  <1> QED BY <1>2, <1>3 DEF Fills

LEMMA AttendFills ==
    ASSUME Divided
    PROVE  \E kernel : /\ Attend = <<kernel>>
                       /\ Fills(kernel, {"q_buf_", "slot_k", "slot_v"}, {"o_buf_"})
  <1> DEFINE head(h, dims) == {h * head_dim + d : d \in dims}
             heads(dims) == UNION {head(h, dims) : h \in 0..n_head - 1}
             kv_heads(dims) == UNION {head(KVHead(h), dims) : h \in 0..n_head - 1}
             all == 0..head_dim - 1
             q == 0..q_size - 1
             kv == 0..kv_size - 1
  <1>0. /\ n_head \in Nat \ {0} /\ n_kv_head \in Nat \ {0} /\ head_dim \in Nat
        /\ q_size = n_head * head_dim /\ kv_size = n_kv_head * head_dim /\ HeadsFit
    BY DividedShape DEF Divided
  <1>1. \A h \in 0..n_head - 1 : \A d \in all :
            /\ h * head_dim + d \in q
            /\ KVHead(h) * head_dim + d \in kv
    BY <1>0, RowMajor, KVHeadExists
  <1>2. Elements(head_dim) = all
    BY DividedShape, ElementsAll
  <1>3. heads(all) = q
    <2>1. heads(all) \subseteq q
      BY <1>1
    <2>2. ASSUME NEW i \in q PROVE i \in heads(all)
      <3>1. n_head \in Nat /\ head_dim \in Nat /\ i \in 0..n_head * head_dim - 1
        BY <1>0
      <3>2. \E h \in 0..n_head - 1 : \E d \in 0..head_dim - 1 : i = h * head_dim + d
        BY <3>1, HeadsCover, Zenon
      <3>3. PICK h \in 0..n_head - 1, d \in all : i = h * head_dim + d
        BY <3>2
      <3> QED BY <3>3
    <2> QED BY <2>1, <2>2
  <1>4. kv_heads(all) \subseteq kv
    BY <1>1
  <1>5. /\ 0..Used["q_buf_"] - 1 = q /\ 0..Used["o_buf_"] - 1 = q
        /\ 0..Used["slot_k"] - 1 = kv /\ 0..Used["slot_v"] - 1 = kv
    BY DEF Used
  <1> DEFINE reads == {"q_buf_"} \X heads(Elements(head_dim))
                        \cup {"slot_k"} \X kv_heads(Elements(head_dim))
                        \cup {"slot_v"} \X kv_heads(all)
             writes == {"o_buf_"} \X heads(all)
  <1>6. Attend = <<Kernel(reads, writes)>>
    BY AttendPlain DEF Divided
  <1> HIDE DEF heads, kv_heads, all, q, kv
  <1>7. writes = All({"o_buf_"})
    BY <1>3, <1>5, AllOne
  <1>8. reads \subseteq All({"q_buf_", "slot_k", "slot_v"})
    <2>1. /\ {"q_buf_"} \X q \subseteq All({"q_buf_", "slot_k", "slot_v"})
          /\ {"slot_k"} \X kv \subseteq All({"q_buf_", "slot_k", "slot_v"})
          /\ {"slot_v"} \X kv \subseteq All({"q_buf_", "slot_k", "slot_v"})
      BY <1>5 DEF All
    <2>2. reads \subseteq {"q_buf_"} \X q \cup {"slot_k"} \X kv \cup {"slot_v"} \X kv
      BY <1>2, <1>3, <1>4
    <2> HIDE DEF reads
    <2> QED BY <2>1, <2>2
  <1> HIDE DEF reads, writes
  <1>9. Fills(Kernel(reads, writes), {"q_buf_", "slot_k", "slot_v"}, {"o_buf_"})
    BY <1>7, <1>8 DEF Fills, Kernel
  <1> QED BY <1>6, <1>9

-----------------------------------------------------------------------------
(* What has been filled while the kernels of a sequence run.                *)

\* f[i] are the buffers that are whole after i kernels, when those in L were.
FlowsBy(s, L, f) ==
    /\ f[0] = L
    /\ \A i \in 0..Len(s) : L \subseteq f[i]
    /\ \A i \in 1..Len(s) : \E W : Fills(s[i], f[i - 1], W) /\ f[i] = f[i - 1] \cup W

\* If the buffers in R are whole, no kernel reads what is not, and in the end
\* those in W are whole, too.
Flows(s, R, W) ==
    /\ \E S : s \in Seq(S)
    /\ \A L : R \subseteq L => \E f : FlowsBy(s, L, f) /\ f[Len(s)] = L \cup W

LEMMA FillsMore ==
    ASSUME NEW kernel, NEW R, NEW W, Fills(kernel, R, W), NEW L, R \subseteq L
    PROVE  Fills(kernel, L, W)
  BY DEF Fills, All

LEMMA FlowsOne ==
    ASSUME NEW kernel, NEW R, NEW W, Fills(kernel, R, W)
    PROVE  Flows(<<kernel>>, R, W)
  <1>1. <<kernel>> \in Seq({kernel}) /\ Len(<<kernel>>) = 1 /\ <<kernel>>[1] = kernel
    OBVIOUS
  <1>2. ASSUME NEW L, R \subseteq L
        PROVE  \E f : FlowsBy(<<kernel>>, L, f) /\ f[1] = L \cup W
    <2> DEFINE f == [i \in 0..1 |-> IF i = 0 THEN L ELSE L \cup W]
    <2>1. f[0] = L /\ f[1] = L \cup W
      OBVIOUS
    <2> HIDE DEF f
    <2>2. Fills(<<kernel>>[1], f[0], W)
      BY <1>1, <1>2, <2>1, FillsMore
    <2>3. \A i \in 0..1 : L \subseteq f[i]
      BY <2>1
    <2>4. \A i \in 1..1 : \E V : Fills(<<kernel>>[i], f[i - 1], V) /\ f[i] = f[i - 1] \cup V
      BY <2>1, <2>2
    <2>5. FlowsBy(<<kernel>>, L, f)
      BY <1>1, <2>1, <2>3, <2>4 DEF FlowsBy
    <2> QED BY <2>1, <2>5
  <1> QED BY <1>1, <1>2 DEF Flows

LEMMA FlowsConcat ==
    ASSUME NEW s, NEW t, NEW R, NEW W, NEW Q, NEW V,
           Flows(s, R, W), Flows(t, Q, V), Q \subseteq R \cup W
    PROVE  Flows(s \o t, R, W \cup V)
  <1>1. PICK S1 : s \in Seq(S1)
    BY DEF Flows
  <1>2. PICK S2 : t \in Seq(S2)
    BY DEF Flows
  <1>3. s \in Seq(S1 \cup S2) /\ t \in Seq(S1 \cup S2)
    BY <1>1, <1>2
  <1> DEFINE n == Len(s)
             m == Len(t)
             u == s \o t
  <1>4. /\ u \in Seq(S1 \cup S2) /\ n \in Nat /\ m \in Nat /\ Len(u) = n + m
        /\ \A i \in 1..n : u[i] = s[i]
        /\ \A i \in n + 1..n + m : u[i] = t[i - n]
    BY <1>3
  <1> HIDE DEF n, m, u
  <1>5. ASSUME NEW L, R \subseteq L
        PROVE  \E f : FlowsBy(u, L, f) /\ f[n + m] = L \cup (W \cup V)
    <2>1. PICK f : FlowsBy(s, L, f) /\ f[n] = L \cup W
      BY <1>5 DEF Flows, n
    <2>2. Q \subseteq L \cup W
      BY <1>5
    <2>3. PICK g : FlowsBy(t, L \cup W, g) /\ g[m] = (L \cup W) \cup V
      BY <2>2 DEF Flows, m
    <2>4. /\ f[0] = L /\ \A i \in 0..n : L \subseteq f[i]
          /\ \A i \in 1..n : \E X : Fills(s[i], f[i - 1], X) /\ f[i] = f[i - 1] \cup X
      BY <2>1 DEF FlowsBy, n
    <2>5. /\ g[0] = L \cup W /\ \A i \in 0..m : L \cup W \subseteq g[i]
          /\ \A i \in 1..m : \E X : Fills(t[i], g[i - 1], X) /\ g[i] = g[i - 1] \cup X
      BY <2>3 DEF FlowsBy, m
    <2> DEFINE h == [i \in 0..n + m |-> IF i <= n THEN f[i] ELSE g[i - n]]
    <2>6. /\ \A i \in 0..n : h[i] = f[i]
          /\ \A i \in n..n + m : h[i] = g[i - n]
      <3>1. ASSUME NEW i \in 0..n PROVE h[i] = f[i]
        BY <1>4, <3>1
      <3>2. ASSUME NEW i \in n..n + m PROVE h[i] = g[i - n]
        <4>1. i \in 0..n + m
          BY <1>4
        <4>2. CASE i = n
          <5>1. i - n = 0 /\ h[i] = f[n]
            BY <1>4, <4>1, <4>2
          <5> HIDE DEF h
          <5> QED BY <5>1, <2>1, <2>5
        <4>3. CASE i # n
          <5>1. ~(i <= n)
            BY <1>4, <4>3
          <5> QED BY <4>1, <5>1
        <4> QED BY <4>2, <4>3
      <3> QED BY <3>1, <3>2
    <2> HIDE DEF h
    <2>7. h[0] = L
      BY <1>4, <2>4, <2>6
    <2>8. \A i \in 0..n + m : L \subseteq h[i]
      <3>1. SUFFICES ASSUME NEW i \in 0..n + m PROVE L \subseteq h[i]
        OBVIOUS
      <3>2. CASE i <= n
        <4>1. i \in 0..n
          BY <1>4, <3>2
        <4> QED BY <4>1, <2>4, <2>6
      <3>3. CASE i > n
        <4>1. h[i] = g[i - n] /\ i - n \in 0..m
          BY <1>4, <2>6, <3>3
        <4> QED BY <4>1, <2>5
      <3> QED BY <1>4, <3>2, <3>3
    <2>9. ASSUME NEW i \in 1..n + m
          PROVE  \E X : Fills(u[i], h[i - 1], X) /\ h[i] = h[i - 1] \cup X
      <3>1. CASE i <= n
        <4>1. u[i] = s[i] /\ h[i] = f[i] /\ h[i - 1] = f[i - 1] /\ i \in 1..n
          BY <1>4, <2>6, <3>1
        <4> QED BY <4>1, <2>4
      <3>2. CASE i > n
        <4>0. /\ i \in n + 1..n + m /\ i \in n..n + m /\ i - n \in 1..m
              /\ i - 1 \in n..n + m /\ (i - 1) - n = (i - n) - 1
          BY <1>4, <3>2
        <4>1. /\ u[i] = t[i - n] /\ h[i] = g[i - n] /\ i - n \in 1..m
              /\ i - 1 \in n..n + m /\ (i - 1) - n = (i - n) - 1
          BY <4>0, <1>4, <2>6
        <4>2. h[i - 1] = g[(i - n) - 1]
          BY <4>1, <2>6
        <4>3. PICK X : Fills(t[i - n], g[(i - n) - 1], X) /\ g[i - n] = g[(i - n) - 1] \cup X
          BY <4>1, <2>5
        <4> QED BY <4>1, <4>2, <4>3
      <3> QED BY <1>4, <3>1, <3>2
    <2>10. FlowsBy(u, L, h)
      BY <1>4, <2>7, <2>8, <2>9 DEF FlowsBy
    <2>11. h[n + m] = L \cup (W \cup V)
      <3>1. n + m \in n..n + m /\ (n + m) - n = m
        BY <1>4
      <3>2. h[n + m] = g[m]
        BY <3>1, <2>6
      <3> QED BY <3>2, <2>3
    <2> QED BY <2>10, <2>11
  <1> QED BY <1>4, <1>5 DEF Flows, u

\* Short sequences are put together from single kernels.
LEMMA TupleTwo == \A a, b : <<a, b>> = <<a>> \o <<b>>
  <1> TAKE a, b
  <1> DEFINE S == {a, b}
  <1>0. a \in S /\ b \in S
    OBVIOUS
  <1> HIDE DEF S
  <1>1. /\ <<a>> \o <<b>> \in Seq(S) /\ <<a, b>> \in Seq(S)
        /\ Len(<<a>> \o <<b>>) = 2 /\ Len(<<a, b>>) = 2
    BY <1>0
  <1>2. /\ (<<a>> \o <<b>>)[1] = a /\ (<<a>> \o <<b>>)[2] = b
        /\ <<a, b>>[1] = a /\ <<a, b>>[2] = b
    BY <1>0
  <1>3. \A i \in 1..2 : i = 1 \/ i = 2
    OBVIOUS
  <1> QED BY <1>1, <1>2, <1>3, SeqEqual

LEMMA TupleThree == \A a, b, d : <<a, b, d>> = <<a, b>> \o <<d>>
  <1> TAKE a, b, d
  <1> DEFINE S == {a, b, d}
             s == <<a, b>> \o <<d>>
  <1>0. a \in S /\ b \in S /\ d \in S
    OBVIOUS
  <1> HIDE DEF S
  <1>1. /\ s \in Seq(S) /\ <<a, b, d>> \in Seq(S)
        /\ Len(s) = 3 /\ Len(<<a, b, d>>) = 3
    BY <1>0
  <1>2. /\ s[1] = a /\ s[2] = b /\ s[3] = d
        /\ <<a, b, d>>[1] = a /\ <<a, b, d>>[2] = b /\ <<a, b, d>>[3] = d
    BY <1>0
  <1>3. \A i \in 1..3 : i = 1 \/ i = 2 \/ i = 3
    OBVIOUS
  <1> HIDE DEF s
  <1>4. s = <<a, b, d>>
    BY <1>1, <1>2, <1>3, SeqEqual
  <1> QED BY <1>4 DEF s

LEMMA TupleFive ==
    \A a, b, d, e, f : <<a, b, d, e, f>> = <<a, b, d>> \o (<<e>> \o <<f>>)
  <1> TAKE a, b, d, e, f
  <1> DEFINE S == {a, b, d, e, f}
             h == <<a, b, d>>
             t == <<e>> \o <<f>>
             s == h \o t
             v == <<a, b, d, e, f>>
  <1>0. a \in S /\ b \in S /\ d \in S /\ e \in S /\ f \in S
    OBVIOUS
  <1> HIDE DEF S
  <1>1. t \in Seq(S) /\ Len(t) = 2 /\ t[1] = e /\ t[2] = f
    BY <1>0
  <1>2. h \in Seq(S) /\ Len(h) = 3 /\ h[1] = a /\ h[2] = b /\ h[3] = d
    BY <1>0
  <1>3. /\ v \in Seq(S) /\ Len(v) = 5
        /\ v[1] = a /\ v[2] = b /\ v[3] = d /\ v[4] = e /\ v[5] = f
    BY <1>0
  <1> HIDE DEF h, t, v
  <1>4. /\ s \in Seq(S) /\ Len(s) = 5
        /\ s[1] = a /\ s[2] = b /\ s[3] = d /\ s[4] = e /\ s[5] = f
    <2>0. /\ s \in Seq(S) /\ Len(s) = Len(h) + Len(t)
          /\ \A i \in 1..Len(h) + Len(t) :
                s[i] = IF i <= Len(h) THEN h[i] ELSE t[i - Len(h)]
      BY <1>1, <1>2, ConcatProperties, Zenon
    <2> HIDE DEF s
    <2>1. s \in Seq(S) /\ Len(s) = 5
      BY <1>1, <1>2, <2>0
    <2>2. s[1] = h[1] /\ s[2] = h[2] /\ s[3] = h[3]
      BY <1>1, <1>2, <2>0
    <2>3. s[4] = t[1] /\ s[5] = t[2]
      <3>1. s[4] = t[4 - 3] /\ s[5] = t[5 - 3]
        BY <1>1, <1>2, <2>0
      <3> QED BY <3>1
    <2> QED BY <1>1, <1>2, <2>1, <2>2, <2>3
  <1>5. \A i \in 1..5 : i = 1 \/ i = 2 \/ i = 3 \/ i = 4 \/ i = 5
    OBVIOUS
  <1> HIDE DEF s
  <1>6. \A i \in 1..Len(v) : v[i] = s[i]
    BY <1>3, <1>4, <1>5
  <1>7. v = s
    BY <1>3, <1>4, <1>6, SeqEqual
  <1> QED BY <1>7 DEF s, t, h, v

-----------------------------------------------------------------------------
(* The parts of a layer. *)

LEMMA FlowsTwo ==
    ASSUME NEW a, NEW b, NEW R, NEW W, NEW Q, NEW V,
           Fills(a, R, W), Fills(b, Q, V), Q \subseteq R \cup W
    PROVE  Flows(<<a, b>>, R, W \cup V)
  <1>1. Flows(<<a>>, R, W) /\ Flows(<<b>>, Q, V)
    BY FlowsOne
  <1>2. Flows(<<a>> \o <<b>>, R, W \cup V)
    BY <1>1, FlowsConcat
  <1> QED BY <1>2, TupleTwo

LEMMA FlowsThree ==
    ASSUME NEW a, NEW b, NEW d, NEW R, NEW W, NEW Q, NEW V, NEW P, NEW U,
           Fills(a, R, W), Fills(b, Q, V), Fills(d, P, U),
           Q \subseteq R \cup W, P \subseteq R \cup (W \cup V)
    PROVE  Flows(<<a, b, d>>, R, (W \cup V) \cup U)
  <1>1. Flows(<<a, b>>, R, W \cup V) /\ Flows(<<d>>, P, U)
    BY FlowsOne, FlowsTwo
  <1>2. Flows(<<a, b>> \o <<d>>, R, (W \cup V) \cup U)
    BY <1>1, FlowsConcat
  <1> QED BY <1>2, TupleThree

\* The weights of a kernel over two buffers need not have been filled.
LEMMA WeightsStand ==
    ASSUME NEW kernel, NEW x, NEW w \in Weights, NEW W, Fills(kernel, {x, w}, W)
    PROVE  Fills(kernel, {x}, W)
  <1>1. \A a \in All({x, w}) : a[1] \in Weights \/ a \in All({x})
    <2> DEFINE range(b) == 0..Used[b] - 1
    <2>1. All({x, w}) = {x} \X range(x) \cup {w} \X range(w) /\ All({x}) = {x} \X range(x)
      BY AllOne, AllTwo, Zenon
    <2> HIDE DEF range
    <2>2. \A a \in {w} \X range(w) : a[1] \in Weights
      OBVIOUS
    <2> QED BY <2>1, <2>2
  <1> QED BY <1>1 DEF Fills

LEMMA CopyFlows ==
    ASSUME Divided
    PROVE  Flows(<<Copy("hidden", "residual_buf_", n_embd)>>, {"hidden"}, {"residual_buf_"})
  <1>1. Used["hidden"] = n_embd /\ Used["residual_buf_"] = n_embd /\ n_embd \in Nat
    BY DividedShape DEF Used
  <1>2. Fills(Copy("hidden", "residual_buf_", n_embd), {"hidden"}, {"residual_buf_"})
    BY <1>1, CopyFills
  <1> QED BY <1>2, FlowsOne

LEMMA NormFlows ==
    ASSUME Divided, NEW w \in Weights
    PROVE  Flows(rms_norm(w), {"hidden"}, {"norm_buf_"})
  <1> DEFINE a == RMSNorm("hidden", "norm_buf_", n_embd)
             b == Kernel({"norm_buf_", w} \X Vectors(n_embd), {"norm_buf_"} \X Vectors(n_embd))
  <1>1. /\ Used["hidden"] = n_embd /\ Used["norm_buf_"] = n_embd /\ n_embd \in Nat
        /\ n_embd % Lanes = 0
    BY DividedShape DEF Used, Divided
  <1>2. Fills(a, {"hidden"}, {"norm_buf_"})
    BY <1>1, RMSNormFills
  <1>3. Fills(b, {"norm_buf_", w}, {"norm_buf_"})
    BY <1>1, VectorsFill
  <1>4. rms_norm(w) = <<a, b>>
    BY DEF rms_norm
  <1> HIDE DEF a, b
  <1>5. Fills(b, {"norm_buf_"}, {"norm_buf_"})
    BY <1>3, WeightsStand
  <1>6. Flows(<<a, b>>, {"hidden"}, {"norm_buf_"} \cup {"norm_buf_"})
    BY <1>2, <1>5, FlowsTwo
  <1> QED BY <1>4, <1>6

LEMMA ResidualFlows ==
    ASSUME Divided, NEW x \in {"attn_out_buf_", "mlp_out_buf_"}
    PROVE  Flows(AddResidual(x), {"residual_buf_", x}, {"hidden"})
  <1> DEFINE a == Kernel({"residual_buf_", x} \X Vectors(n_embd),
                         {"hidden"} \X Vectors(n_embd))
  <1>1. /\ Used["hidden"] = n_embd /\ Used["residual_buf_"] = n_embd /\ Used[x] = n_embd
        /\ n_embd \in Nat /\ n_embd % Lanes = 0
    BY DividedShape DEF Used, Divided
  <1>2. Fills(a, {"residual_buf_", x}, {"hidden"})
    BY <1>1, VectorsFill
  <1>3. AddResidual(x) = <<a>>
    BY DEF AddResidual
  <1> HIDE DEF a
  <1> QED BY <1>2, <1>3, FlowsOne

LEMMA AttentionFlows ==
    ASSUME Divided
    PROVE  \E W : /\ "attn_out_buf_" \in W
                  /\ Flows(Attention("norm_buf_", "attn_out_buf_"), {"norm_buf_"}, W)
  <1> DEFINE x == "norm_buf_"
             y == "attn_out_buf_"
             q == q_size
             kv == kv_size
  <1>1. /\ n_embd \in Nat /\ q \in Nat /\ kv \in Nat /\ head_dim \in Nat /\ head_dim % 2 = 0
        /\ n_head \in Nat /\ n_kv_head \in Nat
        /\ q = n_head * head_dim /\ kv = n_kv_head * head_dim
    BY DividedShape DEF Divided
  <1>2. /\ Used[x] = n_embd /\ Used[y] = n_embd /\ Used["o_buf_"] = q
        /\ Used["q_buf_"] = q /\ Used["k_buf_"] = kv /\ Used["v_buf_"] = kv
        /\ Used["slot_k"] = kv /\ Used["slot_v"] = kv
    BY DEF Used
  <1>3. Flows(compute_qkv(x), {x}, ({"q_buf_"} \cup {"k_buf_"}) \cup {"v_buf_"})
    <2> DEFINE a == MatVec("q_weight_", x, "q_buf_", q, n_embd)
               b == MatVec("k_weight_", x, "k_buf_", kv, n_embd)
               d == MatVec("v_weight_", x, "v_buf_", kv, n_embd)
    <2>1. "q_weight_" \in Weights /\ "k_weight_" \in Weights /\ "v_weight_" \in Weights
      BY DEF Weights
    <2>2. Fills(a, {x}, {"q_buf_"}) /\ Fills(b, {x}, {"k_buf_"}) /\ Fills(d, {x}, {"v_buf_"})
      BY <1>1, <1>2, <2>1, MatVecFills
    <2>3. compute_qkv(x) = <<a, b, d>>
      BY DEF compute_qkv
    <2> HIDE DEF a, b, d
    <2> QED BY <2>2, <2>3, FlowsThree
  <1>4. Flows(apply_rope, {"q_buf_", "k_buf_"}, {"q_buf_", "k_buf_"})
    <2> DEFINE a == Rope("q_buf_", "k_buf_", head_dim, n_head, n_kv_head)
    <2>1. Fills(a, {"q_buf_", "k_buf_"}, {"q_buf_", "k_buf_"})
      BY <1>1, <1>2, RopeFills
    <2>2. apply_rope = <<a>>
      BY DEF apply_rope
    <2> HIDE DEF a
    <2> QED BY <2>1, <2>2, FlowsOne
  <1>5. Flows(StoreKV, {"k_buf_", "v_buf_"}, {"slot_k"} \cup {"slot_v"})
    <2> DEFINE a == Copy("k_buf_", "slot_k", kv)
               b == Copy("v_buf_", "slot_v", kv)
    <2>1. Fills(a, {"k_buf_"}, {"slot_k"}) /\ Fills(b, {"v_buf_"}, {"slot_v"})
      BY <1>1, <1>2, CopyFills
    <2>2. StoreKV = <<a, b>>
      BY DEF StoreKV, Divided
    <2> HIDE DEF a, b
    <2>3. /\ Fills(a, {"k_buf_", "v_buf_"}, {"slot_k"})
          /\ Fills(b, {"v_buf_"}, {"slot_v"})
      BY <2>1, FillsMore
    <2> QED BY <2>2, <2>3, FlowsTwo
  <1>6. Flows(Attend, {"q_buf_", "slot_k", "slot_v"}, {"o_buf_"})
    BY AttendFills, FlowsOne
  <1>7. Flows(compute_output(y), {"o_buf_"}, {y})
    <2> DEFINE a == MatVec("o_weight_", "o_buf_", y, n_embd, q)
    <2>1. "o_weight_" \in Weights
      BY DEF Weights
    <2>2. Fills(a, {"o_buf_"}, {y})
      BY <1>1, <1>2, <2>1, MatVecFills
    <2>3. compute_output(y) = <<a>>
      BY DEF compute_output
    <2> HIDE DEF a
    <2> QED BY <2>2, <2>3, FlowsOne
  <1> DEFINE W1 == ({"q_buf_"} \cup {"k_buf_"}) \cup {"v_buf_"}
             W2 == W1 \cup {"q_buf_", "k_buf_"}
             W3 == W2 \cup ({"slot_k"} \cup {"slot_v"})
             W4 == W3 \cup {"o_buf_"}
             W5 == W4 \cup {y}
             s2 == compute_qkv(x) \o apply_rope
             s3 == s2 \o StoreKV
             s4 == s3 \o Attend
             s5 == s4 \o compute_output(y)
  <1> HIDE DEF x, y
  <1>8. Flows(s2, {x}, W2)
    BY <1>3, <1>4, FlowsConcat
  <1>9. Flows(s3, {x}, W3)
    <2>1. {"k_buf_", "v_buf_"} \subseteq {x} \cup W2
      OBVIOUS
    <2> HIDE DEF s2, W2
    <2> QED BY <1>8, <1>5, <2>1, FlowsConcat
  <1>10. Flows(s4, {x}, W4)
    <2>1. {"q_buf_", "slot_k", "slot_v"} \subseteq {x} \cup W3
      OBVIOUS
    <2> HIDE DEF s3, W3
    <2> QED BY <1>9, <1>6, <2>1, FlowsConcat
  <1>11. Flows(s5, {x}, W5)
    <2>1. {"o_buf_"} \subseteq {x} \cup W4
      OBVIOUS
    <2> HIDE DEF s4, W4
    <2> QED BY <1>10, <1>7, <2>1, FlowsConcat
  <1>12. s5 = Attention(x, y) /\ y \in W5
    BY DEF Attention
  <1> HIDE DEF s5, W5
  <1> QED BY <1>11, <1>12 DEF x, y

LEMMA MLPFlows ==
    ASSUME Divided
    PROVE  \E W : /\ "mlp_out_buf_" \in W
                  /\ Flows(MLP("norm_buf_", "mlp_out_buf_"), {"norm_buf_"}, W)
  <1> DEFINE x == "norm_buf_"
             y == "mlp_out_buf_"
             a == MatVec("gate_weight_", x, "gate_buf_", n_ff, n_embd)
             b == MatVec("up_weight_", x, "up_buf_", n_ff, n_embd)
             d == SiLU("gate_buf_", "gate_buf_", n_ff)
             e == GateMul("gate_buf_", "up_buf_", "hidden_buf_", n_ff)
             f == MatVec("down_weight_", "hidden_buf_", y, n_embd, n_ff)
  <1>1. n_embd \in Nat /\ n_ff \in Nat
    BY DividedShape
  <1>2. /\ Used[x] = n_embd /\ Used[y] = n_embd /\ Used["gate_buf_"] = n_ff
        /\ Used["up_buf_"] = n_ff /\ Used["hidden_buf_"] = n_ff
    BY DEF Used
  <1>3. "gate_weight_" \in Weights /\ "up_weight_" \in Weights /\ "down_weight_" \in Weights
    BY DEF Weights
  <1>4. Fills(a, {x}, {"gate_buf_"}) /\ Fills(b, {x}, {"up_buf_"})
    BY <1>1, <1>2, <1>3, MatVecFills
  <1>5. Fills(d, {"gate_buf_"}, {"gate_buf_"})
    BY <1>1, <1>2, CopyFills
  <1>6. Fills(e, {"gate_buf_", "up_buf_"}, {"hidden_buf_"})
    BY <1>1, <1>2, GateMulFills
  <1>7. Fills(f, {"hidden_buf_"}, {y})
    BY <1>1, <1>2, <1>3, MatVecFills
  <1>8. MLP(x, y) = <<a, b, d, e, f>>
    BY DEF MLP
  <1> HIDE DEF a, b, d, e, f
  <1> DEFINE W1 == ({"gate_buf_"} \cup {"up_buf_"}) \cup {"gate_buf_"}
             W2 == {"hidden_buf_"} \cup {y}
  <1>9. Flows(<<a, b, d>>, {x}, W1)
    BY <1>4, <1>5, FlowsThree
  <1>10. Flows(<<e, f>>, {"gate_buf_", "up_buf_"}, W2)
    BY <1>6, <1>7, FlowsTwo
  <1>11. {"gate_buf_", "up_buf_"} \subseteq {x} \cup W1
    OBVIOUS
  <1>12. y \in W1 \cup W2
    OBVIOUS
  <1> HIDE DEF W1, W2
  <1>13. Flows(<<a, b, d>> \o <<e, f>>, {x}, W1 \cup W2)
    BY <1>9, <1>10, <1>11, FlowsConcat
  <1>14. MLP(x, y) = <<a, b, d>> \o <<e, f>>
    BY <1>8, TupleTwo, TupleFive
  <1> QED BY <1>12, <1>13, <1>14

\* A layer runs on the hidden state alone.
LEMMA BlockFlows ==
    ASSUME Divided
    PROVE  \E W : "hidden" \in W /\ Flows(BlockForward, {"hidden"}, W)
  <1> DEFINE h == {"hidden"}
             norm == {"norm_buf_"}
             copy == <<Copy("hidden", "residual_buf_", n_embd)>>
             rms == rms_norm("attn_norm_weight_")
             attend == Attention("norm_buf_", "attn_out_buf_")
             add == AddResidual("attn_out_buf_")
             rms_ffn == rms_norm("ffn_norm_weight_")
             mlp == MLP("norm_buf_", "mlp_out_buf_")
             add_ffn == AddResidual("mlp_out_buf_")
  <1>1. Flows(copy, h, {"residual_buf_"})
    BY CopyFlows
  <1>2. Flows(rms, h, norm) /\ Flows(rms_ffn, h, norm)
    <2>1. "attn_norm_weight_" \in Weights /\ "ffn_norm_weight_" \in Weights
      BY DEF Weights
    <2> QED BY <2>1, NormFlows
  <1>3. PICK W : "attn_out_buf_" \in W /\ Flows(attend, norm, W)
    BY AttentionFlows
  <1>4. PICK V : "mlp_out_buf_" \in V /\ Flows(mlp, norm, V)
    BY MLPFlows
  <1>5. /\ Flows(add, {"residual_buf_", "attn_out_buf_"}, h)
        /\ Flows(add_ffn, {"residual_buf_", "mlp_out_buf_"}, h)
    BY ResidualFlows
  <1> DEFINE s2 == copy \o rms
             s3 == s2 \o attend
             s4 == s3 \o add
             s5 == s4 \o copy
             s6 == s5 \o rms_ffn
             s7 == s6 \o mlp
             s8 == s7 \o add_ffn
             W2 == {"residual_buf_"} \cup norm
             W3 == W2 \cup W
             W4 == W3 \cup h
             W5 == W4 \cup {"residual_buf_"}
             W6 == W5 \cup norm
             W7 == W6 \cup V
             W8 == W7 \cup h
  <1>6. BlockForward = s8
    BY DEF BlockForward
  <1>7. /\ norm \subseteq h \cup W2
        /\ {"residual_buf_", "attn_out_buf_"} \subseteq h \cup W3
        /\ h \subseteq h \cup W4 /\ h \subseteq h \cup W5
        /\ norm \subseteq h \cup W6
        /\ {"residual_buf_", "mlp_out_buf_"} \subseteq h \cup W7
        /\ "hidden" \in W8 /\ h \subseteq h \cup {"residual_buf_"}
    BY <1>3, <1>4
  <1> HIDE DEF copy, rms, attend, add, rms_ffn, mlp, add_ffn, h, norm
  <1>8. Flows(s2, h, W2)
    BY <1>1, <1>2, <1>7, FlowsConcat
  <1> HIDE DEF s2, W2
  <1>9. Flows(s3, h, W3)
    BY <1>3, <1>7, <1>8, FlowsConcat
  <1> HIDE DEF s3, W3
  <1>10. Flows(s4, h, W4)
    BY <1>5, <1>7, <1>9, FlowsConcat
  <1> HIDE DEF s4, W4
  <1>11. Flows(s5, h, W5)
    BY <1>1, <1>7, <1>10, FlowsConcat
  <1> HIDE DEF s5, W5
  <1>12. Flows(s6, h, W6)
    BY <1>2, <1>7, <1>11, FlowsConcat
  <1> HIDE DEF s6, W6
  <1>13. Flows(s7, h, W7)
    BY <1>4, <1>7, <1>12, FlowsConcat
  <1> HIDE DEF s7, W7
  <1>14. Flows(s8, h, W8)
    BY <1>5, <1>7, <1>13, FlowsConcat
  <1> HIDE DEF s8, W8
  <1>15. "hidden" \in W8 /\ Flows(BlockForward, h, W8)
    BY <1>6, <1>7, <1>14
  <1> QED BY <1>15 DEF h

\* So do the logits.
LEMMA LogitsFlow ==
    ASSUME Divided
    PROVE  \E W : Flows(compute_logits, {"hidden"}, W)
  <1> DEFINE a == RMSNorm("hidden", "hidden", n_embd)
             b == Kernel({"hidden", "final_norm_"} \X (0..n_embd - 1),
                         {"hidden"} \X (0..n_embd - 1))
             d == MatVec("lm_head_", "hidden", "logits_", n_vocab, n_embd)
  <1>1. /\ Used["hidden"] = n_embd /\ Used["logits_"] = n_vocab
        /\ n_embd \in Nat /\ n_vocab \in Nat
    BY DividedShape DEF Used
  <1>2. "lm_head_" \in Weights /\ "final_norm_" \in Weights
    BY DEF Weights
  <1>3. Fills(a, {"hidden"}, {"hidden"})
    BY <1>1, RMSNormFills
  <1>4. Fills(b, {"hidden"}, {"hidden"})
    <2> DEFINE all == 0..n_embd - 1
    <2>1. All({"hidden"}) = {"hidden"} \X all
      BY <1>1, AllOne
    <2>2. b = [reads |-> {"hidden", "final_norm_"} \X all, writes |-> {"hidden"} \X all]
      BY DEF Kernel
    <2> HIDE DEF all, b
    <2>3. \A c \in {"hidden", "final_norm_"} \X all :
              c[1] \in Weights \/ c \in {"hidden"} \X all
      BY <1>2
    <2> QED BY <2>1, <2>2, <2>3 DEF Fills
  <1>5. Fills(d, {"hidden"}, {"logits_"})
    BY <1>1, <1>2, MatVecFills
  <1>6. compute_logits = <<a, b, d>>
    BY DEF compute_logits
  <1> HIDE DEF a, b, d
  <1>7. Flows(<<a, b, d>>, {"hidden"}, ({"hidden"} \cup {"hidden"}) \cup {"logits_"})
    BY <1>3, <1>4, <1>5, FlowsThree
  <1> QED BY <1>6, <1>7

-----------------------------------------------------------------------------
(* The shape of a model never changes. *)

LEMMA ShapeStays ==
    ASSUME config' = config
    PROVE  /\ BlockForward' = BlockForward /\ compute_logits' = compute_logits
           /\ Divided' = Divided
           /\ \A bs : All(bs)' = All(bs)
  <1>1. /\ n_embd' = n_embd /\ n_head' = n_head /\ n_ff' = n_ff
        /\ n_kv_head' = n_kv_head /\ head_dim' = head_dim /\ n_vocab' = n_vocab
        /\ q_size' = q_size /\ kv_size' = kv_size
    BY DEF n_embd, n_head, n_ff, n_kv_head, head_dim, n_vocab, q_size, kv_size, Word
  <1>2. \A h : KVHead(h)' = KVHead(h)
    BY <1>1 DEF KVHead, Word
  <1>3. \A x : compute_qkv(x)' = compute_qkv(x) /\ compute_output(x)' = compute_output(x)
    BY <1>1 DEF compute_qkv, compute_output
  <1>4. apply_rope' = apply_rope /\ StoreKV' = StoreKV
    BY <1>1 DEF apply_rope, StoreKV
  <1>5. Attend' = Attend
    <2> DEFINE q == UNION {{Word(h * head_dim) + d : d \in Elements(head_dim)} : h \in 0..n_head - 1}
               k == UNION {{Word(KVHead(h) * head_dim) + d : d \in Elements(head_dim)} :
                              h \in 0..n_head - 1}
               v == UNION {{Word(KVHead(h) * head_dim) + d : d \in 0..head_dim - 1} :
                              h \in 0..n_head - 1}
               o == UNION {{Word(h * head_dim) + d : d \in 0..head_dim - 1} : h \in 0..n_head - 1}
    <2>1. q' = q /\ o' = o
      BY <1>1 DEF Word
    <2>2. k' = k /\ v' = v
      BY <1>1, <1>2 DEF Word
    <2>3. Attend = <<Kernel({"q_buf_"} \X q \cup {"slot_k"} \X k \cup {"slot_v"} \X v,
                            {"o_buf_"} \X o)>>
      BY DEF Attend
    <2>4. Attend' = <<Kernel({"q_buf_"} \X q' \cup {"slot_k"} \X k' \cup {"slot_v"} \X v',
                             {"o_buf_"} \X o')>>
      BY DEF Attend
    <2> HIDE DEF q, k, v, o
    <2> QED BY <2>1, <2>2, <2>3, <2>4
  <1>6. \A x, y : Attention(x, y)' = Attention(x, y)
    BY <1>3, <1>4, <1>5 DEF Attention
  <1>7. \A x, y : MLP(x, y)' = MLP(x, y)
    BY <1>1 DEF MLP
  <1>8. \A w : rms_norm(w)' = rms_norm(w) /\ AddResidual(w)' = AddResidual(w)
    BY <1>1 DEF rms_norm, AddResidual
  <1>9. BlockForward' = BlockForward
    BY <1>1, <1>6, <1>7, <1>8 DEF BlockForward
  <1>10. compute_logits' = compute_logits
    BY <1>1 DEF compute_logits
  <1>11. Divided' = Divided
    BY <1>1 DEF Divided, ConfigTyped, HeadsFit
  <1>12. Used' = Used
    BY <1>1 DEF Used
  <1>13. \A bs : All(bs)' = All(bs)
    BY <1>12 DEF All
  <1> QED BY <1>9, <1>10, <1>11, <1>13

-----------------------------------------------------------------------------
(* The pass: what has been written is whole, and of one time.               *)

\* The buffers that are whole after each kernel of a sequence.
Filled(s) == CHOOSE f : FlowsBy(s, {"hidden"}, f)

\* Just the buffers in bs have been written, each by one kernel.
Whole(bs) ==
    /\ DOMAIN written = All(bs)
    /\ \A a \in DOMAIN written : written[a] \in Nat
    /\ \A a, b \in DOMAIN written : a[1] = b[1] => written[a] = written[b]

WholeInv ==
    /\ IInv
    /\ layer \in Nat
    /\ at = "created" => step = 0
    /\ Divided =>
        /\ at \in {"warmup", "layers"} =>
              /\ step <= Len(BlockForward)
              /\ \E bs : bs = Filled(BlockForward)[step] /\ Whole(bs)
        /\ at = "logits" =>
              \E bs : bs = Filled(compute_logits)[step] /\ Whole(bs)

\* Both sequences of kernels can run on a hidden state.
LEMMA PassFlows ==
    ASSUME Divided
    PROVE  /\ FlowsBy(BlockForward, {"hidden"}, Filled(BlockForward))
           /\ FlowsBy(compute_logits, {"hidden"}, Filled(compute_logits))
           /\ Len(BlockForward) \in Nat
  <1>1. /\ \E S : BlockForward \in Seq(S)
        /\ \E f : FlowsBy(BlockForward, {"hidden"}, f)
    BY BlockFlows DEF Flows
  <1>2. \E f : FlowsBy(compute_logits, {"hidden"}, f)
    BY LogitsFlow DEF Flows
  <1> QED BY <1>1, <1>2 DEF Filled

\* An element that all of a buffer is filled with is there for each of them.
LEMMA AllIsByBuffer ==
    \A bs, ds : \A a \in All(bs), b \in All(ds) : a[1] = b[1] => a[1] \in bs /\ b \in All(bs)
  <1> TAKE bs, ds
  <1> TAKE a \in All(bs), b \in All(ds)
  <1> HAVE a[1] = b[1]
  <1> DEFINE range(d) == 0..Used[d] - 1
  <1>1. \A d : All(d) = UNION {{c} \X range(c) : c \in d}
    BY DEF All
  <1> HIDE DEF range
  <1>2. PICK c \in bs : \E i \in range(c) : a = <<c, i>>
    BY <1>1
  <1>3. PICK d \in ds : \E j \in range(d) : b = <<d, j>>
    BY <1>1
  <1>4. c = d
    BY <1>2, <1>3
  <1> QED BY <1>1, <1>2, <1>3, <1>4

\* A kernel that fills buffers leaves them whole.
LEMMA RunKeepsWhole ==
    ASSUME Divided, WholeInv, NEW bs, Whole(bs), NEW kernel, NEW R, NEW W,
           Fills(kernel, R, W), config' = config, written' = Run(kernel)
    PROVE  Whole(bs \cup W)'
  <1> DEFINE now == layer * Len(BlockForward) + step + 1
  <1>1. now \in Nat
    <2>1. layer \in Nat /\ step \in Nat /\ Len(BlockForward) \in Nat
      BY PassFlows DEF WholeInv, IInv
    <2> QED BY <2>1
  <1>2. kernel.writes = All(W) /\ DOMAIN written = All(bs)
    BY DEF Fills, Whole
  <1>3. All(bs \cup W) = All(bs) \cup All(W)
    BY DEF All
  <1>4. /\ written' = [a \in All(bs) \cup All(W) |-> IF a \in All(W) THEN now ELSE written[a]]
    BY <1>2 DEF Run
  <1> HIDE DEF now
  <1>5. DOMAIN written' = All(bs \cup W)
    BY <1>3, <1>4
  <1>6. ASSUME NEW a \in DOMAIN written' PROVE written'[a] \in Nat
    BY <1>1, <1>2, <1>3, <1>4, <1>5 DEF Whole
  <1>7. ASSUME NEW a \in DOMAIN written', NEW b \in DOMAIN written', a[1] = b[1]
        PROVE  written'[a] = written'[b]
    <2>1. a \in All(W) <=> b \in All(W)
      BY <1>5, <1>7, AllIsByBuffer, Zenon
    <2>2. CASE a \in All(W)
      BY <1>4, <2>1, <2>2
    <2>3. CASE a \notin All(W)
      <3>1. a \in All(bs) /\ b \in All(bs)
        BY <1>3, <1>5, <2>1, <2>3
      <3> QED BY <1>2, <1>4, <1>7, <2>1, <2>3, <3>1 DEF Whole
    <2> QED BY <2>2, <2>3
  <1>8. All(bs \cup W)' = All(bs \cup W)
    BY ShapeStays
  <1> QED BY <1>5, <1>6, <1>7, <1>8 DEF Whole

LEMMA FreshIsWhole ==
    ASSUME Divided, config' = config, written' = Fresh
    PROVE  Whole({"hidden"})'
  <1>1. All({"hidden"}) = {"hidden"} \X (0..n_embd - 1)
    BY AllOne DEF Used
  <1>2. All({"hidden"})' = All({"hidden"})
    BY ShapeStays
  <1>3. written' = [a \in All({"hidden"}) |-> 0]
    BY <1>1 DEF Fresh
  <1> QED BY <1>2, <1>3 DEF Whole

LEMMA FilledStays ==
    ASSUME config' = config
    PROVE  /\ Filled(BlockForward)' = Filled(BlockForward)
           /\ Filled(compute_logits)' = Filled(compute_logits)
  <1>1. \A bs : All(bs)' = All(bs)
    BY ShapeStays
  <1>2. \A kernel, R, W : Fills(kernel, R, W)' <=> Fills(kernel, R, W)
    BY <1>1 DEF Fills
  <1>3. \A s, L, f : FlowsBy(s, L, f)' <=> FlowsBy(s, L, f)
    BY <1>2 DEF FlowsBy
  <1>4. \A s : Filled(s)' = Filled(s)
    BY <1>3 DEF Filled
  <1>5. BlockForward' = BlockForward /\ compute_logits' = compute_logits
    BY ShapeStays
  <1> QED BY <1>4, <1>5

\* The steps that leave written as it is keep it whole.
LEMMA WholeStays ==
    ASSUME config' = config, written' = written, NEW bs, Whole(bs)
    PROVE  Whole(bs)'
  <1>1. All(bs)' = All(bs)
    BY ShapeStays
  <1> QED BY <1>1 DEF Whole

\* What the next kernel of a pass fills.
LEMMA KernelFlows ==
    ASSUME NEW s, NEW f, FlowsBy(s, {"hidden"}, f), Len(s) \in Nat,
           NEW i \in Nat, i < Len(s)
    PROVE  \E W : Fills(s[i + 1], f[i], W) /\ f[i + 1] = f[i] \cup W
  <1>1. i + 1 \in 1..Len(s) /\ (i + 1) - 1 = i
    OBVIOUS
  <1> QED BY <1>1 DEF FlowsBy

LEMMA WholeInitial == Init => WholeInv
  <1> SUFFICES ASSUME Init PROVE WholeInv
    OBVIOUS
  <1> QED BY DecoderInit DEF Init, WholeInv

LEMMA WholeNext == WholeInv /\ [Next]_vars => WholeInv'
  <1> SUFFICES ASSUME WholeInv, [Next]_vars PROVE WholeInv'
    OBVIOUS
  <1>1. IInv'
    BY DecoderNext DEF WholeInv
  <1>2. config' = config
    BY DEF Next, vars, decoderVars, Initialize, Embed, TokenizeWord, RunKernel, EndWarmup,
           NextLayer, NextPromptToken, ComputeLogits, Sample, NextToken
  <1>3. /\ layer' \in Nat
        /\ at' = "created" => step' = 0
    BY DEF WholeInv, Next, vars, decoderVars, Initialize, Embed, TokenizeWord, RunKernel,
           EndWarmup, NextLayer, NextPromptToken, ComputeLogits, Sample, NextToken
  <1>4. /\ BlockForward' = BlockForward /\ compute_logits' = compute_logits
        /\ Divided' = Divided
        /\ Filled(BlockForward)' = Filled(BlockForward)
        /\ Filled(compute_logits)' = Filled(compute_logits)
    BY <1>2, ShapeStays, FilledStays
  <1>5. SUFFICES ASSUME Divided
        PROVE  /\ at' \in {"warmup", "layers"} =>
                    /\ step' <= Len(BlockForward)
                    /\ \E bs : bs = Filled(BlockForward)[step'] /\ Whole(bs)'
               /\ at' = "logits" =>
                    \E bs : bs = Filled(compute_logits)[step'] /\ Whole(bs)'
    BY <1>1, <1>3, <1>4, <1>5 DEF WholeInv
  <1> DEFINE flow == Filled(BlockForward)
             logits == Filled(compute_logits)
             size == Len(BlockForward)
  <1>6. /\ FlowsBy(BlockForward, {"hidden"}, flow) /\ size \in Nat
        /\ FlowsBy(compute_logits, {"hidden"}, logits) /\ Len(compute_logits) = 3
        /\ flow[0] = {"hidden"} /\ logits[0] = {"hidden"}
    <2>1. /\ FlowsBy(BlockForward, {"hidden"}, flow) /\ size \in Nat
          /\ FlowsBy(compute_logits, {"hidden"}, logits) /\ Len(compute_logits) = 3
      BY <1>5, PassFlows, ThreeKernels
    <2>2. \A s, f : FlowsBy(s, {"hidden"}, f) => f[0] = {"hidden"}
      BY DEF FlowsBy
    <2> QED BY <2>1, <2>2
  <1>7. /\ step \in Nat
        /\ at = "created" => step = 0
        /\ at = "logits" => step < 3
        /\ at \in {"warmup", "layers"} =>
              step <= size /\ \E bs : bs = flow[step] /\ Whole(bs)
        /\ at = "logits" => \E bs : bs = logits[step] /\ Whole(bs)
    BY <1>5, <1>6 DEF WholeInv, IInv
  <1>8. SUFFICES /\ at' \in {"warmup", "layers"} =>
                    step' <= size /\ \E bs : bs = flow[step'] /\ Whole(bs)'
                 /\ at' = "logits" => \E bs : bs = logits[step'] /\ Whole(bs)'
    OBVIOUS
  <1> HIDE DEF flow, logits, size
  <1>9. CASE Initialize
    BY <1>2, <1>5, <1>6, <1>7, <1>9, FreshIsWhole DEF Initialize
  <1>10. CASE Embed
    BY <1>2, <1>5, <1>6, <1>7, <1>10, FreshIsWhole DEF Embed
  <1>11. CASE RunKernel
    <2>1. CASE ReadsNull(BlockForward[step + 1])
      BY <1>11, <2>1 DEF RunKernel
    <2>2. CASE ~ReadsNull(BlockForward[step + 1])
      <3>1. /\ at \in {"warmup", "layers"} /\ step < size /\ at' = at /\ step' = step + 1
            /\ written' = Run(BlockForward[step + 1])
        BY <1>11, <2>2 DEF RunKernel, size
      <3>2. PICK bs : bs = flow[step] /\ Whole(bs)
        BY <1>7, <3>1
      <3>3. \E W : Fills(BlockForward[step + 1], flow[step], W)
                   /\ flow[step + 1] = flow[step] \cup W
        <4>1. /\ FlowsBy(BlockForward, {"hidden"}, flow) /\ Len(BlockForward) \in Nat
              /\ step \in Nat /\ step < Len(BlockForward)
          BY <1>6, <1>7, <3>1 DEF size
        <4> QED BY <4>1, KernelFlows
      <3>4. PICK W : Fills(BlockForward[step + 1], bs, W) /\ flow[step + 1] = bs \cup W
        BY <3>2, <3>3
      <3>5. Whole(bs \cup W)'
        BY <1>2, <1>5, <3>1, <3>2, <3>4, RunKeepsWhole, Zenon
      <3>6. step' <= size /\ flow[step'] = bs \cup W
        BY <1>6, <1>7, <3>1, <3>4
      <3>7. at' # "logits"
        BY <3>1
      <3> QED BY <3>5, <3>6, <3>7, Zenon
    <2> QED BY <2>1, <2>2
  <1>12. CASE EndWarmup
    BY <1>12 DEF EndWarmup
  <1>15. CASE ComputeLogits
    <2>1. CASE ReadsNull(compute_logits[step + 1])
      BY <1>15, <2>1 DEF ComputeLogits
    <2>2. CASE ~ReadsNull(compute_logits[step + 1])
      <3>1. /\ at = "logits" /\ step < 3 /\ step' = step + 1 /\ at' \in {"sample", "logits"}
            /\ written' = Run(compute_logits[step + 1])
        BY <1>6, <1>15, <2>2 DEF ComputeLogits
      <3>2. PICK bs : bs = logits[step] /\ Whole(bs)
        BY <1>7, <3>1
      <3>3. /\ FlowsBy(compute_logits, {"hidden"}, logits) /\ Len(compute_logits) \in Nat
            /\ step \in Nat /\ step < Len(compute_logits)
        BY <1>6, <1>7, <3>1
      <3>4. \E W : Fills(compute_logits[step + 1], logits[step], W)
                   /\ logits[step + 1] = logits[step] \cup W
        BY <3>3, KernelFlows
      <3>5. PICK W : Fills(compute_logits[step + 1], bs, W) /\ logits[step + 1] = bs \cup W
        BY <3>2, <3>4
      <3>6. Whole(bs \cup W)'
        BY <1>2, <1>5, <3>1, <3>2, <3>5, RunKeepsWhole, Zenon
      <3>7. logits[step'] = bs \cup W /\ at' \notin {"warmup", "layers"}
        BY <3>1, <3>5
      <3> QED BY <3>6, <3>7, Zenon
    <2> QED BY <2>1, <2>2
  <1>14. CASE NextPromptToken
    BY <1>14 DEF NextPromptToken
  <1>16. CASE Sample \/ TokenizeWord \/ UNCHANGED vars
    <2>1. at' \in {at, "crashed"} /\ step' = step /\ written' = written
      BY <1>16 DEF Sample, TokenizeWord, vars, decoderVars
    <2>2. \A bs : Whole(bs) => Whole(bs)'
      BY <1>2, <2>1, WholeStays
    <2> QED BY <1>7, <2>1, <2>2
  <1>17. CASE NextToken
    BY <1>17 DEF NextToken
  <1>13. CASE NextLayer
    <2>1. /\ at = "layers" /\ step = size /\ step' = 0
          /\ written' = Restrict(written, {a \in DOMAIN written : a[1] = "hidden"})
      BY <1>13 DEF NextLayer, size
    <2>2. Whole(flow[size]) /\ "hidden" \in flow[size]
      BY <1>6, <1>7, <2>1 DEF FlowsBy, size
    <2>3. Whole({"hidden"})'
      <3> DEFINE range(b) == 0..Used[b] - 1
                 kept == {a \in DOMAIN written : a[1] = "hidden"}
      <3>1. \A bs : All(bs) = UNION {{b} \X range(b) : b \in bs}
        BY DEF All
      <3> HIDE DEF range
      <3>2. kept = All({"hidden"})
        BY <2>2, <3>1 DEF Whole
      <3>3. All({"hidden"})' = All({"hidden"})
        BY <1>2, ShapeStays
      <3>4. kept \subseteq DOMAIN written
        OBVIOUS
      <3>5. written' = [a \in kept |-> written[a]]
        BY <2>1 DEF Restrict
      <3> HIDE DEF kept
      <3> QED BY <2>2, <3>2, <3>3, <3>4, <3>5 DEF Whole
    <2>4. /\ flow[step'] = {"hidden"} /\ logits[step'] = {"hidden"}
          /\ step' <= size
      BY <1>6, <2>1
    <2>5. \E bs : bs = {"hidden"} /\ Whole(bs)'
      BY <2>3
    <2> QED BY <2>4, <2>5
  <1> QED BY <1>9, <1>10, <1>11, <1>12, <1>13, <1>14, <1>15, <1>16, <1>17 DEF Next

LEMMA WholeReads == WholeInv => ReadsAreWhole
  <1> SUFFICES ASSUME WholeInv, n_head > 0, config.n_ctx > 0, HeadsFit, n_embd % Lanes = 0,
                      head_dim % 2 = 0, NEW a \in Running.reads, a[1] \notin Weights
               PROVE  /\ a \in DOMAIN written
                      /\ \A b \in DOMAIN written : a[1] = b[1] => written[a] >= written[b]
    BY DEF ReadsAreWhole
  <1>1. Divided
    BY DEF Divided, WholeInv, IInv
  <1>2. \E bs : Whole(bs) /\ \E W : Fills(Running, bs, W)
    <2>1. CASE at \in {"warmup", "layers"} /\ step < Len(BlockForward)
      <3>1. Running = BlockForward[step + 1]
        BY <2>1 DEF Running
      <3> QED BY <1>1, <2>1, <3>1, PassFlows, KernelFlows DEF WholeInv, IInv
    <2>2. CASE ~(at \in {"warmup", "layers"} /\ step < Len(BlockForward)) /\ at = "logits"
      <3>1. Running = compute_logits[step + 1]
        BY <2>2 DEF Running
      <3> QED BY <1>1, <2>2, <3>1, PassFlows, ThreeKernels, KernelFlows DEF WholeInv, IInv
    <2>3. CASE ~(at \in {"warmup", "layers"} /\ step < Len(BlockForward)) /\ at # "logits"
      BY <2>3 DEF Running, Kernel
    <2> QED BY <2>1, <2>2, <2>3
  <1>3. PICK bs : Whole(bs) /\ a \in All(bs)
    BY <1>2 DEF Fills
  <1>4. \A i, j \in Nat : i = j => i >= j
    OBVIOUS
  <1> QED BY <1>3, <1>4 DEF Whole

(* Whatever the shape of a model is, if no product of its head counts wraps, *)
(* whole registers divide its hidden state and halves its heads: every      *)
(* element a kernel reads was written in this pass, by the last kernel that *)
(* wrote its buffer.  What a token, a layer or warmup leaves behind in the  *)
(* buffers that transformer_block.cpp, attention.cpp and mlp.cpp use again  *)
(* and again is never read.                                                 *)
THEOREM DecoderReadsAreWhole == Spec => []ReadsAreWhole
  <1>1. Spec => []WholeInv
    BY WholeInitial, WholeNext, PTL DEF Spec
  <1> QED BY <1>1, WholeReads, PTL

=============================================================================
