----------------------------- MODULE MCDecoder -----------------------------
(* Decoder on files of small shapes, with registers of two floats. *)
EXTENDS Decoder, TLC

File(embd, head, kv, ff) ==
    [vocab_size |-> NVocab, embedding_length |-> embd, head_count |-> head, head_count_kv |-> kv,
     feed_forward_length |-> ff, block_count |-> 2, context_length |-> 2]

Type(dtype) == [file_type |-> dtype]

Without(file, key) == [k \in DOMAIN file \ {key} |-> file[k]]

Shapes ==
    { File(4, 2, 2, 3) @@ Type("F32"),       \* a head of keys per head, features to spare
      File(4, 2, 1, 4) @@ Type("F16"),       \* one head of keys, half the bytes
      File(8, 4, 2, 5) @@ Type("Q4_K"),      \* two heads share one
      File(6, 3, 2, 4),                      \* ... unevenly
      File(8, 3, 3, 2) @@ Type("Q8_0"),      \* a rest of n_embd belongs to no head
      File(6, 2, 4, 1) @@ Type("2"),         \* more heads of keys than heads, odd ones
      Without(File(5, 2, 2, 3), "head_count_kv") @@ Type("Q4_0"),
                                             \* a rest of n_embd behind the registers
      File(4, 2, 17, 3),                     \* so many that their products wrap
      File(4, 3, 16, 2),
      Without(File(4, 2, 2, 3), "vocab_size"),
      Without(File(4, 2, 2, 3), "head_count"),
      Without(File(4, 2, 2, 3), "context_length"),
      Without(File(4, 2, 2, 3), "block_count") }

=============================================================================
