----------------------------- MODULE GGUFReader -----------------------------
(***************************************************************************)
(* What GGUFReader of engine/model_loader.{h,cpp} makes of a file: its two *)
(* walks over the metadata and the names it gives to tensors.              *)
(*                                                                         *)
(* A metadata value is a record of its type; for an ARRAY, of the type and *)
(* the number of its elements; and of what read_config has to do with it:  *)
(* whether it asks for a number under this key, and whether the text that  *)
(* parse_header keeps spells one.  Every string of a file has the same     *)
(* length here.  A tensor is a record of its layer (UInt - 1: none) and of *)
(* what its name says behind the layer.  No name without a layer reads     *)
(* like a layer's key, "layer0.q_weight".                                  *)
(***************************************************************************)
EXTENDS Integers, Sequences, FiniteSetsExt

CONSTANTS
    StringBytes,     \* what a string takes in a file, its length included
    Occurs(_, _)     \* does a part occur in a name?

ASSUME GGUFAssumption == StringBytes \in Nat /\ StringBytes > 8

-----------------------------------------------------------------------------
\* enum GGUFType, with the width each name stands for.
Width ==
    [U8 |-> 1, I8 |-> 1, U16 |-> 2, I16 |-> 2, U32 |-> 4, I32 |-> 4, F32 |-> 4,
     BOOL |-> 1, STRING |-> StringBytes, U64 |-> 8, I64 |-> 8, F64 |-> 8]

\* An ARRAY: element type, length, elements.
ValueBytes(v) ==
    IF v.type = "ARRAY" THEN 4 + 8 + v.len * Width[v.of] ELSE Width[v.type]

\* How far parse_header advances over an element of an ARRAY, and over a value.
HeaderElement(type) ==
    CASE type = "U32"    -> 4
      [] type = "F32"    -> 4
      [] type = "STRING" -> StringBytes
      [] OTHER           -> 4

HeaderBytes(v) ==
    CASE v.type = "U32"    -> 4
      [] v.type = "F32"    -> 4
      [] v.type = "STRING" -> StringBytes
      [] v.type = "U64"    -> 8
      [] v.type = "I32"    -> 4
      [] v.type = "BOOL"   -> 1
      [] v.type = "ARRAY"  -> 4 + 8 + v.len * HeaderElement(v.of)
      [] OTHER             -> 4

\* Mutant of SkipBytes: a BOOL has no case.
SkipBytesWideBool(v) ==
    CASE v.type = "STRING" -> StringBytes
      [] v.type = "U64"    -> 8
      [] OTHER             -> 4

\* How far enumerate_tensors advances over a value.
SkipBytes(v) ==
    CASE v.type = "STRING" -> StringBytes
      [] v.type = "U32"    -> 4
      [] v.type = "U64"    -> 8
      [] v.type = "F32"    -> 4
      [] v.type = "I32"    -> 4
      [] v.type = "BOOL"   -> 1
      [] OTHER             -> 4

\* How far each walk advances over the values of some metadata.
HeaderWalk(metadata) == [i \in DOMAIN metadata |-> HeaderBytes(metadata[i])]
SkipWalk(metadata) == [i \in DOMAIN metadata |-> SkipBytes(metadata[i])]

\* A walk that finds every key where it is: whatever it makes of the last value.
FindsKeys(walk, metadata) ==
    \A i \in DOMAIN metadata :
        i < Len(metadata) => walk[i] = ValueBytes(metadata[i])

\* Where a walk ends: behind a key, a type and a value each.
WalkEnd(walk) == MapThenSumSet(LAMBDA i : StringBytes + 4 + walk[i], DOMAIN walk)

\* Where the metadata end.
MetadataEnd(metadata) == WalkEnd([i \in DOMAIN metadata |-> ValueBytes(metadata[i])])

\* Do std::stoul and std::stof take the text kept of a value?  "true", "[...]"
\* and nothing, for a type without a case, are no numbers.
Parses(v) ==
    CASE v.type \in {"U32", "I32"} -> TRUE
      [] v.type \in {"F32", "U64", "STRING"} -> v.number
      [] OTHER -> FALSE

-----------------------------------------------------------------------------
\* The parts of a layer tensor's name in the order they are looked for, and
\* the canonical name each one gives.
LayerParts ==
    <<"attn_q", "attn_k", "attn_v", "attn_output", "ffn_gate", "ffn_up",
      "ffn_down", "attn_norm", "ffn_norm">>

LayerNames ==
    <<"q_weight", "k_weight", "v_weight", "o_weight", "gate_weight",
      "up_weight", "down_weight", "attn_norm", "ffn_norm">>

\* classify_tensor on a name with a layer, and on one without.
LayerName(t) ==
    LET hits == {i \in DOMAIN LayerParts : Occurs(LayerParts[i], t.rest)}
    IN  IF hits = {} THEN t.rest ELSE LayerNames[Min(hits)]

GlobalName(t) ==
    CASE Occurs("token_embd", t.rest) -> "token_embd"
      [] /\ ~Occurs("token_embd", t.rest)
         /\ Occurs("output", t.rest) \/ Occurs("lm_head", t.rest) -> "lm_head"
      [] OTHER -> t.rest

=============================================================================
