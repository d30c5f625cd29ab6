----------------------------- MODULE ModelTraits -----------------------------
(***************************************************************************)
(* The models that can be instantiated (common/model_traits.hpp), and the  *)
(* dimensions that the core_traits specialisations derive from a model     *)
(* (common/core_traits.hpp).  What no dimension depends on is left out:    *)
(* block_count, total_parameters, kv_cache_layers, and intermediate_size,  *)
(* which repeats feed_forward_length.                                      *)
(***************************************************************************)
EXTENDS OpGraph, TLC

Size(embedding, feedForward, heads, headsKv, headDim, ropeDims) ==
  [embedding |-> embedding, feedForward |-> feedForward, heads |-> heads,
   headsKv |-> headsKv, headDim |-> headDim, ropeDims |-> ropeDims]

\* Variant: the heads of the 1B model, copied to the 3B one.
SmallV1V2Copied ==
  [llama_1B |-> Size(2048,  8192, 32,  8,  64,  64),
   llama_3B |-> Size(3072,  8192, 32,  8, 128, 128),
   llama_7B |-> Size(4096, 11008, 32, 32, 128, 128),
   llama_8B |-> Size(4096, 11008, 32, 32, 128, 128)]

SmallV1V2 ==
  [llama_1B |-> Size(2048,  8192, 32,  8,  64,  64),
   llama_3B |-> Size(3072,  8192, 24,  8, 128, 128),
   llama_7B |-> Size(4096, 11008, 32, 32, 128, 128),
   llama_8B |-> Size(4096, 11008, 32, 32, 128, 128)]

LargeV1V2 ==
  [llama_11B  |-> Size( 4096, 11008,  32, 32, 128, 128),
   llama_13B  |-> Size( 5120, 13824,  40, 40, 128, 128),
   llama_70B  |-> Size( 8192, 28672,  64,  8, 128, 128),
   llama_90B  |-> Size( 8192, 28672,  64,  8, 128, 128),
   llama_405B |-> Size(16384, 53248, 128,  8, 128, 128)]

SmallV3 ==
  [llama_1B |-> Size(2048,  8192, 32,  8,  64,  64),
   llama_3B |-> Size(3072,  8192, 24,  8, 128, 128),
   llama_7B |-> Size(4096, 11008, 32, 32, 128, 128),
   llama_8B |-> Size(4096, 14336, 32,  8, 128, 128)]

LargeV3 ==
  [llama_11B  |-> Size( 4096, 14336,  32,  8, 128, 128),
   llama_13B  |-> Size( 5120, 13824,  40, 40, 128, 128),
   llama_70B  |-> Size( 8192, 28672,  64,  8, 128, 128),
   llama_90B  |-> Size( 8192, 28672,  64,  8, 128, 128),
   llama_405B |-> Size(16384, 53248, 128,  8, 128, 128)]

\* A generation has one vocabulary and one context length.
Generation(sizes, vocab, sequence) ==
  {[vocab |-> vocab, sequence |-> sequence] @@ sizes[s] : s \in DOMAIN sizes}

Models == Generation(SmallV1V2 @@ LargeV1V2, 32000, 2048)
            \cup Generation(SmallV3 @@ LargeV3, 128256, 8192)

-----------------------------------------------------------------------------
(* The dims of every operation, of a model m.                              *)

Vector(n) == <<n, 1, 1, 1>>
Matrix(n, m) == <<n, m, 1, 1>>
Heads(n, m, heads) == <<n, m, heads, 1>>

\* All operations of a set have the same dimensions.
Each(ops, dims) == [o \in ops |-> dims]

LeafDims(m) ==
  Each({"token_embd_weight", "output_weight"}, Matrix(m.embedding, m.vocab))
    @@ Each({"inp_tokens", "inp_pos", "inp_out_ids"}, Vector(m.sequence))
    @@ Each({"rope_freqs_weight"}, Vector(m.ropeDims \div 2))
    @@ Each({"output_norm_weight", "attn_norm_weight", "ffn_norm_weight"}, Vector(m.embedding))
    @@ Each({"attn_q_weight", "attn_output_weight"}, Matrix(m.embedding, m.embedding))
    @@ Each({"attn_k_weight", "attn_v_weight"}, Matrix(m.embedding, m.headDim * m.headsKv))
    @@ Each({"ffn_gate_weight", "ffn_up_weight"}, Matrix(m.embedding, m.feedForward))
    @@ Each({"ffn_down_weight"}, Matrix(m.feedForward, m.embedding))
    @@ Each({"cache_k", "cache_v"}, Matrix(m.headsKv * m.headDim, m.sequence))
    @@ Each({"kq_mask"}, Matrix(m.sequence, m.sequence))

ProjectionDims(m) ==
  Each({"inp_embd", "norm", "attn_norm"}, Matrix(m.embedding, m.sequence))
    @@ Each({"qcur"}, Matrix(m.heads * m.headDim, m.sequence))
    @@ Each({"qcur_reshaped", "qcur_rope"}, Heads(m.headDim, m.sequence, m.heads))
    @@ Each({"kcur", "vcur"}, Matrix(m.headsKv * m.headDim, m.sequence))
    @@ Each({"kcur_reshaped", "kcur_rope"}, Heads(m.headDim, m.sequence, m.headsKv))

CacheDims(m) ==
  Each({"k_cache_view", "k_cache_view_copy"}, Matrix(m.headsKv * m.headDim, m.sequence))
    @@ Each({"vcur_transposed", "v_cache_view", "v_cache_view_copy"},
            Matrix(m.sequence, m.headsKv * m.headDim))
    @@ Each({"v"}, Heads(m.sequence, m.headDim, m.headsKv))
    @@ Each({"k"}, Heads(m.headDim, m.sequence, m.headsKv))
    @@ Each({"q"}, Heads(m.headDim, m.sequence, m.heads))

AttentionDims(m) ==
  Each({"kq", "kq_soft_max"}, Heads(m.sequence, 1, m.heads))
    @@ Each({"kqv"}, Heads(m.headDim, 1, m.heads))
    @@ Each({"kqv_merged"}, Matrix(m.headDim, m.heads))
    @@ Each({"kqv_merged_cont"}, Vector(m.embedding))

FfnDims(m) ==
  Each({"kqv_out", "ffn_inp", "norm_out", "ffn_norm", "ffn_out", "l_out"},
       Matrix(m.embedding, m.sequence))
    @@ Each({"ffn_gate", "ffn_silu", "ffn_up", "ffn_gate_par"},
            Matrix(m.feedForward, m.sequence))

OutputDims(m) ==
  Each({"attn_residual", "prev_residual", "final_norm", "result_norm"},
       Matrix(m.embedding, m.sequence))
    @@ Each({"result_output"}, Matrix(m.vocab, m.sequence))

Dims(m) == LeafDims(m) @@ ProjectionDims(m) @@ CacheDims(m) @@ AttentionDims(m)
             @@ FfnDims(m) @@ OutputDims(m)
=============================================================================
