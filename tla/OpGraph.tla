------------------------------- MODULE OpGraph -------------------------------
(***************************************************************************)
(* The compute graph, as the core_traits specialisations of                *)
(* common/core_traits.hpp declare it, and the three lists of operations    *)
(* that threading_strategy derives from it at compile time                 *)
(* (cpu/thread_pool.hpp).  Of a specialisation we keep                     *)
(*   layer   the phase of a pass that executes it (layer_type),            *)
(*   kernel  its kernel (krn_type),                                        *)
(*   inputs  the operations whose buffers its kernel reads,                *)
(*   sync    whether it has latches (the concept `blocking`),              *)
(*   owns    whether it claims a buffer of its own (its                    *)
(*           total_required_bytes is not 0).                               *)
(* Dimensions, element types and sizes are left out.                       *)
(***************************************************************************)
EXTENDS Naturals, Sequences, FiniteSets

\* A tensor that is loaded or set from outside: no layer and no kernel.
Leaf == [layer |-> "none", kernel |-> "none", inputs |-> <<>>, sync |-> FALSE, owns |-> TRUE]

\* An operation with a kernel and a buffer of its own.
Op(layer, kernel, inputs) ==
  [layer |-> layer, kernel |-> kernel, inputs |-> inputs, sync |-> FALSE, owns |-> TRUE]

\* The same with sync_flag_start and sync_flag_end.
SyncOp(layer, kernel, inputs) == [Op(layer, kernel, inputs) EXCEPT !.sync = TRUE]

\* An operation whose total_required_bytes is 0: its data stays null.
Bufferless(layer, kernel, inputs) == [Op(layer, kernel, inputs) EXCEPT !.owns = FALSE]

-----------------------------------------------------------------------------
(* The specialisations, in the order of the file.                          *)

ModelInputs ==
  [o \in {"token_embd_weight", "inp_tokens", "inp_pos", "inp_out_ids",
          "rope_freqs_weight", "output_weight", "output_norm_weight"} |-> Leaf]

BlockWeights ==
  [o \in {"attn_q_weight", "attn_k_weight", "attn_v_weight", "attn_output_weight",
          "attn_norm_weight", "ffn_gate_weight", "ffn_up_weight"} |-> Leaf]

CachesAndMask ==
  [o \in {"ffn_down_weight", "ffn_norm_weight", "cache_k", "cache_v", "kq_mask"} |-> Leaf]

InputNorm ==
  [inp_embd  |-> Op("global_input", "get_rows", <<"token_embd_weight", "inp_tokens">>),
   norm      |-> Op("per_block", "rms_norm", <<"inp_embd">>),
   attn_norm |-> Op("per_block", "mul", <<"norm", "attn_norm_weight">>)]

QueryOps ==
  [qcur          |-> SyncOp("per_block", "mul_mat", <<"attn_q_weight", "attn_norm">>),
   qcur_reshaped |-> Op("per_block", "reshape", <<"qcur">>),
   qcur_rope     |-> Op("per_block", "rope",
                        <<"qcur_reshaped", "inp_pos", "rope_freqs_weight">>)]

KeyOps ==
  [kcur          |-> SyncOp("per_block", "mul_mat", <<"attn_k_weight", "attn_norm">>),
   kcur_reshaped |-> Op("per_block", "reshape", <<"kcur">>),
   kcur_rope     |-> Op("per_block", "rope",
                        <<"kcur_reshaped", "inp_pos", "rope_freqs_weight">>)]

CacheUpdateOps ==
  [vcur              |-> SyncOp("per_block", "mul_mat", <<"attn_v_weight", "attn_norm">>),
   k_cache_view      |-> Bufferless("per_block", "view", <<"cache_k">>),
   k_cache_view_copy |-> Bufferless("per_block", "copy", <<"kcur_rope">>),
   vcur_transposed   |-> Op("per_block", "transpose", <<"vcur">>),
   v_cache_view      |-> Bufferless("per_block", "view", <<"cache_v">>),
   v_cache_view_copy |-> Bufferless("per_block", "copy", <<"vcur_transposed">>)]

ScoreOps ==
  [v  |-> Bufferless("per_block", "view", <<"cache_v">>),
   k  |-> Bufferless("per_block", "view", <<"cache_k">>),
   q  |-> Bufferless("per_block", "permute", <<"qcur_rope">>),
   kq |-> SyncOp("per_block", "mul_mat", <<"k", "q">>)]

AttentionOps ==
  [kq_soft_max     |-> SyncOp("per_block", "softmax", <<"kq", "kq_mask">>),
   kqv             |-> SyncOp("per_block", "mul_mat", <<"v", "kq_soft_max">>),
   kqv_merged      |-> Bufferless("per_block", "permute", <<"kqv">>),
   kqv_merged_cont |-> Bufferless("per_block", "cont", <<"kqv_merged">>),
   kqv_out         |-> SyncOp("per_block", "mul_mat",
                                  <<"attn_output_weight", "kqv_merged_cont">>)]

FfnNormOps ==
  [ffn_inp  |-> Op("per_block", "add", <<"kqv_out", "l_out">>),
   norm_out |-> Op("per_block", "rms_norm", <<"ffn_inp">>),
   ffn_norm |-> Op("per_block", "mul", <<"norm_out", "ffn_norm_weight">>)]

FfnGateOps ==
  [ffn_gate     |-> SyncOp("per_block", "mul_mat", <<"ffn_gate_weight", "ffn_norm">>),
   ffn_silu     |-> Op("per_block", "silu", <<"ffn_gate">>),
   ffn_up       |-> SyncOp("per_block", "mul_mat", <<"ffn_up_weight", "ffn_norm">>),
   ffn_gate_par |-> Op("per_block", "mul", <<"ffn_silu", "ffn_up">>)]

FfnOutOps ==
  [ffn_out |-> SyncOp("per_block", "mul_mat", <<"ffn_down_weight", "ffn_gate_par">>),
   l_out   |-> Op("per_block", "add", <<"ffn_out", "ffn_inp">>)]

OutputOps ==
  [attn_residual |-> Op("global_output", "get_rows", <<"kqv_out", "inp_out_ids">>),
   prev_residual |-> Op("global_output", "get_rows", <<"l_out", "inp_out_ids">>),
   final_norm    |-> Op("global_output", "rms_norm", <<"l_out">>),
   result_norm   |-> Op("global_output", "mul", <<"final_norm", "output_norm_weight">>),
   result_output |-> SyncOp("global_output", "mul_mat",
                                <<"output_weight", "result_norm">>)]

-----------------------------------------------------------------------------

\* The enumeration llama_op_types, whose values index the specialisations.
LlamaOpTypes ==
  <<"inp_embd", "token_embd_weight", "inp_tokens", "inp_pos", "inp_out_ids",
    "rope_freqs_weight", "output_weight", "output_norm_weight", "attn_q_weight",
    "attn_k_weight", "attn_v_weight", "attn_output_weight", "attn_norm_weight",
    "ffn_gate_weight", "ffn_up_weight", "ffn_down_weight", "ffn_norm_weight",
    "cache_k", "cache_v", "kq_mask", "norm", "attn_norm", "qcur", "qcur_reshaped",
    "qcur_rope", "kcur", "kcur_reshaped", "kcur_rope", "vcur", "k_cache_view",
    "k_cache_view_copy", "vcur_transposed", "v_cache_view", "v_cache_view_copy",
    "v", "k", "q", "kq", "kq_soft_max", "kqv", "kqv_merged", "kqv_merged_cont",
    "kqv_out", "ffn_inp", "norm_out", "ffn_norm", "ffn_gate", "ffn_silu", "ffn_up",
    "ffn_gate_par", "ffn_out", "l_out", "attn_residual", "prev_residual",
    "final_norm", "result_norm", "result_output">>

Ops == {LlamaOpTypes[i] : i \in DOMAIN LlamaOpTypes}

\* core_bases: the model inherits from every specialisation.
CoreTraits ==
  LET Groups == {ModelInputs, BlockWeights, CachesAndMask, InputNorm, QueryOps, KeyOps,
                 CacheUpdateOps, ScoreOps, AttentionOps, FfnNormOps, FfnGateOps,
                 FfnOutOps, OutputOps}
  IN [o \in Ops |-> (CHOOSE g \in Groups : o \in DOMAIN g)[o]]

\* Variant: the multiplications of the feed-forward network have no latches.
BlockingOpsNoFfn ==
  {o \in Ops \ (DOMAIN FfnGateOps \cup DOMAIN FfnOutOps) : CoreTraits[o].sync}

\* concept blocking.
BlockingOps == {o \in Ops : CoreTraits[o].sync}

\* get_adjacent_value: the operations whose data a kernel is handed.
InputsOf == [o \in Ops |-> {CoreTraits[o].inputs[i] : i \in DOMAIN CoreTraits[o].inputs}]

-----------------------------------------------------------------------------
(* execution_planner_constexpr and the lists of threading_strategy.        *)

\* Kernels that the lists leave out; the counts do not.
SkippedKernels == {"permute", "reshape", "transpose", "view"}

LayerCount(layer) == Cardinality({o \in Ops : CoreTraits[o].layer = layer})

LayerOps(layer) ==
  SelectSeq(LlamaOpTypes, LAMBDA o : /\ CoreTraits[o].layer = layer
                                     /\ CoreTraits[o].kernel \notin SkippedKernels)

\* A value-initialised array of LayerCount entries into which LayerOps are
\* written: the entries left over keep the enumeration's value 0.
LayerList(layer) ==
  LET listed == LayerOps(layer)
  IN [i \in 1 .. LayerCount(layer) |->
        IF i <= Len(listed) THEN listed[i] ELSE LlamaOpTypes[1]]
=============================================================================
