---------------------------- MODULE KernelTraits ----------------------------
(***************************************************************************)
(* What kernel_dispatcher asks of an operation before it can be compiled   *)
(* (common/monolithic_dispatcher.hpp): that its dimensions obey the        *)
(* static_asserts of its kernel (common/kernel_traits.hpp), and that the   *)
(* architecture has a kernel_dispatcher_impl for its types (cpu/).  The    *)
(* types are those of the profile q8_gqa, the only one there is.           *)
(***************************************************************************)
EXTENDS ModelTraits

-----------------------------------------------------------------------------
(* Types.                                                                  *)

\* kernel_type_profile_traits of q8_gqa.
Profile == [weight |-> "block_q8_0", compute |-> "float", cache |-> "int16_t",
            index |-> "int32_t"]

\* The part of the profile that gives an operation its output_type.  The
\* query, key and value weights have the types of what is computed from them.
ProfileEntry ==
  Each({"token_embd_weight", "output_weight", "output_norm_weight", "attn_output_weight",
        "attn_norm_weight", "ffn_gate_weight", "ffn_up_weight", "ffn_down_weight",
        "ffn_norm_weight"}, "weight")
    @@ Each({"inp_tokens", "inp_pos", "inp_out_ids"}, "index")
    @@ Each({"cache_k", "cache_v", "k_cache_view", "k_cache_view_copy", "v_cache_view",
             "v_cache_view_copy", "v", "k"}, "cache")
    @@ Each(Ops, "compute")

OutputType == [o \in Ops |-> Profile[ProfileEntry[o]]]

\* concept is_integral_type.  (is_valid_tensor_type and
\* is_valid_activation_type hold for every type that has a size.)
IsIntegral(type) == type \in {"int16_t", "int32_t"}

-----------------------------------------------------------------------------
(* The static_asserts of kernel_traits: out is the operation's dims, a, b  *)
(* and c are those of its inputs.                                          *)

Elements(dims) == dims[1] * dims[2] * dims[3] * dims[4]

SameBatch(a, b) == a[3] = b[3] /\ a[4] = b[4]

MulFits(out, a, b) ==
  /\ a[1] = b[1] /\ a[1] = out[1] /\ out[2] = a[2]
  /\ b[2] \in {1, a[2]}
  /\ SameBatch(a, b)
  /\ Elements(out) = Elements(a)
  /\ Elements(out) = Elements(b) \/ (b[2] = 1 /\ a[2] > 1)

\* rms_norm and silu.
ElementwiseFits(out, a) == out = a

AddFits(out, a, b) == a = b /\ out = a

SoftmaxFits(out, a, b) == out = a /\ b[1] = a[1]

\* The rules of mul_mat say nothing of the columns of b.
MulMatFits(out, a, b) ==
  /\ a[1] = b[1] /\ out[1] = a[2]
  /\ a[3] = b[3] \/ a[3] * (b[3] \div a[3]) = b[3]
  /\ a[4] = b[4]
  /\ SameBatch(out, b)

GetRowsFits(out, a, b) ==
  /\ out = Matrix(a[1], b[1])
  /\ b = Vector(b[1])

RopeFits(out, a, b, c) ==
  /\ out = a
  /\ b = Vector(a[2]) /\ c = Vector(a[1] \div 2)
  /\ a[1] % 2 = 0

\* cont, and, if they were ever compiled, reshape, transpose and permute; copy
\* asks it of the operation and its source.
SameElements(out, a) == Elements(out) = Elements(a)

ViewFits(out, a) == Elements(a) >= Elements(out)

\* The rules of the kernel of operation o, in model m.
Fits(m, o) ==
  LET dims   == Dims(m)
      kernel == CoreTraits[o].kernel
      out    == dims[o]
      in(i)  == dims[CoreTraits[o].inputs[i]]
      index  == OutputType[CoreTraits[o].inputs[2]]
  IN CASE kernel = "none"                 -> TRUE
       [] kernel = "mul"                  -> MulFits(out, in(1), in(2))
       [] kernel \in {"rms_norm", "silu"} -> ElementwiseFits(out, in(1))
       [] kernel = "add"                  -> AddFits(out, in(1), in(2))
       [] kernel = "softmax"              -> SoftmaxFits(out, in(1), in(2))
       [] kernel = "mul_mat"              -> MulMatFits(out, in(1), in(2))
       [] kernel = "get_rows"             -> GetRowsFits(out, in(1), in(2)) /\ IsIntegral(index)
       [] kernel = "rope"                 -> RopeFits(out, in(1), in(2), in(3))
       [] kernel = "view"                 -> ViewFits(out, in(1))
       [] OTHER                           -> SameElements(out, in(1))

-----------------------------------------------------------------------------
(* kernel_dispatcher_impl: for each architecture, the kernel and the types *)
(* of its output and its inputs.                                           *)

\* cpu_arch.hpp, for cpu_arch_index 0.
ScalarBodies ==
  {<<"get_rows", "float", "block_q8_0", "int32_t">>, <<"get_rows", "float", "float", "int32_t">>,
   <<"rms_norm", "float", "float">>, <<"silu", "float", "float">>, <<"cont", "float", "float">>,
   <<"transpose", "float", "float">>, <<"permute", "float", "float">>,
   <<"reshape", "float", "float">>, <<"view", "int16_t", "int16_t">>,
   <<"copy", "int16_t", "float">>, <<"add", "float", "float", "float">>,
   <<"mul", "float", "float", "float">>, <<"mul", "float", "float", "block_q8_0">>,
   <<"mul_mat", "float", "float", "float">>, <<"mul_mat", "float", "int16_t", "float">>,
   <<"mul_mat", "float", "block_q8_0", "float">>, <<"softmax", "float", "float", "float">>,
   <<"rope", "float", "float", "int32_t", "float">>}

\* The files of the other architectures have the same types, each under its own
\* index: avx_2.hpp, arm_neon.hpp, arm_sve2.hpp.  The order of the parameters of
\* impl is not represented: most bodies of the two ARM files take the output
\* last, though kernel_dispatcher passes it first.  They compile, and are empty.
Avx2Bodies == ScalarBodies
NeonBodies == ScalarBodies
Sve2Bodies == ScalarBodies

\* avx_512.hpp writes int26_t where the others have int16_t, and its softmax has
\* two parameters of one name: for either reason it does not compile.
Avx512Bodies == {[i \in DOMAIN body |-> IF body[i] = "int16_t" THEN "int26_t" ELSE body[i]]
                   : body \in ScalarBodies}

\* The instantiation that kernel_dispatcher::impl names for operation o.
Signature(o) == <<CoreTraits[o].kernel, OutputType[o]>>
                  \o [i \in DOMAIN CoreTraits[o].inputs |-> OutputType[CoreTraits[o].inputs[i]]]

\* Each architecture whose file compiles has a body for operation o.
HasBody(o) == Signature(o) \in Avx2Bodies \cap NeonBodies \cap Sve2Bodies \cap ScalarBodies

\* The operations that compile in every model.
Dispatchable == {o \in Ops : HasBody(o) /\ \A m \in Models : Fits(m, o)}

-----------------------------------------------------------------------------
(* The counters of executed kernels.                                       *)

\* depth: a leaf has 0.  That of ffn_inp disregards its second input, l_out,
\* whose depth depends on it.
DepthInputs(o) == IF o = "ffn_inp" THEN {"kqv_out"} ELSE InputsOf[o]

Depth ==
  LET depth[o \in Ops] ==
        LET below == {depth[i] : i \in DepthInputs(o)}
        IN IF below = {} THEN 0 ELSE 1 + CHOOSE d \in below : \A e \in below : e <= d
  IN depth

\* The elements of depths_new, which kernel_dispatcher::impl increments at the
\* operation's depth.
DepthCounters == 0 .. 21
=============================================================================
