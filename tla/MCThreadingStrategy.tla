------------------------- MODULE MCThreadingStrategy -------------------------
(* ThreadingStrategy over the lists of the LLaMA graph.  Each constant is   *)
(* one LET: TLC unfolds the body of a constant's value at each use when it  *)
(* collects coverage, but not a LET.                                        *)
EXTENDS ThreadingStrategy, KernelTraits

LlamaGlobalInput == LET list == LayerList("global_input") IN list
LlamaPerBlock == LET list == LayerList("per_block") IN list
LlamaGlobalOutput == LET list == LayerList("global_output") IN list
LlamaBlocking == LET ops == BlockingOps IN ops
LlamaInputs == LET inputs == InputsOf IN inputs
LlamaCarried == LET list == LayerOps("per_block")
                    pairs == {<<i, j>> \in (DOMAIN list) \X (DOMAIN list) :
                                i < j /\ list[j] \in InputsOf[list[i]]}
                IN {<<list[p[1]], list[p[2]]>> : p \in pairs}

\* README.md:52-54 has the pool run the global_input operations once and then,
\* for each block, the per_block operations: while a thread is in a block its
\* operation is a per_block one.
BlocksRunBlockOps == \A t \in Threads :
  pos[t] \in FirstInBlocks .. LastInBlocks => CoreTraits[At(t).op].layer = "per_block"

-----------------------------------------------------------------------------

Compiled == LET ops == Dispatchable IN ops

\* Whatever kernel a thread is in can be instantiated for each of the supported
\* models on each architecture that compiles, which are all but AVX-512: the
\* dimensions that core_traits derives from the model obey the static_asserts of
\* its kernel, and there is a body for its types.  The same holds of the reshapes
\* and views it reads, which nothing instantiates and so no compiler checks.
KernelsFit == \A t \in Threads : pc[t] = "kernel" =>
                \A o \in {At(t).op} \cup InputsOf[At(t).op] :
                  CoreTraits[o].kernel = "none" \/ o \in Compiled

\* monolithic_dispatcher.hpp:30 declares `array<size_t, 22> depths_new{}`: a
\* kernel that is executed counts within it.
DepthsInRange == \A t \in Threads :
  pc[t] = "kernel" => Depth[At(t).op] \in DepthCounters
=============================================================================
