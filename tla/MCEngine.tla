------------------------------ MODULE MCEngine ------------------------------
(* Engine over the lists of the LLaMA graph.  Each constant is one LET: TLC *)
(* unfolds the body of a constant's value at each use when it collects      *)
(* coverage, but not a LET.                                                 *)
EXTENDS Engine, OpGraph

LlamaGlobalInput == LET list == LayerList("global_input") IN list
LlamaPerBlock == LET list == LayerList("per_block") IN list
LlamaGlobalOutput == LET list == LayerList("global_output") IN list
LlamaBlocking == LET ops == BlockingOps IN ops
LlamaInputs == LET inputs == InputsOf IN inputs
LlamaCarried == LET list == LayerOps("per_block")
                    pairs == {<<i, j>> \in (DOMAIN list) \X (DOMAIN list) :
                                i < j /\ list[j] \in InputsOf[list[i]]}
                IN {<<list[p[1]], list[p[2]]>> : p \in pairs}
LlamaPlanOrder == LET order == SelectSeq(LlamaOpTypes, LAMBDA o : o \in BlockingOps) IN order

\* A blocking operation begins between ffn_inp and the l_out of either block.
ASSUME LlamaCarriedAreApart == CarriedAreApart
=============================================================================
