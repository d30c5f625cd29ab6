\* Three workers, one token, two blocks: a first finisher, a straggler and one
\* between them.
CONSTANTS
  N = 3
  Rounds = 1
  MaxCount = 7
  BlockCount = 2
  GlobalInput <- LlamaGlobalInput
  PerBlock <- LlamaPerBlock
  GlobalOutput <- LlamaGlobalOutput
  Blocking <- LlamaBlocking
  Inputs <- LlamaInputs
  Carried <- LlamaCarried
  PlanOrder <- LlamaPlanOrder
SPECIFICATION EngineSpec
INVARIANTS
  EIInv
  AllReachTheEnd
  ArenaOutlivesKernels
  EveryoneWalked
PROPERTIES
  ModelTerminates
