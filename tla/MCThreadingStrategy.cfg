\* Three threads, two blocks: a lagging and a leading thread with one between,
\* and a step from one block to the next.
CONSTANTS
  N = 3
  MaxCount = 7
  BlockCount = 2
  GlobalInput <- LlamaGlobalInput
  PerBlock <- LlamaPerBlock
  GlobalOutput <- LlamaGlobalOutput
  Blocking <- LlamaBlocking
  Inputs <- LlamaInputs
  Carried <- LlamaCarried
SPECIFICATION Spec
INVARIANTS
  TypeOK
  NobodyLapped
  StableInputs
  FreshInputs
  CarriedIsPrevious
  KernelsFit
PROPERTIES
  EveryoneFinishes
  EachLatchIsUsedOnce
