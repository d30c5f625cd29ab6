\* One thread suffices: it counts at every operation.
CONSTANTS
  N = 1
  MaxCount = 7
  BlockCount = 2
  GlobalInput <- LlamaGlobalInput
  PerBlock <- LlamaPerBlock
  GlobalOutput <- LlamaGlobalOutput
  Blocking <- LlamaBlocking
  Inputs <- LlamaInputs
  Carried <- LlamaCarried
SPECIFICATION Spec
INVARIANT DepthsInRange
