\* One thread suffices: the lists are the same for all.
CONSTANTS
  N = 1
  MaxCount = 7
  BlockCount = 2
  GlobalInput <- LlamaGlobalInput
  PerBlock <- LlamaPerBlock
  GlobalOutput <- LlamaGlobalOutput
  Blocking <- LlamaBlocking
  Inputs <- LlamaInputs
  Carried <- LlamaCarried
SPECIFICATION Spec
INVARIANT BlocksRunBlockOps
