\* The bounds of MCMemoryMapping.cfg.
CONSTANTS
  Arena = arena
  Buffers = {arena}
  Alignment = 2
  CacheLine = 4
  Modulus = 512
  MaxSize = 40
  MaxBlocks = 3
  MaxMappings = 3
  BlockCount = 2
  ByteSizes = {1, 2, 3, 4, 5, 8}
  OpOrder <- MCOpOrder
  PerBlockAlloc <- MCPerBlockAlloc
  Bufferless <- MCBufferless
SPECIFICATION Spec
CHECK_DEADLOCK FALSE
INVARIANT EverythingIsMapped
