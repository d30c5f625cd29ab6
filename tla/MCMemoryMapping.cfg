\* Byte sizes below and at an alignment unit, below and at the cache line,
\* above it and at two lines; three mappings, of which the third finds
\* the offset of the second.
CONSTANTS
  Arena = arena
  Buffers = {arena}
  Alignment = 2
  CacheLine = 4
  Modulus = 512
  MaxSize = 40
  MaxBlocks = 3
  MaxMappings = 3
  BlockCount = 2
  ByteSizes = {1, 2, 3, 4, 5, 8}
  OpOrder <- MCOpOrder
  PerBlockAlloc <- MCPerBlockAlloc
  Bufferless <- MCBufferless
SPECIFICATION Spec
CHECK_DEADLOCK FALSE
INVARIANTS
  TypeOK
  ConstructionFits
  BuffersApart
  NoStaleBuffer
