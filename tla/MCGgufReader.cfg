\* The lengths: files that end in the header, after it, in the metadata, in
\* the tensors, and at the last byte of either; the longest holds three kvs,
\* or two with nested arrays, or three tensors.
CONSTANTS
  Lengths = {0, 24, 25, 42, 61, 80, 120}
  MaxString = 1
  MaxArray = 2
  MaxTensors = 3
  MaxKvs = 3
  MaxDims = 2
  AllocatedDims = 1
  FileTypes = {"uint32", "string", "array"}
  Architectures = {"llama", "other"}
  Keys <- MCKeys
  Names <- MCNames
SPECIFICATION Spec
INVARIANTS
  ReaderTypeOK
  InsideFile
  ArraysHeld
  NothingLeaks
  ParametersAreLatest
  LayersAscend
