\* Two buffers to move between; a block that follows a block that was freed;
\* sizes of up to two alignment units and a half, so that three claims meet.
CONSTANTS
  Buffers = {b1, b2}
  Alignment = 2
  Modulus = 16
  MaxSize = 5
  MaxBlocks = 3
SPECIFICATION BufSpec
INVARIANTS
  BufTypeOK
  OneOwner
  ClaimsInside
  ClaimsApart
  ClaimsAligned
