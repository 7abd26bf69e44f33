SPECIFICATION Spec
CONSTANTS
  UnitSizes <- Sizes
  SyncBufSize = 9
  CheckCount = 2
  ChunkSizes = {1, 4, 9, 16}
  Wrap = 7
  MaxJumps = 1
INVARIANT CarryFitsUnit
