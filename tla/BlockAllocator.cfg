SPECIFICATION Spec
CONSTANTS
  Null = Null
  Zero = Zero
  Data = Data
  WordSize = 2
  Backing = "growable"
  BufferSizes = {4, 7}
  BlockBytes = {1, 3}
  Alignments = {1, 4}
  PoolSpots = {1}
  HeaderSize = 2
  BrokenUses = {}
  MaxRequest = 5
INVARIANTS FreeListExact AssertionsHold
PROPERTY ImplementsMemory
CHECK_DEADLOCK FALSE
