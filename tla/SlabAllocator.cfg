SPECIFICATION Spec
CONSTANTS
  Null = Null
  Zero = Zero
  Data = Data
  WordSize = 1
  Backing = "growable"
  Blocksizes <- MCBlocksizes
  Spots = 2
  MaxRequest = 3
INVARIANTS FreeListsExact AssertionsHold RefusedOnlyWhenFull
PROPERTY ImplementsMemory
CHECK_DEADLOCK FALSE
