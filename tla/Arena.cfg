SPECIFICATION Spec
CONSTANTS
  Null = Null
  Backings <- MCBackings
  BufferSizes = {10}
  MaxMemory = 10
  NodeSize = 2
  NodeAlign = 2
  Bookkeeping = 3
  MaxRequest = 2
  Alignments = {1, 2}
  MaxPieces = 3
  MaxScopes = 2
INVARIANTS ListExact PiecesDisjoint
PROPERTY DestructionExact
CHECK_DEADLOCK FALSE
