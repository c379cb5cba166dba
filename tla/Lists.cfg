SPECIFICATION Spec
CONSTANTS
  Handle = {a, b}
  Kinds = {"array", "objects", "segmented", "fixed", "bits"}
  Value = {zero, one}
  Off = zero
  On = one
  FirstBytes = 1
  ByteWidth = 2
  Raw = Raw
  Moved = Moved
  None = None
  FirstSpots = 2
  Slack = 1
  MaxElems = 3
  MaxItems = 4
  MaxSpots = 3
  BrokenUses = {}
SYMMETRY Symmetry
INVARIANTS ContentsExact LifetimesRespected BuffersAccounted AssertionsHold
CHECK_DEADLOCK FALSE
