SPECIFICATION Spec
CONSTANTS
  Thread = {t1, t2, t3}
  None = None
  FirstItems = 1
  MaxItems = 3
  MaxObjects = 3
CONSTRAINT Bounded
SYMMETRY Symmetry
INVARIANTS PointersValid CountsMatch StackExact BuffersReachable
PROPERTY FailuresJustified
CHECK_DEADLOCK FALSE
