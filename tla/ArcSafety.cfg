SPECIFICATION Spec
CONSTANTS
  Thread = {t1, t2, t3}
  Handle = {h1, h2, h3, h4}
  Payload = {p1, p2}
  Null = Null
SYMMETRY Symmetry
INVARIANTS FullInv CountsMatchHandles NoUseAfterFree UniqueIsExclusive NoDataRace StrongAssertionsHold Reclaimed
PROPERTIES NoResurrection FailuresJustified ImplementsOwnership
