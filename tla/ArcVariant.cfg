SPECIFICATION Spec
CONSTANTS
  Thread = {t1, t2}
  Variant = {v1, v2, v3, v4}
  Payload = {p1}
  Null = Null
SYMMETRY Symmetry
INVARIANTS Balance OwnersIntact NoLeak
