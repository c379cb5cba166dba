SPECIFICATION Spec
CONSTANTS
  Thread = {t1, t2}
  Handle = {h1, h2, h3}
  Payload = {p1}
  Null = Null
INVARIANT WeakAssertionHolds
