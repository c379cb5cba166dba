SPECIFICATION FairSpec
CONSTANTS
  Thread = {t1, t2, t3}
  Handle = {h1, h2, h3}
  Payload = {p1}
  Null = Null
PROPERTIES CallsReturn EventuallyFreed
