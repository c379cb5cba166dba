SPECIFICATION Spec
CONSTANTS
    Holders = {h1, h2, h3}
    Kinds = {"opt", "res", "owned", "anystatus", "generator"}
    Values = {v1, v2}
    Errors = {e1, e2}
    Length = 2
    BrokenUses = {}
    Null = Null
    Raw = Raw
    Moved = Moved
INVARIANTS LifetimesExact ContentsExact
SYMMETRY Symmetry
CHECK_DEADLOCK FALSE
