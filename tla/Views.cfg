SPECIFICATION Spec
CONSTANTS
    MaxLength = 3
    Containers <- Numbered
    Nested <- ListsOfLists
    Counts = {0, 1, 2, 15}
    MaxDepth = 3
    Word = 16
    BrokenUses = {}
INVARIANTS YieldsExact BoundsExact
CHECK_DEADLOCK FALSE
