SPECIFICATION Spec
CONSTANTS
    Kinds = {"c", "page", "reserving"}
    NumPages = 4
    PageSize = 2
    PagesReserved = 2
    Alignments = {1, 3, 4}
    MallocAlign = 2
    Sizes = {1, 3, 4}
    PreferredSizes = {0, 4, 5}
    BrokenUses = {}
    Null = Null
INVARIANTS PagesAccounted SlicesUsable
CHECK_DEADLOCK FALSE
