CONSTANTS
    Ids = {1, 2, 3}
    Values = {1, 2}
    Filters <- MCFilters
    Sizes <- MCSizes
    MaxChanges = 2
SPECIFICATION Spec
CHECK_DEADLOCK FALSE
INVARIANTS
    NothingSkipped
    NothingTwice
    ListedMatch
PROPERTY PagesEnd
