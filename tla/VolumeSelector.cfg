\* The volume selector and the slot manager, RESET at any time.
SPECIFICATION SelectorSpec
CONSTANTS
    c1 = c1
    c2 = c2
    NoCard = NoCard
    Cards <- MCCards
    Files <- MCFiles
    Images <- MCImages
    Rows = 2
    Keys <- MCKeys
INVARIANTS
    RowsTrue
    Outcome
PROPERTIES
    OnlyChosenSaved
