\* Reconfiguration, reset and card swaps, two cards, two image numbers, with
\* the addresses of the blocks in every configuration.
SPECIFICATION Spec
CONSTANTS
    c1 = c1
    c2 = c2
    NoCard = NoCard
    Cards <- MCCards
    Files <- MCFiles
    Images <- MCImages
    Units <- MCUnits
    Blks <- MCBlks
SYMMETRY MCSymmetry
INVARIANTS
    ModeMatchesConfig
    HandleMatchesSlot
    HandleOnInsertedCard
    BlocksApart
PROPERTIES
    SaveIsOrdered
    SaveTakesEffect
