\* Every access, disk errors, a full disk and resets.
SPECIFICATION Spec
CONSTANTS
    N = 4
    C = 2
    E = 3
    FSInfo = TRUE
    Blocks = {0, 3, 5}
    Values = {0, 1}
    Layouts <- MCLayouts
INVARIANTS
    CardSound
    PositionKnown
PROPERTIES
    TransfersTheBlock
    ImageKept
    FullMeansFull
    CloseSaves
