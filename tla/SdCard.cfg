\* A high capacity card, which is moved, and one that answers anything.
SPECIFICATION Spec
CONSTANTS
    c1 = c1
    c2 = c2
    Cards = {c1, c2}
    NoCard = NoCard
    Given <- MCGiven
    kind1 = "broken"
    kind2 = "sdhc"
    Kind <- MCKind
    Sectors = {1}
    Size = 2
    Values = {0, 1}
    Contents <- MCContents
    SectorBytes = 2
    AddressMod = 8
    ClockMod = 16
    Idles = 2
INVARIANTS
    DriverSound
PROPERTIES
    ImplementsDiskIO
    CallEnds
