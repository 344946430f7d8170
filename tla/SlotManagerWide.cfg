\* README.md:33: "!" directs both drives to SLOT 1.
SPECIFICATION Spec
CONSTANTS
    c1 = c1
    c2 = c2
    NoCard = NoCard
    Cards <- MCCards
    Files <- MCFiles
    Images <- MCImages
    Units <- MCUnits
    Blks <- MCBlks
INVARIANT
    WideSelected
