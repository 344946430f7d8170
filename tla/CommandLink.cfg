\* Every command of the Apple, with resets, pages of two bytes.
SPECIFICATION FairSpec
CONSTANTS
    P = 2
    Contents <- MCContents
    bootblocks <- MCBootblocks
    Flash <- MCFlash
    Volumes <- MCVolumes
    Requests <- MCRequests
INVARIANTS
    InSync
PROPERTIES
    OnlyBuffer
    AnswersArrive
    ImplementsDevice
    CallsReturn
