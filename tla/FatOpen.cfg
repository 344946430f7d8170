\* Two drives and the cards of MCFatOpen, exchanged between the calls, with
\* failures of every access.
SPECIFICATION Spec
CONSTANTS
    WORD = 16
    DWORD = 64
    SS = 4
    SZDIRE = 2
    MIN_SECTORS = 4
    MAX_FAT12 = 2
    MAX_FAT16 = 4
    MAX_FAT32 = 8
    Drives = {0, 1}
    Cards = {"parted", "floppy", "loop", "astray", "free", "noroot", "blank", "empty", "tight"}
    Content <- Disks
    NoCard = NoCard
    Given <- MCGiven
    Images = {10, 171}
    MAX_DIR = 12
    Mounts = 2
INVARIANTS
    OneVolume
    OpenIsRight
    VolumeSound
    WindowInside
PROPERTIES
    CallEnds
