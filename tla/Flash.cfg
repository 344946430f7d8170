\* Two banks and a half, with resets at any time.
SPECIFICATION FlashSpec
CONSTANTS
    Length = 10
    PageBytes = 3
    Junk = {0, 64, 248}
INVARIANTS
    PagesInPlace
    Flashed
