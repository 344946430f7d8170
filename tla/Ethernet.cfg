\* Frames that arrive, a limit that only one of them meets, and frames that are
\* sent, one as long as the buffer.
SPECIFICATION Spec
CONSTANTS
    Base = 4
    Ring = 8
    MacBytes = 1
    Arrivals <- TwoFrames
    Sends <- UpToFull
    Limits = {1, 15}
    Chips = {TRUE, FALSE}
INVARIANTS
    DriverSound
PROPERTIES
    ImplementsFrameIO
    CallsReturn
