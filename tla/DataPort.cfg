\* The pin-level handshake implements the one-byte mailboxes.
SPECIFICATION Spec
CONSTANTS
    Data = {b1, b2, b3}
    Garbage = Garbage
INVARIANTS
    NoContention
PROPERTIES
    ImplementsChannel
