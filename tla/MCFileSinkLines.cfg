SPECIFICATION Spec
CONSTANTS
    MaxTx = 2
    LineLengths <- ShortAndLong
    Capacity = 2
    MaxEnds = 1
    MaxDrops = 0
CHECK_DEADLOCK FALSE
INVARIANTS
    ReleasedIsReadable
