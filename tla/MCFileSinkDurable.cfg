SPECIFICATION Spec
CONSTANTS
    MaxTx = 2
    LineLengths <- ShortAndLong
    Capacity = 2
    MaxEnds = 2
    MaxDrops = 1
CHECK_DEADLOCK FALSE
INVARIANTS
    TypeOK
    ReleasedIsOnDevice
    NoGapInFile
    UnreadableOnlyAfterAnEnd
PROPERTIES
    StoresForDelivery
