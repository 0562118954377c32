SPECIFICATION SharedSpec
CONSTANTS
    MaxLsn = 2
    MaxFaults = 1
    Faults <- SharedFaults
    ForwardOnly = TRUE
PROPERTIES
    NeverCreatesSlot
