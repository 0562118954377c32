SPECIFICATION FairSpec
CONSTANTS
    MaxLsn = 3
    MaxFaults = 1
    Faults <- NetworkFaults
    ForwardOnly = TRUE
PROPERTIES
    SlotCatchesUp
