SPECIFICATION SharedSpec
CONSTANTS
    MaxLsn = 4
    MaxFaults = 3
    Faults <- SharedFaults
    ForwardOnly = TRUE
INVARIANTS
    TheftIsCaught
