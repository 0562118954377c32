SPECIFICATION Spec
CONSTANTS
    MaxLsn = 4
    MaxFaults = 3
    Faults <- AllFaults
    ForwardOnly = FALSE
INVARIANTS
    TypeOK
    NoLoss
    NoFalseClaim
    NoGap
    OrderlyStopDrains
