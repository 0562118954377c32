SPECIFICATION FairSpec
CONSTANTS
    MaxLsn = 3
    MaxFaults = 2
    Faults <- RecoverableFaults
    ForwardOnly = TRUE
PROPERTIES
    NoFalseAlarm
    ImplementsDelivery
    EventuallyStored
    EventuallyReleased
    SlotKeepsUp
    SignalStops
