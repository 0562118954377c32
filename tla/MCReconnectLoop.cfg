SPECIFICATION FairSpec
CONSTANTS
    Initial = 1
    MaxPause = 6
    Budget = 16
    Poll = 2
    MaxLatency = 2
    MaxAttempts = 3
    MaxLost = 2
    ReleaseTime = 13
CHECK_DEADLOCK FALSE
INVARIANTS
    BackoffMatchesAttempt
    BusyIsAccountedFor
    RefusalsEndRacesRetry
    SignalSeenInTime
    GaugeIsHonest
PROPERTIES
    ForeignHolderIsFatal
