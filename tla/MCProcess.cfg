SPECIFICATION Spec
CONSTANTS
    Configs <- MCConfigs
    MaxLimit = 2
    Interval = 2
    Poll = 1
    MaxLatency = 1
    MaxFrames = 4
    MaxReconnects = 2
    MaxTime = 4
CHECK_DEADLOCK FALSE
INVARIANTS
    TypeOK
    CountsWhatTheSinkTook
    GaugeFollowsTheBuffer
    ReconnectsAreExplained
    ReportsKeepComing
    ClockTellsOfSends
    AgeIsTrue
