SPECIFICATION Spec
CONSTANTS
    Tables = {"items", "users"}
    Identity <- MixedIdentity
    k1 = k1
    k2 = k2
    Ids <- TwoIds
    Values = {"a"}
    MaxEvents = 2
    MaxTx = 2
    MaxChanges = 3
    MaxFailures = 1
SYMMETRY AnyId
CHECK_DEADLOCK FALSE
INVARIANTS
    TypeOK
    ReplicaFollows
    EventsAreTrue
    EmptyBetweenTransactions
    LimitIsExact
