SPECIFICATION Spec
CONSTANTS
    Payloads <- SomePayloads
    Messages <- SomeMessages
CHECK_DEADLOCK FALSE
INVARIANTS
    TypeOK
    AcceptedMeansExact
    AcceptsEveryMessage
    MemoryFollowsTheBytes
    WorkFollowsTheBytes
