\* One replica working through three rows one at a time; row 2 is rejected.
CONSTANTS
    NULL = NULL
    LastInstant = 12
    Replica = {r1}
    Delivery = {1, 2, 3}
    Mode <- AllManaged
    Poison <- PoisonTwo
    Skew <- NoSkew
    MaxAttempts = 2
    Timeout = 1
    Backoff <- Schedule
    RetryAfters <- ParsedHeaders
    ExternalTimeout = NULL
    MaxCycles = 1
    LockBuffer = 1
    BatchSize = 2
    DispatchConcurrency = 1
    AdminOps = {"complete", "abandon"}
    LockLatency = 0
    WriteLatency = 0
    MaxTime = 4
    MaxFaults = 2
SPECIFICATION Spec
INVARIANT AttemptsBounded
PROPERTIES BackoffRespected DeadLetterByAttempts RedeliveryRaisesAttempt
