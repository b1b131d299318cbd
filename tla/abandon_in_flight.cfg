\* A row abandoned while its request is in flight.
CONSTANTS
    NULL = NULL
    LastInstant = 12
    Replica = {r1}
    Delivery = {1}
    Mode <- AllManaged
    Poison <- NoPoison
    Skew <- NoSkew
    MaxAttempts = 2
    Timeout = 1
    Backoff <- Schedule
    RetryAfters = {NULL}
    ExternalTimeout = NULL
    MaxCycles = 1
    LockBuffer = 2
    BatchSize = 1
    DispatchConcurrency = 1
    AdminOps = {"abandon"}
    LockLatency = 1
    WriteLatency = 1
    MaxTime = 7
    MaxFaults = 0
SPECIFICATION Spec
PROPERTY DeadLetterIsFinal
