\* Two replicas whose clocks differ, on one managed row; the database is as slow
\* as lock_buffer allows.
CONSTANTS
    NULL = NULL
    LastInstant = 12
    Replica = {r1, r2}
    Delivery = {1}
    Mode <- AllManaged
    Poison <- NoPoison
    Skew <- AheadOne
    MaxAttempts = 2
    Timeout = 1
    Backoff <- Schedule
    RetryAfters = {NULL}
    ExternalTimeout = NULL
    MaxCycles = 1
    LockBuffer = 2
    BatchSize = 1
    DispatchConcurrency = 1
    AdminOps = {"complete"}
    LockLatency = 1
    WriteLatency = 1
    MaxTime = 9
    MaxFaults = 2
SPECIFICATION Spec
INVARIANTS TypeOK LeaseHeld OneCallAtATime AcksBounded NoPrematureDeadLetter
PROPERTY ImplementsLifecycle
