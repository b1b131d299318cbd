\* One replica dispatching and sweeping two external rows.
CONSTANTS
    NULL = NULL
    LastInstant = 12
    Replica = {r1}
    Delivery = {1, 2}
    Mode <- AllExternal
    Poison <- NoPoison
    Skew <- NoSkew
    MaxAttempts = 2
    Timeout = 1
    Backoff <- Schedule
    RetryAfters = {NULL}
    ExternalTimeout = 1
    MaxCycles = 2
    LockBuffer = 1
    BatchSize = 2
    DispatchConcurrency = 2
    AdminOps = {"retry", "complete"}
    LockLatency = 0
    WriteLatency = 0
    MaxTime = 4
    MaxFaults = 1
SPECIFICATION Spec
INVARIANT AcksBounded
PROPERTY ImplementsLifecycle
