\* An operator retries a delivery that was rejected when it was scheduled.
CONSTANTS
    Arrays <- DistinctArrays
    Settings <- StrictLax
    EnvVars <- Environment
    Trusted <- TrustedKeys
    MaxAge = 1
    MaxDelay = 0
    NULL = NULL
    U32 = 65536
SPECIFICATION Spec
INVARIANT ModeMatches
