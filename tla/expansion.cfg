\* Each field at and beyond its limits, arrays of two or three callbacks with
\* different names or the same one, changes of configuration and of keys, slow
\* and altered requests.
CONSTANTS
    Arrays <- AllArrays
    Settings <- AllSettings
    EnvVars <- Environment
    Trusted <- TrustedKeys
    MaxAge = 1
    MaxDelay = 2
    NULL = NULL
    U32 = 65536
SPECIFICATION Spec
INVARIANTS
    TypeOK AcceptsExactly TargetWithinLimits RowPerCallback LookupFindsOwn
    VerifiesExactly DispatchedWasAccepted
PROPERTY SentIsAllowed
