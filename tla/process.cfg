\* Two processes of two versions; one tries every environment.
CONSTANTS
    Proc = {"a", "b"}
    Deployed <- Environments
    Launches <- Deployments
    EnvVars <- Environment
    MaxStarts = 3
    NULL = NULL
    U32 = 65536
SPECIFICATION Spec
INVARIANTS
    TypeOK StartsExactly ServesWhole CleanExit SchemaComplete NeverServesAhead
PROPERTY StopsOnceCancelled
CHECK_DEADLOCK FALSE
