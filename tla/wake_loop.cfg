\* Three events in batches of two, database errors, lost connections, cycles
\* longer than the readiness deadline.
CONSTANTS
    ScheduleBatchSize = 2
    PollInterval = 2
    MaxBusy = 5
    MaxEvents = 3
    MaxFaults = 2
SPECIFICATION Spec
INVARIANTS TypeOK ReadyFollowsLoop
PROPERTIES BacklogDrains HungSwept ShutdownCompletes
