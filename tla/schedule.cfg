\* A replica and a rescan, a database error or a crash or an operator's request, and
\* retention; an event mixes valid and rejected callbacks.
CONSTANTS
    Event = {1, 2, 3}
    Name = {"a", "b"}
    Valid <- SomeValid
    Invalid <- SomeInvalid
    Unstorable = {}
    Replica = {r1}
    Rescanner = {scan}
    ScheduleBatchSize = 2
    CommitInOrder = TRUE
    RescanFrom = {0}
    Retention = TRUE
    LongWindow = TRUE
    MaxDisturbances = 1
SPECIFICATION FairSpec
INVARIANTS TypeOK NoEventSkipped
PROPERTIES EventuallyScheduled RetentionSparesPending
