\* A transaction commits after one with a higher id.
CONSTANTS
    Event = {1, 2}
    Name = {"a", "b"}
    Valid <- SomeValid
    Invalid <- SomeInvalid
    Unstorable = {}
    Replica = {r1}
    Rescanner = {}
    ScheduleBatchSize = 2
    CommitInOrder = FALSE
    RescanFrom = {0}
    Retention = FALSE
    LongWindow = FALSE
    MaxDisturbances = 0
SPECIFICATION FairSpec
PROPERTY EventuallyScheduled
