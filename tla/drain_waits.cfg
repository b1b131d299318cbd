\* One event, notified while the connection stays up.
CONSTANTS
    ScheduleBatchSize = 1
    PollInterval = 1
    MaxBusy = 2
    MaxEvents = 1
    MaxFaults = 0
SPECIFICATION Spec
PROPERTIES PollSuffices
