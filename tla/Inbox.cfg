SPECIFICATION FairSpec
CONSTANTS
    Processes = {p1, p2}
    NoProcess = NoProcess
    MaxStarting = 1
    MaxCrashes = 1
    MaxStops = 1
    MaxChanges = 2
    MaxRedeliveries = 1
    BatchSize = 2
    MaxAttempts = 2
    BackoffBase = 1
    BackoffCap = 2
    MaxExponent = 8
    LockTimeout = 1
INVARIANTS
    SingleProcess
    ProcessedReflected
PROPERTIES
    AcceptedEventsEnd
