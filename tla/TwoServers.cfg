SPECIFICATION Spec
CONSTANTS
    Processes = {p1, p2, p3}
    NoProcess = NoProcess
    MaxStarting = 2
    MaxCrashes = 1
    MaxStops = 0
    MaxChanges = 0
    MaxRedeliveries = 0
    BatchSize = 1
    MaxAttempts = 1
    BackoffBase = 1
    BackoffCap = 1
    MaxExponent = 8
    LockTimeout = 1
INVARIANTS
    SingleProcess
CHECK_DEADLOCK FALSE
