SPECIFICATION FairMediaSpec
CONSTANTS
    f1 = f1
    a1 = a1
    Files = {f1, a1}
    ListingFiles = {a1}
    Server = Server
    Cli = Cli
    MaxFaults = 1
INVARIANTS
    ReferencedFilesInPlace
    FinishedJobsTrue
    UnusedFilesQueued
PROPERTIES
    CleanupEnds
CHECK_DEADLOCK FALSE
