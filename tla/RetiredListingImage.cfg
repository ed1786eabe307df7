SPECIFICATION MediaSpec
CONSTANTS
    f1 = f1
    a1 = a1
    Files = {f1, a1}
    ListingFiles = {a1}
    Server = Server
    Cli = Cli
    MaxFaults = 1

INVARIANTS
    RetiredImagesQueued
CHECK_DEADLOCK FALSE
