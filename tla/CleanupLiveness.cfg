\* A cleanup and another process on one conversation; directories that cannot
\* be synchronised, and crashes.
SPECIFICATION FairSpec
CONSTANTS
    Conversation = {c1}
    Original = {o1}
    Alias = {a1}
    Mode = {alias}
    Retention = 1
    MaxVaults = 1
    Faults <- LateFaults
    None = None
    Process = {p1, p2}
    MaxTime = 2
    MaxRevision = 1
PROPERTIES
    CleanupReclaims
    OperationsReturn
CHECK_DEADLOCK FALSE
