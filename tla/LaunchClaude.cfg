\* A Claude session that is launched, resumed under either mode, and stopped
\* at any step.
SPECIFICATION LaunchSpec
CONSTANTS
    Conversation = {c1, c2}
    Original = {o1}
    Alias = {a1}
    Mode = {alias, compatibility}
    Retention = 1
    MaxVaults = 1
    Faults <- LaunchFaults
    None = None
    Process = {p1, p2}
    MaxTime = 1
    MaxRevision = 1
    Client = {"claude"}
    Identity = {i1, i2}
SYMMETRY Symmetry
INVARIANTS
    ExchangedIsReachable
PROPERTIES
    WritesInItsMode
CHECK_DEADLOCK FALSE
