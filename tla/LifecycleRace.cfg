\* Two processes on one conversation, two values competing for two aliases.
SPECIFICATION Spec
CONSTANTS
    Conversation = {c1}
    Original = {o1, o2}
    Alias = {a1, a2}
    Mode = {alias}
    Retention = 2
    MaxVaults = 1
    Faults <- NoFaults
    None = None
    Process = {p1, p2}
    MaxTime = 3
    MaxRevision = 2
SYMMETRY Symmetry
INVARIANTS
    TypeOK
    AliasDenotesOneOriginal
    ExchangedIsRestorable
    RawOnlyUnderRecordedBypass
PROPERTIES
    NoLostUpdate
    DeletesOnlyInactive
    NeverRecreated
    TransactionRefreshes
CHECK_DEADLOCK FALSE
