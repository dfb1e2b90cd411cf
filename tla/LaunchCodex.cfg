\* Two Codex processes that may present either of two sessions.
SPECIFICATION LaunchSpec
CONSTANTS
    Conversation = {c1, c2}
    Original = {o1}
    Alias = {a1}
    Mode = {alias}
    Retention = 1
    MaxVaults = 2
    Faults <- NoFaults
    None = None
    Process = {p1, p2}
    MaxTime = 0
    MaxRevision = 2
    Client = {"codex"}
    Identity = {i1, i2}
SYMMETRY Symmetry
INVARIANTS
    LaunchTypeOK
    ServesWhatIsBound
    OneSessionPerConversation
PROPERTIES
    ImplementsLifecycle
CHECK_DEADLOCK FALSE
