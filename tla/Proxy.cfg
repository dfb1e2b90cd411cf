\* Two requests of one conversation, under each protocol and policy.
SPECIFICATION Spec
CONSTANTS
    Value = {v1}
    v1 = v1
    None = None
    Refused = Refused
    Request = {r1, r2}
    ClientItems <- Client
    ProviderItems <- Provider
    MaxItems = 2
SYMMETRY Symmetry
INVARIANTS
    ProxyTypeOK
    RawOnlyInToolData
    DeliveredIsAccepted
    OwnWordsReturn
    SentIsSaved
CHECK_DEADLOCK FALSE
