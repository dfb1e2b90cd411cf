\* The client also sends the outputs of custom tools.
SPECIFICATION Spec
CONSTANTS
    Value = {v1}
    v1 = v1
    None = None
    Refused = Refused
    Request = {r1}
    ClientItems <- AllClient
    ProviderItems <- Provider
    MaxItems = 2
INVARIANTS
    ToolDataProtected
CHECK_DEADLOCK FALSE
