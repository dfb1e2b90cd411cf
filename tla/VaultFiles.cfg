\* Two processes, two vaults and the registry on a machine that loses power.
SPECIFICATION Spec
CONSTANTS
    Conversation = {c1, c2}
    Original = {o1}
    Alias = {a1}
    Mode = {alias}
    Retention = 1
    MaxVaults = 2
    Faults <- NoFaults
    None = None
    Process = {p1, p2}
    Identity = {i1}
    Key = {k1, k2}
    Registry = Registry
    Torn = Torn
    MaxRevision = 1
SYMMETRY Symmetry
INVARIANTS
    FilesTypeOK
    Readable
PROPERTIES
    DurableVaults
    RepositorySteps
