\* A word of one text is allocated for a value of a later one.
SPECIFICATION Spec
CONSTANTS
    Word = {"Alice", "ALICE", "Bob", "<P0>", "<P1>", "<P1>s"}
    Entity = {"alice", "bob"}
    Family = {"PERSON"}
    None = None
    Normalize <- AliasNormalize
    FamilyOf <- PersonOf
    Candidates <- AliasCandidates
    Inside <- AliasInside
    Reserved <- AliasReserved
    Policy = "default"
    Attempts = 2
    MaxLength = 2
    MaxTexts = 2
INVARIANT CollisionFree
\* At the bounds every text may be refused.
CHECK_DEADLOCK FALSE
