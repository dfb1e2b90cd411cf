\* Aliases under the default policy.
SPECIFICATION Spec
CONSTANTS
    Word = {"Alice", "ALICE", "Bob", "<P0>", "<P1>", "<P1>s"}
    Entity = {"alice", "bob"}
    Family = {"PERSON"}
    None = None
    Normalize <- AliasNormalize
    FamilyOf <- PersonOf
    Candidates <- AliasCandidates
    Inside <- AliasInside
    Reserved <- AliasReserved
    Policy = "default"
    Attempts = 2
    MaxLength = 2
    MaxTexts = 2
INVARIANTS SubstitutionTypeOK TableValid EstablishedSubstitutes LiteralsStayLiteral EchoRestores
\* At the bounds every text may be refused.
CHECK_DEADLOCK FALSE
