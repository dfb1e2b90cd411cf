\* Streams of either protocol with up to two interleaved texts.
SPECIFICATION Spec
CONSTANTS
    None = None
    Event <- MCEvent
    Restore <- MCRestore
    RestoreJson <- MCRestoreJson
    MaxFrames <- MCMaxFrames
    MaxDeltas = 2
    MaxPlain = 1
    MaxGood = 3
INVARIANTS
    StreamTypeOK
    DeliversWellFormed
PROPERTIES
    ReadsRestored
\* A stream that was delivered or refused has ended.
CHECK_DEADLOCK FALSE
