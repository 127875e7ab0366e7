SPECIFICATION Spec
CONSTANTS
    Scripts <- MCScripts
    Foreign <- MCForeign
    Limits = {300}
    Keys <- MCKeys
    Addresses = {0, 3}
    MaxCut = 17
CHECK_DEADLOCK FALSE
INVARIANTS
    FramesIntact
    MaskedByteWise
    ChunkingIrrelevant
    NothingWithheld
