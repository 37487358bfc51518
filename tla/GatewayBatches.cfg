SPECIFICATION Spec
CONSTANTS
    s1 = s1
    s2 = s2
    r1 = r1
    r2 = r2
    Nobody = Nobody
    Sessions <- TwoSessions
    Requests <- TwoRequests
    Unsupported <- NoSession
    MayCrash = TRUE
    ChunkedFrom = 2
    OutlinedFrom = 2
    MaxContent <- Growth
SYMMETRY RequestSymmetry
INVARIANTS
    TypeOK
    CheckpointCovers
    IndexFollows
PROPERTIES
    AnsweredIsStored
