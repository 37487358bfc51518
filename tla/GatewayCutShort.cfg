SPECIFICATION Spec
CONSTANTS
    s1 = s1
    s2 = s2
    r1 = r1
    r2 = r2
    Nobody = Nobody
    Sessions <- TwoSessions
    Requests <- OneRequest
    Unsupported <- SecondSession
    MayCrash = FALSE
    ChunkedFrom = 1
    OutlinedFrom = 1
    MaxContent <- OnceEach
PROPERTIES
    AnsweredIsSearchable
