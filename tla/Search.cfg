SPECIFICATION Spec
CHECK_DEADLOCK FALSE
CONSTANTS
    p1 = p1
    p2 = p2
    Sessions <- TwoSessions
    Project <- TwoProjects
    NoProject = NoProject
    TurnKinds <- SomeTurns
    MaxLength <- LongAndShort
    Searched <- LongTranscripts
    Limits <- OneOrTwo
    MaxHits = 3
    Scores <- SomeScores
    MinTurns = 2
    MaxTurns = 6
    Overlap = 2
    MinChunkChars = 200
    MinOutlineTurns = 4
INVARIANTS
    TypeOK
    BestIsSpared
    OverlapsPenalised
    RoutingHidesNothing
    UserTurnsFound
PROPERTIES
    GrowingKeepsIds
