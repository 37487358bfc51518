SPECIFICATION Spec
CHECK_DEADLOCK FALSE
CONSTANTS
    i1 = i1
    i2 = i2
    u1 = u1
    c1 = c1
    m1 = m1
    Nobody = Nobody
    Ingesters <- TwoIngesters
    Setups <- OneSetup
    Recallers <- OneRecaller
    Migrators <- OneMigrator
    TurnKinds <- LongTurn
    MinTurns = 2
    MaxTurns = 2
    Overlap = 1
    MinChunkChars = 2
    MinOutlineTurns = 2
    MaxLength = 3
    OldLength = 2
    MaxRecalls = 1
SYMMETRY Symmetry
INVARIANTS
    TypeOK
    RecallFindsSpan
    SpanMatchesChunk
    RecallLosesNothing
PROPERTIES
    StoredAsIngested
