SPECIFICATION Spec
CONSTANTS
    p1 = p1
    p2 = p2
    h1 = h1
    h2 = h2
    w1 = w1
    w2 = w2
    Nobody = Nobody
    Paths <- OnePath
    Hooks <- TwoHooks
    Workers <- TwoWorkers
    OnceWorkers <- OneOnce
    Killable <- Everyone
    Usable <- AnyContent
    MaxAttempts = 2
    MaxJobs = 1
    MaxContent = 2
    MaxRevision = 3
    ResourcesMayFail = TRUE
SYMMETRY HookSymmetry
INVARIANTS
    TypeOK
    NoLostUpdate
    NoStrandedJob
    JobsAreLive
PROPERTIES
    NewerRevisionKept
    AttemptsCounted
    ImplementsCapture
