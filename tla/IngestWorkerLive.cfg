SPECIFICATION FairSpec
CONSTANTS
    p1 = p1
    p2 = p2
    h1 = h1
    h2 = h2
    w1 = w1
    w2 = w2
    Nobody = Nobody
    Paths <- TwoPaths
    Hooks <- OneHook
    Workers <- OneWorker
    OnceWorkers <- NoWorker
    Killable <- NoProcess
    Usable <- SecondContent
    MaxAttempts = 3
    MaxJobs = 1
    MaxContent = 2
    MaxRevision = 1
    ResourcesMayFail = FALSE
PROPERTIES
    JobsResolve
