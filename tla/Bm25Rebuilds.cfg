SPECIFICATION Spec
CONSTANTS
    w1 = w1
    w2 = w2
    r1 = r1
    s1 = s1
    Nobody = Nobody
    Absent = Absent
    Torn = Torn
    Workers <- TwoWorkers
    Servers <- OneServer
    Setups <- NoProcess
    Killable <- Everyone
    MaxContent = 2
    MaxVersion = 3
SYMMETRY WorkerSymmetry
INVARIANTS
    TypeOK
    IndexFollowsChroma
    IndexWhole
    SeenIsHeld
PROPERTIES
    CacheNeverGoesBack
