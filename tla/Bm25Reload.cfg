SPECIFICATION Spec
CONSTANTS
    w1 = w1
    w2 = w2
    r1 = r1
    s1 = s1
    Nobody = Nobody
    Absent = Absent
    Torn = Torn
    Workers <- OneWorker
    Servers <- OneServer
    Setups <- NoProcess
    Killable <- NoProcess
    MaxContent = 2
    MaxVersion = 3
INVARIANTS
    FreshCache
