SPECIFICATION Spec
CONSTANTS
    s1 = s1
    u1 = u1
    u2 = u2
    r1 = r1
    w1 = w1
    c1 = c1
    Sessions <- OneSession
    Setups <- TwoSetups
    WithMemory <- TwoSetups
    Removers <- OneRemover
    Worker = w1
    Uploader = c1
    Machines <- AgainMachines
    MinTurns = 2
    MaxEdits = 1
CHECK_DEADLOCK FALSE
INVARIANT
    MemoryIdempotent
