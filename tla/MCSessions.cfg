SPECIFICATION MCSpec
CONSTANTS
    p1 = p1
    Processes = {p1}
    Calls = {c1, c2, c3}
    Of <- MCOneProcess
    Pids = {1, 2, 3}
    Requests <- MCRequests
    Events = {e1}
    Writers = {w1, w2}
    Sessions = {b1, b2}
    Contents = {x}
    Briefs = {f1}
    Originals = {o1, o2}
    MaxRecoveries = 1
    MaxCommands = 2
    MaxSaves = 4
    Runners = {k1, k2}
    Hosts = {h1, h2}
    Commands = {m1, m2}
    Items = {i1, i2}
    MaxWrites = 1
    MaxTakeovers = 1
    Commits = {1, 2}
    Base = 0
    Branches = {g1, g2}
    Designs = {d1, d2}
    MaxVersion = 2
    MaxRevision = 3
    MaxCrashes = 1
    MaxHead = 2
    Covering = {2}
    MaxArchitecture = 2
    MaxDisturbances = 1
    MaxStops = 1
    PageSize = 2
    MaxBegun = 2
INVARIANTS
    MutualExclusion
    HolderKeepsItsLock
    AcknowledgedEventsSurvive
    AcknowledgedSavesSurvive
    RecoveryIsComplete
    EffectsBeginOnce
    CleanupKeepsOthersWork
    SessionLeavesItsReceipt
    ReadinessIsOfThePacket
SYMMETRY Symmetry
CHECK_DEADLOCK FALSE
