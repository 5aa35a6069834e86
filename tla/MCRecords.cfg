SPECIFICATION MCSpec
CONSTANTS
    Transitions = {t1, t2}
    Controls = {k1}
    MaxEvents <- MCMaxEvents
    t1 = t1
    t2 = t2
    Writers = {w1, w2}
    Commands = {m1, m2}
    Resolutions = {r1}
    Applications = {a1}
    Epics = {e1}
    MaxVersion = 5
    ReceiptWindow = 2
    Calls = {c1, c2, c3}
    Deliveries = {d1, d2}
    MaxIdeaLock = 3
    MaxItemLock = 3
    Drafts = {f1}
    Items = {i1}
    MaxAttempts = 2
    MaxEdits = 1
    MaxStrays = 1
    Plans <- MCPlans
    Trees <- MCTrees
    Classified = {"objective"}
    MaxMoves = 1
    MaxFailures = 1
INVARIANTS
    AppliedIsEarned
    StopIsExplained
    HistoryTellsTheCommits
    NoUpdateIsLost
    OneDelivery
    CompletionIsReadBack
PROPERTIES
    DeliveryKeepsItsWork
SYMMETRY Symmetry
CHECK_DEADLOCK FALSE
