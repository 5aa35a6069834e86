SPECIFICATION ApiOnly
CONSTANTS
    MaxAttempts = 2
    MaxControls = 4
    MaxEvents = 12
    ReceiptIds = {i1}
    Digests = {d1}
    Controls <- MCControls
    Retirement <- MCRetirement
    MaxSignals = 3
    MaxTries = 1
    Callers <- MCCallers
    ControlOf <- MCControlOf
    MaxCalls = 2
    Runs = {w1}
    Capacity = 1
    MaxManifests = 1
    Drafts = {a1}
    Items = {b1}
    MaxEdits = 0
    MaxStrays = 1
    Contexts = {"x1"}
    Scenarios = {"cancellation"}
    Signals <- MCSignals
    MaxMounts = 0
INVARIANTS
    SuccessIsRetained
    NotAppliedOnClosedRunIsFinal
    KeyAppliesOnce
CHECK_DEADLOCK FALSE
