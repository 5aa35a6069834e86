SPECIFICATION MCSpec
CONSTANTS
    MaxAttempts = 2
    MaxControls = 4
    MaxEvents = 12
    ReceiptIds = {i1}
    Digests = {d1}
    Controls <- MCControls
    Retirement <- MCRetirement
    MaxSignals = 3
    MaxTries = 2
    Callers <- MCCallers
    ControlOf <- MCControlOf
    MaxCalls = 1
    Runs = {w1, w2}
    Capacity = 2
    MaxManifests = 1
    Drafts = {a1}
    Items = {b1}
    MaxEdits = 0
    MaxStrays = 1
    Contexts = {"x1"}
    Scenarios = {"cancellation", "deterministic-replay"}
    Signals <- MCSignals
    MaxMounts = 1
PROPERTIES CancelClosesTheRun CallsAreAnswered DrainEnds RunsEnd
CHECK_DEADLOCK FALSE
