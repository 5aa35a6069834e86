SPECIFICATION Spec
CONSTANTS
    MaxAttempts = 2
    MaxControls = 4
    MaxEvents = 12
    ReceiptIds = {i1}
    Digests = {d1, d2}
    Controls <- MCControls
    Retirement <- MCRetirement
    MaxSignals = 4
    MaxTries = 2
INVARIANTS
    ProjectionAlwaysAccepted
    AttemptsAuthorized
    CancelNeverLost
    RetirementClosesTheRun
    ReceiptsBoundToOneDigest
    HistoryIsComplete
PROPERTIES
    KeepsPromise
CHECK_DEADLOCK FALSE
