SPECIFICATION Spec
CONSTANTS
    MaxAttempts = 2
    MaxControls = 4
    MaxEvents = 12
    ReceiptIds = {i1}
    Digests = {d1}
    Controls <- MCDeferControls
    Retirement <- MCRetirement
    MaxSignals = 4
    MaxTries = 1
INVARIANTS
    UnappliedControlMayBeRetried
CHECK_DEADLOCK FALSE
