SPECIFICATION Spec
CONSTANTS
    Changes = {q1, q2}
    Archiving = {q1}
    MaxMoves = 1
    MaxStops = 1
    MaxAttempts = 2
INVARIANT CompletedIsReconciled
CHECK_DEADLOCK FALSE
