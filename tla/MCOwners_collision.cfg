SPECIFICATION MCSpec
CONSTANTS
    r1 = r1
    r2 = r2
    r3 = r3
    Calls = {c1}
    Submissions <- MCCreation
    MaxRepositories = 2
    MaxAttempts = 2
    MaxStops = 1
    Changes = {q1, q2}
    Archiving = {q1}
    MaxMoves = 1
    MaxRenewals = 1
    MaxHistory = 6
    MaxRestarts = 1
    Contexts = {"x1", "x2"}
    Scenarios = {"nominal-completion", "cancellation", "identity-denial",
                 "unavailable-dependency", "deterministic-replay"}
    Signals <- MCSignals
    MaxMounts = 1
    MaxProofAttempts = 2
    Kinds = {"custody"}
INVARIANT
    NameCollisionNotAdopted
CHECK_DEADLOCK FALSE
