SPECIFICATION Spec
CONSTANTS
    Runs = {w1, w2, w3}
    Capacity = 2
    MaxManifests = 2
SYMMETRY Symmetry
INVARIANTS
    StartedRunsAreRegistered
    ReceiptIsSound
    ReceiptCitesItsSeal
CHECK_DEADLOCK FALSE
