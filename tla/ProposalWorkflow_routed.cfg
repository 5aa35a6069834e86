SPECIFICATION Spec
CONSTANTS
    Calls = {c1, c2}
    Commands = {m1, m2, m3}
    Resolutions = {}
    Applications = {a1}
    Epics = {e1}
    MaxVersion = 6
    ReceiptWindow = 8
INVARIANTS
    AppliedIsRoutedToDelivery
CHECK_DEADLOCK FALSE
