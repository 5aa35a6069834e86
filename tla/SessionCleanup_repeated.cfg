SPECIFICATION FairSpec
CONSTANTS
    Commits = {1, 2}
    Base = 0
    MaxCrashes = 1
PROPERTIES
    RepeatedCloseFinishes
CHECK_DEADLOCK FALSE
