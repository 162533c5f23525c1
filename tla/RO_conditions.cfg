CONSTANTS
    External = TRUE
    PatchesInfra = TRUE
    Problems = {}
    MaxAddress = 1
    MaxChanges = 0
    MaxFaults = 0
SPECIFICATION FairSpec
PROPERTY ConditionsTold
CHECK_DEADLOCK FALSE
