CONSTANTS
    External = TRUE
    PatchesInfra = TRUE
    Problems = {"Found", "Created", "Patched", "ClusterRemoved", "Infra", "Cluster", "Resources", "Ready"}
    MaxAddress = 1
    MaxChanges = 1
    MaxFaults = 1
SPECIFICATION FairSpec
INVARIANTS
    InitialSegment
PROPERTIES
    LaterConditionsTold
    ConditionsFollow
    OtherFinalizerStays
CHECK_DEADLOCK FALSE
