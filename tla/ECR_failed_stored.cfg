CONSTANTS
    Secrets = {s1}
    DataKeys = {a}
    SCPs = {p1}
    Managers = {m1, m2, m3}
    NoManager = NoManager
    NoKey = NoKey
    MaxRevision = 1
    MaxFaults = 1
SPECIFICATION FairSpec
INVARIANTS
    FailedManagerLeavesStore
