CONSTANTS
    Secrets = {s1}
    DataKeys = {a, b}
    SCPs = {p1, p2}
    Managers = {m1, m2}
    NoManager = NoManager
    NoKey = NoKey
    MaxRevision = 1
    MaxFaults = 1
SPECIFICATION FairSpec
INVARIANTS
    TypeOK
    NoLeakedManager
    OneManagerPerKey
    StoredManagerUsable
PROPERTIES
    WantedManagerIsStored
    UnusedManagerStopped
