CONSTANTS
    Secrets = {s1}
    DataKeys = {a}
    SCPs = {p1}
    Managers = {m1, m2}
    NoManager = NoManager
    NoKey = NoKey
    MaxRevision = 2
    MaxFaults = 1
    MaxReports = 2
SPECIFICATION FairRemoteSpec
INVARIANTS
    NoLeakedManager
    NoReportLost
PROPERTIES
    WantedManagerIsStored
    ReportShown
CHECK_DEADLOCK FALSE
