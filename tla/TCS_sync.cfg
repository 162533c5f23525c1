CONSTANTS
    u = u
    v = v
    h1 = h1
    h2 = h2
    Values = {u, v}
    Unset = Unset
    Hosts = {h1, h2}
    NoPort = NoPort
    BadPort = BadPort
    Int32Range = 131072
    Edits <- AllEdits
    Networks <- AllNetworks
    Reports <- AllReports
    MaxChanges = 2
    MaxWrites = 1
    MaxFaults = 1
SPECIFICATION FairSpec
INVARIANTS
    RestIsSettled
PROPERTIES
    OthersKept
    TenantFollows
    EndpointFollows
    InfraFollows
