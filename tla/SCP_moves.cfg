CONSTANTS
    Targets = {r1}
    Local = Local
    Moves <- AllMoves
    Endpoints = {e1}
    None = None
    Steward = Steward
    SharedCAName = TRUE
    InfraKinds = {"skip"}
    Reported = {"Ready"}
    Disturbances = {}
    MaxGeneration = 2
    MaxFaults = 0
SPECIFICATION FairSpec
INVARIANTS
    NothingLeftUndone
PROPERTIES
    SpecApplied
    StatusFollows
    RemoteTCPDeleted
CHECK_DEADLOCK FALSE
