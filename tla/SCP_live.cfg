CONSTANTS
    Targets = {}
    Local = Local
    Moves <- NoMoves
    Endpoints = {e1, e2}
    None = None
    Steward = Steward
    SharedCAName = FALSE
    InfraKinds = {"skip"}
    Reported = {"NotReady", "Ready"}
    Disturbances = {}
    MaxGeneration = 1
    MaxFaults = 0
SPECIFICATION FairSpec
INVARIANTS
    NothingLeftUndone
PROPERTIES
    StatusFollows
CHECK_DEADLOCK FALSE
