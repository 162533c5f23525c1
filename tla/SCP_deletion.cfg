CONSTANTS
    Targets = {r1}
    Local = Local
    Moves <- NoMoves
    Endpoints = {e1}
    None = None
    Steward = Steward
    SharedCAName = FALSE
    InfraKinds = {"patch"}
    Reported = {}
    Disturbances = {}
    MaxGeneration = 1
    MaxFaults = 1
SPECIFICATION FairSpec
PROPERTIES
    DeletionCompletes
CHECK_DEADLOCK FALSE
