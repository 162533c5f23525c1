CONSTANTS
    Targets = {r1, r2}
    Local = Local
    Moves <- AllMoves
    Endpoints = {e1}
    None = None
    Steward = Steward
    SharedCAName = FALSE
    InfraKinds = {"patch"}
    Reported = {}
    Disturbances = {}
    MaxGeneration = 2
    MaxFaults = 0
SPECIFICATION Spec
INVARIANTS
    NoOrphanedTCP
CHECK_DEADLOCK FALSE
