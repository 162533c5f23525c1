CONSTANTS
    Targets = {}
    Local = Local
    Moves <- NoMoves
    Endpoints = {e1}
    None = None
    Steward = Steward
    SharedCAName = FALSE
    InfraKinds = {"checkOrPatch", "patchReady"}
    Reported = {"Ready", "Upgrading"}
    Disturbances = {"paused", "removed", "unready"}
    MaxGeneration = 1
    MaxFaults = 1
SPECIFICATION Spec
INVARIANTS
    TypeOK
    ReadyIsUsable
    InitializedHasEndpoint
PROPERTIES
    KeepsContract
