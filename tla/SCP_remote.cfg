CONSTANTS
    Targets = {r1}
    Local = Local
    Moves <- NoMoves
    Endpoints = {e1}
    None = None
    Steward = Steward
    SharedCAName = FALSE
    InfraKinds = {"check", "unsupported"}
    Reported = {"NotReady", "Ready"}
    Disturbances = {"unreachable"}
    MaxGeneration = 2
    MaxFaults = 1
SPECIFICATION Spec
INVARIANTS
    RemoteTCPGuarded
PROPERTIES
    NoStepBack
    KeepsContract
