SPECIFICATION Spec
CONSTANTS
    Hosts = {"a", "b", "c"}
    Builds <- MCBuilds
    Requests <- MCRequests
    Workers = {w1, w2, w3}
    Admin = Admin
    None = None
    Threshold = 2
    Window = 1
    Cooldown = 2
    RequestTime = 2
    MaxOps = 3
    MaxFaults = 1
SYMMETRY WorkerSymmetry
INVARIANTS ConfigSurvives
PROPERTIES WorkingMirrorStays
