SPECIFICATION Spec
CONSTANTS
    d1 = d1  d2 = d2
    Devices = {d1, d2}
    Scenarios <- FullScenarios
    MaxReqs = 3
    MaxPending = 2
    EdgeCapacity = 1
    WindowSize = 1
CHECK_DEADLOCK FALSE
INVARIANTS ReplayIsOfAProof
