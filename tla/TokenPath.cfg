SPECIFICATION FairSpec
CONSTANTS
    d1 = d1  d2 = d2
    Devices = {d1, d2}
    Scenarios <- PathScenarios
    MaxReqs = 5
    MaxPending = 4
    EdgeCapacity = 1
    WindowSize = 4
CHECK_DEADLOCK FALSE
INVARIANTS TokensAreAdmitted TokenIsItsCallers RefusalIsOfThePresenter
PROPERTIES EveryRequestAnswered
