SPECIFICATION FairSpec
CONSTANTS
    d1 = d1  c1 = c1  c2 = c2  p1 = p1  p2 = p2  v1 = v1  v2 = v2
    Devices = {d1}
    Clients = {c1, c2}
    Scenarios <- FlowScenarios
    MaxReqs = 3
    MaxInFlight = 2
    WindowSize = 1
    EdgeCapacity = 1
CHECK_DEADLOCK FALSE
INVARIANTS CodeRedeemedOnce TokensAreEarned OnlyItsHolderBurnsACode
PROPERTY EveryRequestAnswered
