SPECIFICATION FairSpec
CONSTANTS
    d1 = d1  d2 = d2  r1 = r1  r2 = r2  r3 = r3  NoDevice = NoDevice
    Devices = {d1, d2}
    Scenarios <- StorageScenarios
    MaxReqs = 3
    MaxOps = 2
    MaxChallenges = 2
    MaxRetained = 2
CHECK_DEADLOCK FALSE
INVARIANTS SingleUse ReleaseIsAuthorised ReleaseIsAudited CustodyFollowsTheGrant
PROPERTIES GrantMovesForward EveryRequestAnswered
