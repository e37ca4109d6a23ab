SPECIFICATION Spec
CONSTANTS
    i1 = i1  ka = ka  kb = kb  kc = kc  kd = kd
    Keys <- KeyNames
    Scenarios <- RotationScenarios
    MaxKeys = 3
    MaxPublished = 2
    MaxTtl = 2
    LaneCapacity = 3
CHECK_DEADLOCK FALSE
INVARIANT TokensVerify
PROPERTY NewTokensCarryTheNewKey
