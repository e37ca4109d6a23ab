SPECIFICATION Spec
CONSTANTS
    c1 = c1  c2 = c2  kd = kd  kp = kp  kx = kx  v1 = v1  v2 = v2
    NoVal = NoVal
    Clients = {c1}
    Keys = {kp}
    Values = {v1}
    NsOf <- MCNsOf
    Authority = "single-node"
    LaneWired = TRUE
    Ops = {"get", "put_abs", "cas"}
    Expiries = {2}
    Durabilities = {"REPLICATED_DURABLE"}
    ClockMayFail = TRUE
    MaxPending = 1
    MaxReqs = 1
    MaxOther = 1
    MaxTime = 2
    MaxFaults = 0
    MaxFail = 0
    ReplyCap = 1
CHECK_DEADLOCK FALSE
PROPERTY ExpiredIsNotServed
