SPECIFICATION Spec
CONSTANTS
    c1 = c1  c2 = c2  kd = kd  kp = kp  kx = kx  v1 = v1  v2 = v2
    NoVal = NoVal
    Clients = {c1}
    Keys = {kp, kx}
    Values = {v1}
    NsOf <- MCNsOf
    Authority = "single-node"
    LaneWired = TRUE
    Ops = {"get", "put_abs", "cas", "delete", "junk"}
    Expiries = {0, 2}
    Durabilities = {"REPLICATED_DURABLE", "REPLICATED_VOLATILE"}
    ClockMayFail = FALSE
    MaxPending = 2
    MaxReqs = 2
    MaxOther = 1
    MaxTime = 3
    MaxFaults = 1
    MaxFail = 0
    ReplyCap = 3
CHECK_DEADLOCK FALSE
INVARIANT SlotsAreExact
