SPECIFICATION Spec
CONSTANTS
    c1 = c1  c2 = c2  kd = kd  kp = kp  kx = kx  v1 = v1  v2 = v2
    NoVal = NoVal
    Clients = {c1,c2}
    Keys = {kd}
    Values = {v1}
    NsOf <- MCNsOf
    Authority = "replicated"
    LaneWired = TRUE
    Ops = {"get", "put_abs", "cas"}
    Expiries = {0}
    Durabilities = {"REPLICATED_DURABLE"}
    ClockMayFail = FALSE
    MaxPending = 2
    MaxReqs = 1
    MaxOther = 0
    MaxTime = 1
    MaxFaults = 0
    MaxFail = 0
    ReplyCap = 1
CHECK_DEADLOCK FALSE
INVARIANT EveryTakenAnswered
