SPECIFICATION FairSpec
CONSTANTS
    c1 = c1  c2 = c2  kd = kd  kr = kr  kx = kx  short = short  long = long
    NoVal = NoVal  Torn = Torn
    Clients = {c1}
    Keys = {kd}
    Values = {short, long}
    NsOf <- MCNsOf
    SizeOf <- MCSizeOf
    Authority = "single-node"
    WriteFences = {"volatile", "local_durable"}
    ReadFences = {"view_consistent"}
    MaxReqs = 2
    MaxOther = 2
    MaxCrash = 1
    ReplyCap = 2
CHECK_DEADLOCK FALSE
INVARIANT ReadBasisHolds
INVARIANT AcksAreTrue
PROPERTY ImplementsLedger
PROPERTY EveryRequestAnswered
