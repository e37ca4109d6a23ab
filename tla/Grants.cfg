SPECIFICATION FairSpec
CONSTANTS
    h1 = h1  h2 = h2  f1 = f1  c1 = c1
    Hosts = {h1, h2}
    Self = h1
    Flows = {f1}
    Challenges = {c1}
    Scopes = {"transfer", "web", "db"}
    Scenarios <- GrantScenarios
    MaxReqs = 3
    MaxPending = 4
    MaxOps = 2
    EdgeCapacity = 1
    StageTimeout = 1
    MaxTtl = 2
    Slack = 2
    MaxPublication = 3
    MaxGrant = 2
CHECK_DEADLOCK FALSE
INVARIANTS OneEnd VoidStaysVoid GrantIsWithinItsPublication
PROPERTIES EveryActEnds
