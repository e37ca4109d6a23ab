SPECIFICATION FairSpec
CONSTANTS
    Scenarios <- MessagingScenarios
    MaxDevices = 1
    MaxPackages = 2
    MaxEndpoints = 1
    MaxInFlight = 2
    DirectoryCapacity = 2
    EdgeCapacity = 1
    MaxRoutes = 3
    MaxExchanges = 2
    WindowSize = 4
CHECK_DEADLOCK FALSE
INVARIANTS PackagesGoOnce CommitsAreOneLine CredentialsAreBound
PROPERTIES EveryExchangeAnswered
