SPECIFICATION FairSpec
CONSTANTS
    Scenarios <- AllScenarios
    SecretIds = {"a", "b", "c"}
    BadId = "bad"
    MaxRecords = 2
    ReplyCapacity = 1
CHECK_DEADLOCK FALSE
INVARIANTS ReuseIsOfTheClock ReadsWhatWasAnswered
PROPERTIES RewriteCatchesUp
