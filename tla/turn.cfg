SPECIFICATION FairSpec
CONSTANTS
    Flows <- AllFlows
    Items <- OneItem
    MaxToolItems = 1
    MaxNotes = 3
    MaxUsage = 2
    TokenLimit = 2
    MaxFaults = 2
    None = None
CHECK_DEADLOCK FALSE
INVARIANTS ResultIsSound RunIsSettled UsageIsLast
PROPERTY TurnEnds
