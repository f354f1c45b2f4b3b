SPECIFICATION FairSpec
CONSTANTS
    Tickets = {1}
    d1 = d1
    d2 = d2
    Deciders = {d1, d2}
    LogIDs = {11}
    Free = Free
    Capacity = 2
    MaxTime = 3
    Budgets <- MCBudgets
INVARIANTS
    TypeOK
    EvidenceIsReal
    DoneIsDurable
    NeverOvercounted
PROPERTIES
    Converges
    ShownMovesForward
    OutagesAreRemembered
CHECK_DEADLOCK FALSE
