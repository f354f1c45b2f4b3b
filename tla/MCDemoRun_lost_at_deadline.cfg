SPECIFICATION FairSpec
CONSTANTS
    NoRun = NoRun
    r1 = r1
    r2 = r2
    Requests = {r1}
    Keys = {k1}
    Cancellable = {}
    Mixes <- Unreachable
PROPERTIES
    RunsEnd
CHECK_DEADLOCK FALSE
