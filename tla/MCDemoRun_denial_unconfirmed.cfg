SPECIFICATION Spec
CONSTANTS
    NoRun = NoRun
    r1 = r1
    r2 = r2
    Requests = {r1}
    Keys = {k1}
    Cancellable = {r1}
    Mixes <- Unconfirmed
INVARIANTS
    DenialReachesRunner
CHECK_DEADLOCK FALSE
