SPECIFICATION Spec
CONSTANTS
    NoRun = NoRun
    r1 = r1
    r2 = r2
    Requests = {r1, r2}
    Keys = {k1, k2}
    Cancellable = {r1, r2}
    Mixes <- OneOrTwo
SYMMETRY NameSymmetry
INVARIANTS
    TypeOK
    RecordedDecisionIsReal
    DenialReachesRunner
PROPERTIES
    FollowsLifecycle
CHECK_DEADLOCK FALSE
