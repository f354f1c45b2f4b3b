SPECIFICATION StoresSpec
CONSTANTS
    Keys = {"a", "b"}
    Batches <- MCBatches
    EventBatches <- MCEventBatches
    Nothing = Nothing
    MaxTime = 2
    Lag = 2
    Gaps = 3
    EventRetention = 1
    PayloadRetention = 1
    Writers = {w1, w2}
    NoHolder = NoHolder
    Readers = {r1}
    Filters = {{"a", "b"}}
    Limit = 1
    RowId <- MCRowId
    MaxSeq = 3
    Collectors = {c1, c2}
    Pruner = Pruner
    NoDoc = NoDoc
    MaxList = 3
    TraceRetention = 1
INVARIANTS
    StoresTypeOK
    ReadsAreExact
    SummariesMatchSpans
    NoLockRing
PROPERTIES
    ImplementsEventStore
    FinishedSpansStay
    ImplementsSpanStore
CHECK_DEADLOCK FALSE
