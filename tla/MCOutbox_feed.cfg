SPECIFICATION FairSpec
CONSTANTS
    NoWriter = NoWriter
    Writers = {w1, w2}
    LocalWriters = {w1}
    EarlyStampers = {}
    Readers = {r1}
    MaxSeq = 3
    MaxTime = 1
    Retention = 1
    BatchSize = 2
    LiveReadersKeepUp = TRUE
INVARIANTS
    TypeOK
    LatestIsWatermark
    NoLostWakeup
    ReconnectIsExplicit
PROPERTIES
    CommittedRowsArrive
    NothingAppearsBehind
    ImplementsEventFeed
