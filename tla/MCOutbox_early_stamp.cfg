SPECIFICATION Spec
CONSTANTS
    NoWriter = NoWriter
    Writers = {w1, w2}
    LocalWriters = {w1}
    EarlyStampers = {w2}
    Readers = {r1}
    MaxSeq = 3
    MaxTime = 3
    Retention = 1
    BatchSize = 2
    LiveReadersKeepUp = TRUE
INVARIANTS
    ReconnectIsExplicit
