SPECIFICATION PagesSpec
CONSTANTS
    MaxId = 4
    Restores = 1
    Window = 3
    MaxVersion = 4
    MaxBreaks = 2
    Scans = {"s1", "s2", "s3", "s4"}
    MaxScanJobs = 2
    Checks = {"t1", "t2", "t3"}
    MaxChecks = 2
    Publishes = {"p1", "p2"}
    Agents = {"g"}
    Sources = {"x", "y"}
INVARIANTS
    PagesTypeOK
    DeliveriesAreShown
    PageIsCurrent
    RunningScansAreListed
    OnePublishPerCheck
PROPERTIES
    RetentionResetIsHonoured
CHECK_DEADLOCK FALSE
