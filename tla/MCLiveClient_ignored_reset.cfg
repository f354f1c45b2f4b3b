SPECIFICATION PagesSpec
CONSTANTS
    MaxId = 3
    Restores = 1
    Window = 3
    MaxVersion = 1
    MaxBreaks = 0
    Scans = {"s1"}
    MaxScanJobs = 1
    Checks = {"t1"}
    MaxChecks = 1
    Publishes = {"p1"}
    Agents = {"g"}
    Sources = {"x"}
PROPERTIES
    ResetIsHonoured
CHECK_DEADLOCK FALSE
