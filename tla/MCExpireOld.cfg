SPECIFICATION Spec
CONSTANTS
    w1 = w1
    w2 = w2
    Workers = {w1, w2}
    MaxPerCall = 2
    MaxErrors = 2
    Builds = {1, 2, 3, 4, 5}
    NumDetails <- MCNumDetails
    NumResults = 2
    Limit = 4
    MaxRuns = 3
INVARIANTS
    TypeOK
    OkMeansAllDeleted
    NoOrphans
    DoneMeansExpired
PROPERTIES
    ReturnsIfWorkersSuffice
CHECK_DEADLOCK FALSE
