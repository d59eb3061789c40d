\* Every photo uploaded, the clock at its bound, every violation handled: then nothing happens.
CHECK_DEADLOCK FALSE
SPECIFICATION BackgroundSpec
CONSTANTS
    Photos = {x1, x2}
    WhileServing = FALSE
    MaxFailures = 2
    OutsideMinutes = 1
    SilenceMinutes = 1
    EndOfDay = 2
    Midnight = 3
    MaxTime = 3
    MaxSkew = 1
    MaxSigns = 2
    Stops = {n1}
    Days = {d1, d2}
    Impediments = {i1}
    Scans = {s1, s2}
    Managers = {m1, m2}
    MaxKeys = 2
    MaxLost = 1
INVARIANTS
    BackgroundTypeOK
    KeptPhotoHasObject
    NotifiedOnce
PROPERTIES
    PurgeOrphansNothing
    ExpiredRowsGo
    WorkerOnCampusKeepsBatch
    PastDayCloses
    HandledStaysHandled
    ViolationsRecorded
