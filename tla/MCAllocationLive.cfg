\* The workday ends, every request ends and every route is closed: then nothing happens.
CHECK_DEADLOCK FALSE
SPECIFICATION FairSpec
CONSTANTS
    Workers = {w1, w2}
    Points = {p1}
    Sessions = {s1, s2}
    BatchSize = 1
    MaxBatches = 2
    NoWorker = NoWorker
    NoStop = NoStop
PROPERTIES
    DaySettles
