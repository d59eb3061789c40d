\* The workday ends, every request ends and every route is closed: then nothing happens.
CHECK_DEADLOCK FALSE
SPECIFICATION Spec
CONSTANTS
    Workers = {w1, w2}
    Points = {p1, p2}
    Sessions = {s1, s2}
    BatchSize = 2
    MaxBatches = 2
    NoWorker = NoWorker
    NoStop = NoStop
SYMMETRY Symmetry
INVARIANTS
    TypeOK
    Exclusive
    OneOpenBatch
    NoStrandedWork
    NotHandedBackToReporter
PROPERTIES
    ClosedStopStaysClosed
