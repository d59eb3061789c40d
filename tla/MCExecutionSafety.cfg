\* Every stop is done or released, every key used, every request ended: then nothing happens.
CHECK_DEADLOCK FALSE
SPECIFICATION WorkSpec
CONSTANTS
    Stops = {t1, t2}
    NeedsEvidence = {t1}
    CheckInKeys = {k1, k2}
    CheckOutKeys = {o1, o2}
    PhotoKeys = {x1, x2}
    Anomalies = {CLOCK_SKEW}
    Insufficient = INSUFFICIENT_EVIDENCE
    MinPhotos = 2
    Sessions = {s1, s2, s3}
    NoStop = NoStop
    NoKey = NoKey
    NoCopy = NoCopy
    Rooms = {o1, o2}
    Visits = {k1, k2}
    Calls = {x1, x2}
    Fixes = {"INSIDE", "NONE"}
SYMMETRY Symmetry
INVARIANTS
    WorkTypeOK
    NothingDoneTwice
    StopMatchesExecution
    ShortEvidenceFlagged
    FlaggedIsReviewed
    ScanFindsItsRoom
PROPERTIES
    ImplementsStopRecord
