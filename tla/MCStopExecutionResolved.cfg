\* Every stop is done or released, every key used, every request ended: then nothing happens.
CHECK_DEADLOCK FALSE
SPECIFICATION Spec
CONSTANTS
    Stops = {t1, t2}
    NeedsEvidence = {t1}
    CheckInKeys = {k1, k2}
    CheckOutKeys = {o1, o2}
    PhotoKeys = {x1, x2}
    Anomalies = {CLOCK_SKEW}
    Insufficient = INSUFFICIENT_EVIDENCE
    MinPhotos = 2
    Sessions = {s1, s2}
    NoStop = NoStop
    NoKey = NoKey
    NoCopy = NoCopy
SYMMETRY Symmetry
PROPERTIES
    ResolvedStaysResolved
