\* All versions issued, all requests ended: then nothing happens.
CHECK_DEADLOCK FALSE
SPECIFICATION Spec
CONSTANTS
    Sessions = {s1}
    MaxVersion = 3
INVARIANTS
    RevokedFloorAcceptsNothing
