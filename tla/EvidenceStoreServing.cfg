\* Every photo uploaded, the point deleted, nothing old: then nothing happens.
CHECK_DEADLOCK FALSE
SPECIFICATION Spec
CONSTANTS
    Photos = {x1, x2}
    WhileServing = TRUE
    MaxFailures = 2
PROPERTIES
    ReferencedIsNeverTouched
