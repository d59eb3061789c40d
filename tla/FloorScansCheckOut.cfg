CHECK_DEADLOCK FALSE
SPECIFICATION FloorScansSpec
CONSTANTS
    Rooms = {r1, r2}
    Visits = {v1, v2}
    Calls = {c1}
    Fixes = {"INSIDE"}
INVARIANT CheckOutLikeCheckIn
