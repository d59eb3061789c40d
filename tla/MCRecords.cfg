\* Every request ended, every id used, the clock at its bound: then nothing happens.
CHECK_DEADLOCK FALSE
SPECIFICATION RecordsSpec
CONSTANTS
    Sessions = {a1, a2, q3}
    MaxVersion = 2
    p1 = p1
    Workers = {a1, a2}
    Points = {p1, p2}
    Managers = {b1, b2}
    Stops = {c1, c2}
    Filings = {r1}
    Attempts = {d1, d2}
    Window = 1
    DayLength = 1
    CreatedOn <- MCCreatedOn
    ServiceDays = {0, 2}
    WeekStart = 1
    MonthStart = 2
    MaxTime = 2
    Reasons = {"IMPEDIMENT", "END_OF_DAY"}
    Users = {a1, a2}
    Emails = {e1}
    Reviewers = {b1, b2}
    MaxNotices = 2
    MaxTrail = 4
    Roles = {"FIELD_WORKER", "MANAGER"}
    Companies = {a1, a2}
    Types = {b1, b2}
    Dialogs = {c1, c2}
    Spots = {p1}
    MaxOutlines = 2
    Places = {p1, p2}
    Building = {p1}
    Tours = {r1}
    StopRows = {c1, c2, s1}
    Crowded = {s1}
    Deletions = {a1, a2}
    WrittenTables = {"EXECUTION", "EVIDENCE", "STRAY_SCAN", "APPEAL", "POSITION", "NOTIFICATION"}
    MaxIndex = 3
    MaxRows = 3
    Crew = {w1}
    Chores = {x1}
    Warnings = {x2}
    ServiceDates = {1}
    MaxDate = 2
    MaxCommits = 4
SYMMETRY Symmetry
INVARIANTS
    RecordsTypeOK
    NewestIsNotReplaced
    UndisturbedIssueSucceeds
    VerdictDecidesExecution
    RetryIsReplayed
    OfferedIsTaken
    CountsAgree
    CreditedToWhoServed
    LastReviewStands
    TrailExplainsProfile
    PointIsServable
    PointFollowsBuilding
    OrderIsDistinct
    UndisturbedDeletion
    ScreenCatchesUp
