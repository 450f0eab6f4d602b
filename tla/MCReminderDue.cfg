CONSTANTS
    Watchlist = {a}
    Sweeper = {s1}
    OpeningOffsets = {}
    DeadlineOffsets = {1}
    TicksPerDay = 2
    EventInstant = {2, 5}
    MaxTime = 4
    MaxEdits = 2
SPECIFICATION Spec
PROPERTIES DueIsNotWithdrawn
CHECK_DEADLOCK FALSE
