CONSTANTS
    Watchlist = {a}
    Sweeper = {s1, s2}
    OpeningOffsets = {}
    DeadlineOffsets = {1}
    TicksPerDay = 2
    EventInstant = {3, 5}
    MaxTime = 2
    MaxEdits = 2
SPECIFICATION FairSpec
INVARIANTS ScheduleInv CountdownIsTrue
PROPERTIES NewestSourceWins RemindersKeepContract SweepCatchesUp
CHECK_DEADLOCK FALSE
