CONSTANTS
    Watchlist = {a}
    Sweeper = {s1, s2}
    Instant = {2, 4}
    TicksPerDay = 2
    Lookback = 2
    Limit = 2
    MaxRevisions = 2
    MaxEdits = 0
    MaxTime = 1
SPECIFICATION Spec
SYMMETRY Sweepers
INVARIANTS DateChangeInv
PROPERTIES NoticeIsCurrent LatestNoticeKept
