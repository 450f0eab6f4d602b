CONSTANTS
    Watchlist = {a}
    Sweeper = {s1}
    Instant = {1, 2}
    TicksPerDay = 1
    Lookback = 1
    Limit = 2
    MaxRevisions = 2
    MaxEdits = 1
    MaxTime = 1
SPECIFICATION FairSpec
PROPERTIES NoticesSettle
