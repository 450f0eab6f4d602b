CONSTANTS
    NoContent = NoContent
    Content = {c1, c2}
    Days = 2
    Worker = {w1, w2}
    Attempts = 1
    MaxFailures = 2
    MaxTime = 2
    Caller = {f1, f2}
    Url <- OfficialUrl
    Robots <- RobotsFile
    ApprovedHost = {"www"}
    RobotsPath = "robots.txt"
    MinimumInterval = 1
    RobotsCacheTime = 2
    MaximumRedirects = 1
    MaxFetches = 2
    Request = {r1, r2, r3}
    MaximumRequests = 2
    MaximumPages = 1
    MaxOpened = 2
SPECIFICATION PartSpec
INVARIANTS PipelineInv FetcherInv BrowserInv
PROPERTIES ChangeIsParsed FetchesEnd BrowserIsClosed
CHECK_DEADLOCK FALSE
