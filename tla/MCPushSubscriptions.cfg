CONSTANTS
    User = {u1, u2}
    NoUser = NoUser
    Browser = {b1, b2}
    Request = {q1, q2}
    Limit = 1
    MaxRenewals = 1
    MaxSubscriptions = 1
    MaxFailures = 1
    Watchlist = {w1, w2}
    Choice = {"30 days", "7 days"}
    Control = {{"30 days"}, {"7 days"}, {"30 days", "7 days"}}
    SettingsPage = {p1, p2}
    MaxWrites = 3
    Tab = {t1, t2}
    MaxVersions = 3
SPECIFICATION PartSpec
SYMMETRY Symmetry
INVARIANTS PushInv StoresNeverDeadlock DeviceInv SettingsInv WorkerInv
PROPERTIES CleanupSparesDevices StoresAreAtomic OnlyTheToggledChanges
CHECK_DEADLOCK FALSE
