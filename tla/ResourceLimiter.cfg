SPECIFICATION FairSpec
CONSTANTS
    Task = {t1, t2, t3}
    TryTask = {t3}
    AcquireTask = {t1, t2}
    TokenTask = {t1}
    Key = {k1, k2}
    ReapKey = {k2}
    Serial = {1, 2, 3}
    Global = Global
    NoSema = NoSema
    NoKey = NoKey
    GlobalLimit = 2
    PerKeyLimit = 1
    MaxCalls = 3
    MaxDrops = 1
INVARIANTS TypeOK PermitsConserved MetricsBalance NoPermitAfterCancel
PROPERTIES ImplementsPool WaitersServed CancelDrains
CHECK_DEADLOCK FALSE
