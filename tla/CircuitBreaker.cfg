SPECIFICATION FairSpec
CONSTANTS
    Client = {c1, c2}
    FailureThreshold = 2
    SuccessThreshold = 1
    Timeout = 2
    Window = 1
    MaxAttempts = 2
    MaxDrops = 1
INVARIANTS TypeOK CooldownHolds ClosedBelowThreshold
PROPERTIES DwellNotExtended Recovers
