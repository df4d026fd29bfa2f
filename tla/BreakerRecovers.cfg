SPECIFICATION FairSpec
CONSTANTS
    Client = {c1, c2}
    FailureThreshold = 1
    SuccessThreshold = 2
    Timeout = 2
    Window = 1
    MaxAttempts = 1
    MaxDrops = 0
PROPERTY Recovers
