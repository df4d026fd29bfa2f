SPECIFICATION FairSpec
CONSTANTS
    Worker = {w1, w2}
    Stuck = {w2}
    Joiner = {j1, j2}
    Free = Free
    Timeout = 2
INVARIANTS TypeOK JoinMeansEnded
PROPERTIES ShutdownReturns CancelWakes
CHECK_DEADLOCK FALSE
