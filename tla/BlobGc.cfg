SPECIFICATION Spec
CONSTANTS
    once = once
    twice = twice
    Hash <- MCHash
    Blob <- MCHash
    ChunksOf <- MCChunksOf
    NoBlob = NoBlob
    Operator = {op}
    Pruner = {cli}
    Putter = {put}
    Closer = {s1}
    Interval = 1
    MaxInterval = 2
    MaxConsecutiveErrors = 1
    BackoffFactor = 2
    Failing = {"unseen", "unread"}
    MaxEvents = 3
INVARIANTS TypeOK PutsCrashSafe CalmKeepsPins ShutdownWaits
PROPERTY OrphansCollected
CHECK_DEADLOCK FALSE
