SPECIFICATION Spec
CONSTANTS
    once = once
    twice = twice
    Hash <- MCHash
    Blob <- MCHash
    ChunksOf <- MCChunksOf
    NoBlob = NoBlob
    Operator = {op}
    Pruner = {}
    Putter = {}
    Closer = {}
    Interval = 1
    MaxInterval = 2
    MaxConsecutiveErrors = 1
    BackoffFactor = 2
    Failing = {}
    MaxEvents = 2
INVARIANT PinsHonoured
CHECK_DEADLOCK FALSE
