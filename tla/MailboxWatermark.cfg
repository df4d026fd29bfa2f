SPECIFICATION Spec
CONSTANTS
    Request = {q1, q2}
    Sender = {"alice", "bob"}
    MsgId = {"m1", "m2", "m3"}
    Key <- TwoMessages
    Recipient = {"carol"}
    MaxInflight = 2
    Ttl = 2
    PageSize = 2
    Resume = TRUE
    MaxSends = 2
    MaxFaults = 0
    MaxTime = 0
INVARIANT NothingSkipped
CHECK_DEADLOCK FALSE
