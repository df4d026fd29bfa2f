SPECIFICATION FairSpec
CONSTANTS
    Request = {q1}
    Sender = {"alice", "bob"}
    MsgId = {"m1", "m2", "m3"}
    Key <- TwoInboxes
    Recipient = {"carol", "dave"}
    MaxInflight = 2
    Ttl = 1
    PageSize = 1
    Resume = FALSE
    MaxSends = 3
    MaxFaults = 1
    MaxTime = 2
PROPERTIES Delivered ExpiredSwept
CHECK_DEADLOCK FALSE
