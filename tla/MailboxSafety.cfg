SPECIFICATION Spec
CONSTANTS
    Request = {q1, q2}
    Sender = {"alice", "bob"}
    MsgId = {"m1", "m2", "m3"}
    Key <- ThreeMessages
    Recipient = {"carol"}
    MaxInflight = 1
    Ttl = 1
    PageSize = 1
    Resume = FALSE
    MaxSends = 3
    MaxFaults = 1
    MaxTime = 1
SYMMETRY Symmetry
INVARIANTS TypeOK SequencesUnique UniqueNeverFires ConfirmedKept QuotaOvershoot PullComplete
PROPERTY KeepsPromise
CHECK_DEADLOCK FALSE
