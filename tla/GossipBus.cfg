SPECIFICATION Spec
CONSTANTS
    f = f
    p = p
    s = s
    n1 = n1
    n2 = n2
    m1 = m1
    m2 = m2
    m3 = m3
    MsgId <- MCMsgId
    Node <- MCNode
    FromOf <- MCFromOf
    Sub <- MCSub
    Kind <- MCKind
    ChannelSize = 2
    Capacity = 2
    BatchSize = 1
    CleanupEvery = 2
    MaxPerRoom = 1
    Headroom = 1
    MaxPublish = 3
    MaxExpiries = 1
SYMMETRY Symmetry
INVARIANTS TypeOK NoDuplicates NothingElseLost NewestKept
CHECK_DEADLOCK FALSE
