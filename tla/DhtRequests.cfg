SPECIFICATION Spec
CONSTANTS
    near = near
    far = far
    c1 = c1
    c2 = c2
    Peer <- MCPeer
    Closest <- MCClosest
    Caller <- MCCaller
    Provider = {q}
    MaxAttempts = 2
    Threshold = 2
INVARIANTS TypeOK AnswerIsOwn LeaksOnlyAbandoned PeerSpared
PROPERTIES AnswerReachesWaiter CallReturns
CHECK_DEADLOCK FALSE
