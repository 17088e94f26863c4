\* Every goroutine that can run does: one session, two calls.
CONSTANTS
    d1 = d1
    c1 = c1
    c2 = c2
    r1 = r1
    r2 = r2
    r3 = r3
    None = None
    Dids <- OneDid
    Conns = {c1}
    Requests = {r1, r2}
    ConnDid <- AllConnsOfD1
    ReqDid <- AllReqsOfD1
    Bearer = {}
    Verdicts = {"sig", "bad", "reject"}
SPECIFICATION FairSpec
PROPERTIES
    CallReturns
    QueueMoves
    DeadConnectionLeavesHub
\* All calls return and all sessions end: the behaviour may stop.
CHECK_DEADLOCK FALSE
