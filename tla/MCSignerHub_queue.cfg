\* One session, three calls, every kind of answer.
CONSTANTS
    d1 = d1
    c1 = c1
    c2 = c2
    r1 = r1
    r2 = r2
    r3 = r3
    None = None
    Dids <- OneDid
    Conns = {c1}
    Requests = {r1, r2, r3}
    ConnDid <- AllConnsOfD1
    ReqDid <- AllReqsOfD1
    Bearer = {c1}
    Verdicts = {"sig", "bad", "reject"}
SPECIFICATION Spec
INVARIANTS
    OutcomeIsTheSigners
PROPERTIES
    TimedOutIsNotTaken
    ImplementsService
SYMMETRY QueueSymmetry
\* All calls return and all sessions end: the behaviour may stop.
CHECK_DEADLOCK FALSE
