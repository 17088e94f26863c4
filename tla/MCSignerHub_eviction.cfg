\* Two sessions of one account (eviction, reconnection), two calls.  An answer
\* that comes on another session than its prompt is dropped or routed to a
\* session that does not know it; what it says makes no difference to that.
CONSTANTS
    d1 = d1
    c1 = c1
    c2 = c2
    r1 = r1
    r2 = r2
    r3 = r3
    None = None
    Dids <- OneDid
    Conns = {c1, c2}
    Requests = {r1, r2}
    ConnDid <- AllConnsOfD1
    ReqDid <- AllReqsOfD1
    Bearer = {}
    Verdicts = {"sig"}
SPECIFICATION Spec
INVARIANTS
    TypeOK
    HubConnectionIsLive
    OnePromptPerConnection
    NoLostWakeup
    NoLostRequest
SYMMETRY EvictionSymmetry
\* All calls return and all sessions end: the behaviour may stop.
CHECK_DEADLOCK FALSE
