\* One request, two users who may both approve it, three exchanges.
CONSTANTS
    u1 = u1  u2 = u2
    r1 = r1
    p1 = p1  p2 = p2
    x1 = x1  x2 = x2  x3 = x3
    None = None
    Users = {u1, u2}
    Requests = {r1}
    Approvals = {p1, p2}
    Exchanges = {x1, x2, x3}
SPECIFICATION Spec
INVARIANTS
    OneSessionPerRequest
    AnsweredTokensExist
    
PROPERTIES
    SessionsEndOnce
SYMMETRY Symmetry
\* Every call is made once: the behaviour may stop.
CHECK_DEADLOCK FALSE
