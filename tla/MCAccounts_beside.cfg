\* One account with a session; three calls, two of them at a time.
CONSTANTS
    s0 = s0  a = a  b = b  c3 = c3
    d1 = d1  d2 = d2  d3 = d3
    h1 = h1  h2 = h2  h3 = h3
    e1 = e1  e2 = e2  e3 = e3
    i1 = i1
    None = None
    Calls = {s0, a, b, c3}
    Dids = {d1, d2, d3}
    Handles = {h1, h2, h3}
    Emails = {e1, e2, e3}
    NewEmails = {e2}
    Invites = {i1}
    Wanted <- WantedHere
    MaxOpen = 2
    MaxFailures = 1
    MaxAge = 1
    FirstDid = d1  FirstHandle = h1  FirstEmail = e1
    FirstInvite = i1  FirstSession = s0
SPECIFICATION Spec
INVARIANTS
    TypeOK
    
    
    SpentCodesStayDead
    RefreshedOnce
    SignedOutStaysOut
    NoTokensWithoutAccount
SYMMETRY CallSymmetry
\* Every call is made once: the behaviour may stop.
CHECK_DEADLOCK FALSE
