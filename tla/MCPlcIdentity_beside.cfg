\* Two calls of any kind, a code, a failure, two fetches.
CONSTANTS
    k0 = k0  k1 = k1  k2 = k2
    h0 = h0  h1 = h1
    c1 = c1  c2 = c2
    f1 = f1  f2 = f2
    None = None
    Pds = Pds
    Keys = {k0, k1, k2}
    FirstKey = k0
    Handles = {h0, h1}
    FirstHandle = h0
    Calls = {c1, c2}
    Fetches = {f1, f2}
    MaxCodes = 1
    MaxFailures = 1
SPECIFICATION Spec
INVARIANTS
    TypeOK
    KeysAgree
    HandlesAgree
    CodeSignsOnce
    CachedDocIsNew
SYMMETRY Symmetry
\* Every call is made once: the behaviour may stop.
CHECK_DEADLOCK FALSE
