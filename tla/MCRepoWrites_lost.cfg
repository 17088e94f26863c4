\* Two writes at the same time, nothing fails.
CONSTANTS
    k1 = k1
    k2 = k2
    w1 = w1
    w2 = w2
    i1 = i1
    p1 = p1
    Absent = Absent
    None = None
    Keys = {k1, k2}
    Writers = {w1, w2}
    Importers = {}
    Readers = {}
    Batches <- FourBatches
    MaxOpen = 2
    Faults = {}
SPECIFICATION Spec
INVARIANTS
    AckedWriteSurvives
\* Every call is made once and ends: the behaviour may stop.
CHECK_DEADLOCK FALSE
