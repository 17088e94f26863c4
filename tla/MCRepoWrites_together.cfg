\* Two writes, an import and proofs at the same time, everything may fail.
CONSTANTS
    k1 = k1
    k2 = k2
    w1 = w1
    w2 = w2
    i1 = i1
    p1 = p1
    Absent = Absent
    None = None
    Keys = {k1, k2}
    Writers = {w1, w2}
    Importers = {i1}
    Readers = {p1}
    Batches <- FourBatches
    MaxOpen = 3
    Faults = {"ipfs", "db", "event", "crash"}
SPECIFICATION Spec
INVARIANTS
    TypeOK
    
    NamedIsStored
    
SYMMETRY WriteSymmetry
\* Every call is made once and ends: the behaviour may stop.
CHECK_DEADLOCK FALSE
