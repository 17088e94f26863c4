\* A relay that connects twice, up to three events, restarts, retention, failed
\* inserts and queries, pages of one row and buffers of one event.
CONSTANTS
    c1 = c1
    c2 = c2
    None = None
    Conns = {c1, c2}
    PageSize = 1
    BufferSize = 1
    Retention = 0
    MaxSeq = 4
    MaxClock = 3
SPECIFICATION Spec
INVARIANTS
    TypeOK
    SeqCoversLog
    EachOnceInOrder
    NoneMissed
    SentIsCovered
SYMMETRY ConnSymmetry
\* Events and connections are bounded: the behaviour may stop.
CHECK_DEADLOCK FALSE
