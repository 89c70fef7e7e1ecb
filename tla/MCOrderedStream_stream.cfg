SPECIFICATION FairSpec
CONSTANTS
    Workers = {w1, w2, w3}
    NoWorker = NoWorker
    Batches = 5
    QueueCap = 1
    Window = 1
    Panics = {"init", "work", "emit"}
INVARIANTS
    InOrder
    BoundedLead
    OkIsComplete
PROPERTY Returns
CHECK_DEADLOCK FALSE
