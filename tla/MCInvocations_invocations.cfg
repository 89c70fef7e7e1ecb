\* Every kind of request over two files; two processes in two sessions, a log of
\* four records, three runs, one edit and two seconds.
SPECIFICATION PartsSpec
CONSTANTS
    s1 = s1
    s2 = s2
    Procs = {p1, p2}
    NoProc = NoProc
    Keys = {s1, s2}
    Sizes = {1, 3}
    MaxRecords = 4
    MaxBytes = 7
    MaxRecordBytes = 2
    MaxAge = 1
    Seeded <- MCSeeded
    MaxRuns = 3
    MaxEdits = 1
    MaxTime = 2
    Kinds = {"search", "stream", "verb", "graph", "diff"}
    Climbs = {"case", "names"}
    N = 2
SYMMETRY Symmetry
CHECK_DEADLOCK FALSE
INVARIANTS
    OutputIsAnswer
    PromiseKept
    LogTrue
PROPERTIES
    Terminates
    PruneOnlyExpired
