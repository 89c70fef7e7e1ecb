\* Two builders, a query and a purger at one directory; one builder with
\* one query over the files they publish, with a grace period of two ticks and
\* a fault, or with two queries that race and neither.
SPECIFICATION PartsSpec
CONSTANTS
    Builders = {b1, b2}
    Queries = {q1}
    Purgers = {p1}
    MaxInodes = 5
    MaxPublications = 3
    MaxCrashes = 1
    Publishers = {b3}
    Readers = {q2, q3}
    Alone = q2
    NoProc = NoProc
    RetireAge = 2
    RetiredBuilds = 1
    OpenAttempts = 2
    MaxRemovals = 9
    DeltaLimit = 1
    InodeChecks = {FALSE}
    MaxEpoch = 2
    MaxTime = 2
    MaxFaults = 1
    MaxEvents = 2
    MaxLag = 1
SYMMETRY Symmetry
CHECK_DEADLOCK FALSE
INVARIANTS
    OneBuild
    LocksSound
    Recognised
    SnapshotsOpen
    NeverRewritten
PROPERTY
    OnlyItsOwn
