SPECIFICATION FairSpec
CONSTANTS
    Builders = {b1}
    Queries = {q1}
    NoProc = NoProc
    RetireAge = 1
    RetiredBuilds = 0
    OpenAttempts = 2
    MaxRemovals = 9
    DeltaLimit = 1
    InodeChecks = {FALSE}
    MaxEpoch = 2
    MaxTime = 1
    MaxFaults = 1
    MaxEvents = 2
    MaxLag = 1
INVARIANTS
    PublicationSound
    NothingLeaks
PROPERTIES
    Atomic
    Recovers
