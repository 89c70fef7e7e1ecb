\* Two chunks of two files with a share of six keys and ids; three threads that
\* parse seven files; projects of up to three files, edited twice.
SPECIFICATION PartsSpec
CONSTANTS
    Threads = {t1, t2, t3}
    Parsed = {1, 2, 3, 4, 5, 6, 7}
    Nobody = Nobody
    Size <- MCSize
    Total = 4
    Unmetered = 1
    Chunks <- MCChunks
    PerChunk = 2
    Trees <- MCTrees
    Contents <- MCContents
    Huge <- MCHuge
    Budget = 6
    Spread = 2
    MaxLists = 2
    Regexes <- MCRegexes
    Samples <- MCSamples
    MaxSet = 2
    MaxStr = 4
    MinWord = 2
    MaxWord = 3
    MaxSeqs = 2
    MaxNest = 4
    Projects <- MCProjects
    Written <- MCWritten
    Configs <- MCConfigs
    PyRoots <- MCPyRoots
    Crates <- MCCrates
    Packages <- MCPackages
    MaxEdits = 2
    MaxDeltas = 3
    Share = 1
CHECK_DEADLOCK FALSE
INVARIANTS
    MemoryBounded
    PlansComplete
    SameIndex
    AsRebuilt
PROPERTY
    ParsesFinish
