SPECIFICATION PartsSpec
CONSTANTS
    root = root
    dir = dir
    a = a
    x = x
    q1 = q1
    b = b
    Files = {a, x}
    Dirs = {root, dir}
    Root = root
    Parent <- MCParent
    Builders = {}
    Queries = {q1}
    Window = 2
    TTL = 1
    NoInoMin = 2
    Changes = {"away", "back"}
    NewSets = {{}}
    Indexed = {TRUE}
    MaxTime = 4
    MaxOps = 2
    MaxBuilds = 0
CHECK_DEADLOCK FALSE
INVARIANT EveryAnswerFresh
