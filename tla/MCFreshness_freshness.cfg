SPECIFICATION PartsSpec
CONSTANTS
    root = root
    dir = dir
    a = a
    x = x
    q1 = q1
    b = b
    Files = {a, x}
    Dirs = {root, dir}
    Root = root
    Parent <- MCParent
    Builders = {b}
    Queries = {q1}
    Window = 1
    TTL = 1
    NoInoMin = 1
    Changes = {"write", "replace", "remove", "create", "again", "away", "back", "sameTick", "inodes"}
    NewSets = {{x}, {x, dir}}
    Indexed = {TRUE, FALSE}
    MaxTime = 3
    MaxOps = 2
    MaxBuilds = 1
CHECK_DEADLOCK FALSE
INVARIANTS
    ChangesShow
    AnswerFresh
PROPERTY BecomesExact
