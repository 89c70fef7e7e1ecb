SPECIFICATION PartsSpec
CONSTANTS
    w1 = w1
    w2 = w2
    Writers = {w1, w2}
    Call = w1
    Limit = 1
    Window = 1
    MaxTime = 0
    MaxFaults = 0
    MaxReads = 0
    MaxClears = 0
    Lines0 <- OrLines
    Worlds <- MCWorlds
    Agents = {"claude", "codex"}
    WordLists <- MCWordLists
    Names = {"f1", "f2", "f3"}
    MaxCalls = 1
    u1 = u1
    u2 = u2
    Procs = {p1, p2}
    NoProc = NoProc
    Config = Config
    Skill = Skill
    Agent = "codex"
    Ours = Ours
    Handlers = {u1, u2}
    UserConfigs <- MCConfigs
    Skills = {"older", "modified"}
    MaxRuns = 2
    MaxEdits = 1
    MaxFailures = 1
CHECK_DEADLOCK FALSE
INVARIANT KnownDirectory
