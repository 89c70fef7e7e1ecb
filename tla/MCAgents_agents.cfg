SPECIFICATION PartsSpec
CONSTANTS
    w1 = w1
    w2 = w2
    Writers = {w1, w2}
    Call = w1
    Limit = 1
    Window = 1
    MaxTime = 2
    MaxFaults = 1
    MaxReads = 1
    MaxClears = 1
    Lines0 <- MCLines
    Worlds <- MCWorlds
    Agents = {"claude", "codex"}
    WordLists <- MCWordLists
    Names = {"f1", "f2", "f3"}
    MaxCalls = 1
    u1 = u1
    u2 = u2
    Procs = {p1, p2}
    NoProc = NoProc
    Config = Config
    Skill = Skill
    Agent = "codex"
    Ours = Ours
    Handlers = {u1, u2}
    UserConfigs <- MCConfigs
    Skills = {"older", "modified"}
    MaxRuns = 2
    MaxEdits = 1
    MaxFailures = 1
CONSTRAINT Focus
SYMMETRY Symmetry
CHECK_DEADLOCK FALSE
INVARIANTS
    LogSound
    RunsAsChecked
    SameAsAsked
    EditsSurvive
    OkIsDone
