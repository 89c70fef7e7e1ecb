\* Three files searched, listed or edited; five paths graded; four rows to fit.
SPECIFICATION PartsSpec
CONSTANTS
    Files = {1, 2, 3}
    Texts <- MCTexts
    Asked <- MCAsked
    MaxHits = 3
    MaxDefs = 1
    PerPool = 1
    PerLine = 2
    Few = 2
    SpillLines = 1
    MaxEdits = 1
    Rewritten <- MCRewritten
    HitCost = 3
    HeaderCost = 1
    MoreCost = 1
    FooterCost = 3
    FacetsCost = 2
    Broad = 3
    MaxTop = 2
    MaxRelated = 2
    Demoted = {2}
    Olds <- MCVersions
    News <- MCVersions
    Absent = Absent
    MaxChanges = 1
    Sources <- MCSources
    Edited <- MCEdited
    PathPrior <- MCPathPrior
    KindWeight <- MCKindWeight
    Requests <- MCRequests
    Selected = {1, 2, 3}
    Skipped = {3}
    Modules = {2}
    Racy = {1}
    ModuleWeight = 3
    Folded = {"Q"}
    Near = {"qs"}
    Described = 3
    MaxImpls = 1
    MaxWrites = 2
    Paths = {1, 2, 3, 4, 5}
    Trees <- MCTrees
    Contents <- MCContents
    Aside = {5}
    MaxTreeEdits = 2
    MaxBuilds = 1
    Sizes <- MCSizes
    Estimates <- MCEstimates
    Top = 4
    Budgets = {0, 3}
    Ceilings = {0, 2, 5, 6}
CHECK_DEADLOCK FALSE
INVARIANTS
    LinesKept
    ToldWhatIsMissing
    BestShown
    ChangesReported
    Located
    ListedOnce
    Graded
    FitsLimits
