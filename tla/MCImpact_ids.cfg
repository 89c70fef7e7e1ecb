SPECIFICATION Spec
CONSTANTS
    Paths = {1, 2, 3, 4, 5}
    Trees <- MCTrees
    Contents <- MCContents
    Aside = {5}
    MaxEdits = 2
    MaxBuilds = 1
CHECK_DEADLOCK FALSE
INVARIANT LikelyImports
