SPECIFICATION MCSpec
CONSTANTS
    n1 = n1  n2 = n2  n3 = n3
    Names <- ThreeNames
    Paths <- TwoPaths
    MaxErrors = 1
    MaxRestarts = 1
    MaxSeq = 3
    NpmPage = 2
    MaxPages = 2
    MaxResolve = 2
    MaxChecks = 2
    CarryMax = 1
    MaxIndex = 2
    MaxClock = 1
    GoPage = 1
    FeedChecks = 1
    Projects <- TwoPaths
    MaxLog = 4
    MaxItems = 2
    FeedWindow = 1
    Crates <- TwoPaths
    RssWindow = 1
    ApiWindow = 2
    MaxUpdates = 0
    ListCases = {"none"}
    Parts = {"npm", "gomod", "crates"}
PROPERTIES NpmCatchesUp  NewCratesFound
