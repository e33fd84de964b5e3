SPECIFICATION MCSpec
CONSTANTS
    n1 = n1  n2 = n2  n3 = n3
    Names <- ThreeNames
    Paths <- TwoPaths
    MaxErrors = 1
    MaxRestarts = 1
    MaxSeq = 4
    NpmPage = 2
    MaxPages = 2
    MaxResolve = 2
    MaxChecks = 2
    CarryMax = 1
    MaxIndex = 3
    MaxClock = 1
    GoPage = 2
    FeedChecks = 1
    Projects <- TwoPaths
    MaxLog = 4
    MaxItems = 2
    FeedWindow = 1
    Crates <- TwoPaths
    RssWindow = 1
    ApiWindow = 2
    MaxUpdates = 1
    ListCases = {"none", "watch", "focus"}
    Parts = {"gomod"}
INVARIANT GiveUpRelisted
