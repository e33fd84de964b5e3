SPECIFICATION Spec
CONSTANTS
    i1 = i1  i2 = i2
    t1 = t1  t2 = t2  t3 = t3
    p1 = p1  p2 = p2
    s1 = s1  s2 = s2
    NoToken = NoToken
    NoItem = NoItem
    Items <- OneItem
    HotItems <- NoHot
    Tokens <- TwoTokens
    Pollers <- OnePoller
    Sweepers <- TwoSweepers
    NumWorkers = 1
    MaxAttempts = 2
    ProcessTimeout = 1
    Lag = 0
    StaleTimeout = 1
    Retention = 1
    MaxRescans = 1
SYMMETRY Symmetry
INVARIANT RetryBudget
