SPECIFICATION Spec
CONSTANTS
    i1 = i1  i2 = i2
    t1 = t1  t2 = t2  t3 = t3
    p1 = p1  p2 = p2
    s1 = s1  s2 = s2
    NoToken = NoToken
    NoItem = NoItem
    Items <- OneItem
    HotItems <- OneItem
    Tokens <- TwoTokens
    Pollers <- OnePoller
    Sweepers <- OneSweeper
    NumWorkers = 2
    MaxAttempts = 1
    ProcessTimeout = 1
    Lag = 1
    StaleTimeout = 2
    Retention = 2
    MaxRescans = 0
SYMMETRY Symmetry
INVARIANTS AlertNotLost
