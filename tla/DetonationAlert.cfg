SPECIFICATION FairSpec
CHECK_DEADLOCK FALSE
CONSTANTS
    j1 = j1  j2 = j2
    d1 = d1  d2 = d2
    s1 = s1
    NoToken = NoToken
    NoJob = NoJob
    Jobs <- OneJob
    Tokens <- TwoTokens
    Sweepers <- OneSweeper
    NumWorkers = 2
    MaxAttempts = 2
    NetTimeout = 1
    FinLag = 1
    StaleTimeout = 2
    Cap = 0
    MaxRestarts = 1
    MaxDbErrors = 1
INVARIANTS StaticPathAlerted
