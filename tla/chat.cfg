SPECIFICATION FairSpec
CONSTANTS
    w1 = w1
    w2 = w2
    f1 = f1
    f2 = f2
    f3 = f3
    Workers = {w1, w2}
    Names = {f1, f2, f3}
    MaxRetries = 2
    ChatBound = 2
CHECK_DEADLOCK FALSE
INVARIANTS RequestFileOwned NoTempLeft StatsExact AnswerIsLast
PROPERTIES ChatReturns
