CONSTANTS
    w1 = w1  w2 = w2  w3 = w3  v1 = v1  t1 = t1
    Unset = unset  Torn = torn
    Workers <- MCWorkers
    Values <- MCValues
    Tokens <- MCTokens
    MaxAttempts = 3
    BlockTime = 1
    LinkTime = 1
SPECIFICATION Spec
INVARIANTS AckedKept NotServedLater BlocksInTime
SYMMETRY MCSymmetry
