SPECIFICATION Spec
CONSTANTS
    w1 = w1
    w2 = w2
    w3 = w3
    w4 = w4
    w5 = w5
    Workers = {w1, w2, w3}
    MaxConcurrent = 1
    MaxQueue = 2
    MaxGone = 1
    MaxHangs = 0
INVARIANT AtMostMax
