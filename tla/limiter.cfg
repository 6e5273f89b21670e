SPECIFICATION LiveSpec
CONSTANTS
    w1 = w1
    w2 = w2
    w3 = w3
    w4 = w4
    w5 = w5
    Workers = {w1, w2, w3, w4, w5}
    MaxConcurrent = 2
    MaxQueue = 2
    MaxGone = 1
    MaxHangs = 1
INVARIANTS TypeOK CountsRuns OvershootBounded NoIdleSlot
PROPERTIES NoOvertaking WaitingIsServed
