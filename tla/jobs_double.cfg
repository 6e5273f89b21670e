SPECIFICATION Spec
CONSTANTS
    j1 = j1
    j2 = j2
    w1 = w1
    w2 = w2
    Jobs = {j1, j2}
    Workers = {w1, w2}
    Verdicts = {"ACCEPTED"}
    Hangs = {}
    NoJob = NoJob
    MaxRestarts = 2
    MaxFaults = 0
    MaxExpiries = 0
SYMMETRY MCSymmetry
INVARIANT NoDoubleEnqueue
