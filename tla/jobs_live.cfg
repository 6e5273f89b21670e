SPECIFICATION LiveSpec
CONSTANTS
    j1 = j1
    j2 = j2
    w1 = w1
    w2 = w2
    Jobs = {j1, j2}
    Workers = {w1, w2}
    Verdicts = {"ACCEPTED"}
    Hangs = {j1}
    NoJob = NoJob
    MaxRestarts = 1
    MaxFaults = 1
    MaxExpiries = 0
PROPERTIES AcceptedFinishes RunningEnds FinishedIsAnnounced RecoveryFindsRunning
INVARIANT OnceUntilSecondRestart
