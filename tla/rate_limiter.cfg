SPECIFICATION Spec
CONSTANTS
    r1 = r1
    r2 = r2
    r3 = r3
    u = u
    v = v
    Requests = {r1, r2, r3}
    Callers = {u, v}
    Limits = {1, 2}
    Window = 2
    MaxTime = 5
    MaxFaults = 1
SYMMETRY Symmetry
INVARIANTS LimitIsKept CountersFade
CHECK_DEADLOCK FALSE
