SPECIFICATION PatientSpec
CONSTANTS
    w1 = w1
    w2 = w2
    t1 = t1
    t2 = t2
    response = response
    None = None
    Workers = {w1, w2}
    Threads = {t1, t2}
    Outcomes = {response}
SYMMETRY Symmetry
CHECK_DEADLOCK FALSE
INVARIANT NoLifetimeFault
