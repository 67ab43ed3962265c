SPECIFICATION Spec
CONSTANTS
    w1 = w1
    t1 = t1
    t2 = t2
    t3 = t3
    empty = empty
    response = response
    None = None
    Workers = {w1}
    Threads = {t1, t2, t3}
    Outcomes = {empty, response}
SYMMETRY Symmetry
CHECK_DEADLOCK FALSE
INVARIANT TypeOK
INVARIANT DelegateExclusive
INVARIANT RunningHasRunner
INVARIANT InterruptedIsCancelled
INVARIANT NobodyEndsSilently
PROPERTY CallsAreDelegates
