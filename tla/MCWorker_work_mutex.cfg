SPECIFICATION Spec
CONSTANTS
    w1 = w1
    t1 = t1
    response = response
    None = None
    Workers = {w1}
    Threads = {t1}
    Outcomes = {response}
CHECK_DEADLOCK FALSE
INVARIANT WorkMutexOutlivesItsHolder
