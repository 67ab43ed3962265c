SPECIFICATION Spec
CONSTANTS
    Objects = {1}
    w1 = w1
    w2 = w2
    t1 = t1
    t2 = t2
    response = response
    None = None
    End = End
    Dangling = Dangling
    Workers = {w1, w2}
    Threads = {t1, t2}
    Outcomes = {response}
    MaxDepth = 1
CHECK_DEADLOCK FALSE
INVARIANT StartedIsWatched
