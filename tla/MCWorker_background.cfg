SPECIFICATION BackgroundFairSpec
CONSTANTS
    w1 = w1
    t1 = t1
    t2 = t2
    empty = empty
    response = response
    None = None
    Workers = {w1}
    Threads = {t1, t2}
    Outcomes = {empty, response}
CHECK_DEADLOCK FALSE
INVARIANT CompleteMeansPublished
PROPERTY CompletesUnlessCancelled
PROPERTY ThreadsEnd
