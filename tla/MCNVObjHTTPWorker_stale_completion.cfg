SPECIFICATION SequentialSpec
CONSTANTS
    Objects = {1}
    w1 = w1
    t1 = t1
    t2 = t2
    response = response
    None = None
    End = End
    Dangling = Dangling
    Workers = {w1}
    Threads = {t1, t2}
    Outcomes = {response}
    MaxDepth = 1
CHECK_DEADLOCK FALSE
PROPERTY CompletedMeansDone
