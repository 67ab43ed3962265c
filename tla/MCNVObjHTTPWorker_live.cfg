SPECIFICATION OrderedFairSpec
CONSTANTS
    Objects = {1, 2}
    response = response
    None = None
    End = End
    Dangling = Dangling
    Workers = {1, 2}
    Threads = {1, 2}
    Outcomes = {response}
    MaxDepth = 1
CHECK_DEADLOCK FALSE
PROPERTY EveryStartIsAnswered
