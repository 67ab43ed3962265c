SPECIFICATION CourteousSpec
CONSTANTS
    Objects = {1, 2}
    w1 = w1
    w2 = w2
    t1 = t1
    t2 = t2
    response = response
    None = None
    End = End
    Dangling = Dangling
    Workers = {w1, w2}
    Threads = {t1, t2}
    Outcomes = {response}
    MaxDepth = 2
SYMMETRY Symmetry
CHECK_DEADLOCK FALSE
INVARIANT TypeOK
INVARIANT AwaitingIsWatched
INVARIANT WatchedIsAlive
INVARIANT WatchedHasWorker
INVARIANT WorkersAreNotShared
INVARIANT AwaitingIsAnswerable
PROPERTY CompletedMeansDone
PROPERTY AnswersOnce
