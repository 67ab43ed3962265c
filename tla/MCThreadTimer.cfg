SPECIFICATION FairSpec
CONSTANTS
    Objects = {1, 2, 3, 4, 5}
    None = None
    End = End
    Dangling = Dangling
INVARIANT TypeOK
INVARIANT ArmedWhileSubscribed
INVARIANT CursorIsEntry
PROPERTY WalkGoesUp
PROPERTY EverySubscriberIsNotified
