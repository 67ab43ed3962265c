SPECIFICATION FairSpec
CONSTANT MaxEndpoints = 3
CHECK_DEADLOCK FALSE
INVARIANT TypeOK
INVARIANT SettledOnce
INVARIANT NothingForgotten
INVARIANT ValuesInOrder
INVARIANT ResponseIsWhole
INVARIANT IoEndsWithRun
INVARIANT WaitsForSomebody
PROPERTY ExchangeGoesOn
PROPERTY RunEnds
PROPERTY ImplementsDelegate
