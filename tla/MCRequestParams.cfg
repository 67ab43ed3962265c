SPECIFICATION Spec
CONSTANTS
    GetMethod = GetMethod
    HeadMethod = HeadMethod
    PostMethod = PostMethod
    NoText = NoText
    someUrl = someUrl
    someBody = someBody
    patch = patch
    MaxRows = 3
    longName = longName
    MaxRuns = 2
    Rows <- MCRows
    Responses <- MCResponses
    LongNames <- MCLongNames
CHECK_DEADLOCK FALSE
INVARIANT TypeOK
INVARIANT BadParameterIsIsolated
INVARIANT HeadersAreNotMixed
INVARIANT AnswerIsWhole
INVARIANT HeadersKeepTheirNames
