SPECIFICATION Spec
CONSTANTS
    GetMethod = GetMethod
    HeadMethod = HeadMethod
    PostMethod = PostMethod
    NoText = NoText
    someUrl = someUrl
    someBody = someBody
    patch = patch
    MaxRows = 2
    longName = longName
    MaxRuns = 1
    Rows <- MCRows
    Responses <- MCResponses
    LongNames <- MCLongNames
CHECK_DEADLOCK FALSE
INVARIANT HeadersAreComplete
