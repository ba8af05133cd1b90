CONSTANTS
    Requests <- MCRequests
    Responses <- MCResponses
    None = None
SPECIFICATION HttpFairSpec
INVARIANT ClientUnderstands
PROPERTY RequestAnswered
CHECK_DEADLOCK FALSE
