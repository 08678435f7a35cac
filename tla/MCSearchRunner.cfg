SPECIFICATION Spec
CONSTANTS
    s1 = s1
    s2 = s2
    s3 = s3
    Search = {s1, s2, s3}
    Node = {0, 3, 4, 5}
    Bits = 3
    Distance <- MCDistance
    Self = 7
    Target = {4}
    Paths <- MCPaths
    MaxConcurrent = 2
    MaxRequests <- MCMaxRequests
    MaxRequestsIfFound = 2
    Owned = {s1}
    SearchNodes = 3
    MillSize = 1
    Store <- MCStore
    Answer <- MCAnswer
    NULL = NULL
    First = First
INVARIANTS EachShownOnce AskedOnceIfOrdered
PROPERTY SearchesEnd
CHECK_DEADLOCK FALSE
