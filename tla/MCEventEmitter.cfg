SPECIFICATION EmitterSpec
CONSTANTS
    internal = internal
    other = other
    careless = careless
    Pathfinders = {internal, other, careless}
    Honest = {internal, other}
    Internal = {internal}
    Sizes = {2}
    PingAt = 3
    MaxBytes = 4
    MaxQueue = 2
    MaxAnswers = 1
    Requests <- MCRequests
INVARIANTS
    ConnectFirst
    HonestNeverErrs
PROPERTIES
    GoneForGood
CHECK_DEADLOCK FALSE
