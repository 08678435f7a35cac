SPECIFICATION LiveSpec
CONSTANTS
    Label = {1, 2}
    Data = {"d", "e"}
    Sent = {"d"}
    Strays <- MCStrays
    maxConcurrentPings = 1
    MaxPings = 3
INVARIANTS
    OneEnding
    AnswerIsPingedNodes
PROPERTIES
    EveryPingEnds
CHECK_DEADLOCK FALSE
