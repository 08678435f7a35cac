SPECIFICATION Spec
CONSTANTS
    root <- MCRoot
    Alloc <- MCAlloc
    Job = {"closeHandlesOnFree", "blockFreeInsideCallback"}
    Messages = {1, 2}
    Buffers = {3, 4}
    QueueLimit = 1
    SendersLetGo = TRUE
INVARIANTS HeldWhileInUse CalledBackOnce WritesWatched
PROPERTY FreedGoes
CHECK_DEADLOCK FALSE
