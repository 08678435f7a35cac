SPECIFICATION LiveSpec
CONSTANTS
    alice = alice
    bob = bob
    Party <- MCParty
    LowKey = alice
    RequireAuth = {}
    Passwords = {}
    SetupResetAfter = 5
    ResetAfter = 7
    NonceLimit = 30
    MaxNonce = 40
    MaxKeys <- MCMaxKeys
    KeysEach = 8
    MaxIdle = 7
    Resetting = {}
    Half = 2
    IntLimit = 8
    Keep = 3
    MaxFaults = 2
PROPERTIES
    Converges
CHECK_DEADLOCK FALSE
