SPECIFICATION Spec
CONSTANTS
    alice = alice
    bob = bob
    Party <- MCParty
    LowKey = alice
    RequireAuth = {bob}
    Passwords = {"pw"}
    SetupResetAfter = 1
    ResetAfter = 2
    NonceLimit = 7
    MaxNonce = 6
    AliceKeys = 1
    BobKeys = 1
    MaxKeys <- MCMaxKeys
    MaxIdle = 2
    Resetting = {}
    Half = 1
    IntLimit = 8
    Keep = 1
INVARIANTS
    AuthDemanded
