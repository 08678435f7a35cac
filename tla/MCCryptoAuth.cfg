SPECIFICATION Spec
CONSTANTS
    alice = alice
    bob = bob
    Party <- MCParty
    LowKey = alice
    RequireAuth = {}
    Passwords = {}
    SetupResetAfter = 1
    ResetAfter = 2
    NonceLimit = 7
    MaxNonce = 5
    AliceKeys = 2
    BobKeys = 2
    MaxKeys <- MCMaxKeys
    MaxIdle = 0
    Resetting = {bob}
    Half = 1
    IntLimit = 8
    Keep = 1
INVARIANTS
    KeysKnown
    NonceNeverReused
    OppositeRoles
    DeliveredOnce
