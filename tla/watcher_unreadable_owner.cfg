SPECIFICATION Spec
CONSTANTS
    alice = alice
    bob = bob
    aliceAddr = aliceAddr
    bobAddr = bobAddr
    Owner = {alice, bob}
    Address = {aliceAddr, bobAddr}
    OwnerOf <- MCOwnerOf
    Outside = outside
    From <- MCFrom
    To <- MCTo
    Tx = {n}
    Token = {}
    MaxBlock = 2
    Lag = 1
    Overlap = 1
    ScanStart = 0
    MaxWindow = 1
    MinWindow = 1
    MaxScan = 1
    Stale = 0
    IndexFaults = TRUE
    PromptStart = TRUE
INVARIANTS
    NativeComplete
