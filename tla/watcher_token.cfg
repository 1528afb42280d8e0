SPECIFICATION LiveSpec
CONSTANTS
    alice = alice
    aliceAddr = aliceAddr
    Owner = {alice}
    Address = {aliceAddr}
    OwnerOf <- MCOwnerOf
    Outside = outside
    From <- MCFrom
    To <- MCTo
    Tx = {k}
    Token = {k}
    MaxBlock = 3
    Lag = 2
    Overlap = 1
    ScanStart = 0
    MaxWindow = 2
    MinWindow = 1
    MaxScan = 1
    Stale = 0
    IndexFaults = FALSE
    PromptStart = TRUE
    MaxFaults = 1
INVARIANTS
    TokenComplete
PROPERTIES
    FinalPaymentNeverVanishes
    FinalIsForever
    ImplementsLedger
    FinalPaymentIsCredited
    DiscardedRowGoes
