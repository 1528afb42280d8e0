SPECIFICATION Spec
CONSTANTS
    u1 = u1
    User = {u1}
    n1 = n1  n2 = n2
    Network = {n1, n2}
    DefaultNetwork = n1
    t1 = t1  t2 = t2
    Tx = {t1}
    Parts <- MCParts
    Overlap = 1
    MaxTime = 4
    NoPayment = NoPayment
    NoAddress = NoAddress
    Never = Never
    c1 = c1  c2 = c2
    Call = {c1}
    Loop = Loop
    Fee = {2}
    ByHand = {}
    PeriodLength = 2
    DueIn = 1
    RemindIn = 1
    PassTime = 1
    Modes <- MCModes
    MaxFaults = 0
    NoUser = NoUser
    NoNetwork = NoNetwork
    NoInvoice = NoInvoice
INVARIANTS
    TypeOK
    PaymentsAreRecorded
    NoMoneyFromRepeats
    InvoicesCanBePaid
    RemindedOnce
PROPERTIES
    SuspensionIsEarned
    ReopeningIsEarned
