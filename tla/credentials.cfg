SPECIFICATION MCSpec
CONSTANTS
    u1 = u1  u2 = u2  l1 = l1  l2 = l2  a1 = a1  a2 = a2
    Call = {c1, c2}
    User = {u1, u2}
    Login = {l1, l2}
    Address = {a1, a2}
    Secret = {k1, k2, k3}
    Settled = {u1}
    NameOf <- MCNameOf
    HomeOf <- MCHomeOf
    RowOf <- MCRowOf
    NoUser = NoUser
    NoAddress = NoAddress
    NoLogin = NoLogin
    NoSecret = NoSecret
    NoRow = NoRow
    Mixes <- MCMixes
    MaxEmail = 2
    MaxCut = 2
    MaxFaults = 1
    Req = {c1, c2}
    App = {b1}
    Key = {1, 2, 3, 4}
    NoKey = NoKey
    NoApp = NoApp
    MaxKeyFaults = 2
SYMMETRY MCSymmetry
CHECK_DEADLOCK FALSE
INVARIANTS
    TypeOK
    OldSessionsAreGone
    AccountsAreWhole
    OnlyShownLinksConfirm
    KeysTypeOK
    DeadKeyNeverWorks
    HandedKeyWorks
    ShownKeyWorks
