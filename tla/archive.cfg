SPECIFICATION Spec
CONSTANTS
    Call = {c1, c2}
    User = {u1, u2}
    Address = {a1, a2}
    Xpub = {x1}
    Net = {n1, n2}
    Folder = {f1, f2}
    NoUser = NoUser
    NoXpub = NoXpub
    NoFolder = NoFolder
    NoNet = NoNet
    NoRow = NoRow
    Scopes <- MCScopes
    MaxFaults = 1
SYMMETRY MCSymmetry
CHECK_DEADLOCK FALSE
INVARIANTS
    TypeOK
    NothingIsLost
    OneUserPerKey
    ChecksHold
