SPECIFICATION Spec
CONSTANTS
    Call = {c1, c2}
    User = {u1}
    Address = {a1}
    Xpub = {x1}
    Net = {n1}
    Folder = {}
    NoUser = NoUser
    NoXpub = NoXpub
    NoFolder = NoFolder
    NoNet = NoNet
    NoRow = NoRow
    Scopes <- MCScopes
    MaxFaults = 0
SYMMETRY MCSymmetry
CHECK_DEADLOCK FALSE
INVARIANTS
    SidesAreApart
