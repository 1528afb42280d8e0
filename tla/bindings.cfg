SPECIFICATION Spec
CONSTANTS
    r1 = r1  r2 = r2
    p1 = p1  p2 = p2  a1 = a1
    n1 = n1  n2 = n2  w1 = w1  w2 = w2
    g1 = g1  g2 = g2
    Req = {r1, r2}
    Process = {g1, g2}
    Payer = {p1, p2}
    App = {a1}
    AppOf <- MCAppOf
    Network = {n1, n2}
    Wallet = {w1, w2}
    NoWallet = NoWallet
    NoNetwork = NoNetwork
    NoReq = NoReq
    NoPayer = NoPayer
    MaxIndex = 2
    MaxRemap = 1
    MaxRemapApart = 0
SYMMETRY MCSymmetry
INVARIANTS
    TypeOK
    AnswersAgree
    OneAddressOnePayer
    SameAddressEverywhere
