SPECIFICATION KeysSpec
CONSTANTS
    Req = {r1}
    App = {a1}
    Key = {k1, k2, k3}
    NoKey = NoKey
    NoApp = NoApp
    MaxKeyFaults = 1
SYMMETRY MCSymmetry
CHECK_DEADLOCK FALSE
PROPERTIES
    RestoredKeyWorks
